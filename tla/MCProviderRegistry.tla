-------------------------- MODULE MCProviderRegistry --------------------------
(* Instances of ProviderRegistry for TLC: a few interchangeable invocations  *)
(* of one or two configured providers and of a name with no configuration.   *)
EXTENDS ProviderRegistry, TLC

InvocationSymmetry == Permutations(Invocations)
===============================================================================
