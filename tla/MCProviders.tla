---------------------------- MODULE MCProviders ----------------------------
(***************************************************************************)
(* The instance of ProviderPages that TLC explores: the simulator, a       *)
(* vendor behind HTTP that needs a key, one that does not, or a broker     *)
(* whose key is only checked for being there.                              *)
(***************************************************************************)
EXTENDS ProviderPages

GoodKey == CHOOSE key \in Keys : TRUE

VendorAccepts == {<<p, GoodKey>> : p \in Remote} \cup {<<p, NoKey>> : p \in KeyFree}

FromEnvironment ==
  [p \in Providers |->
     IF p \in Remote THEN [key |-> GoodKey, enabled |-> TRUE] ELSE NoConfig]
=============================================================================
