----------------------------- MODULE MCMatching -----------------------------
(***************************************************************************)
(* Instances of Matching for TLC: objects are numbers in the order of ids, *)
(* properties from 1, accounts from 11, assets from 21, merchants from 31. *)
(***************************************************************************)
EXTENDS Matching

CONSTANTS PropertyCount, AccountCount, AssetCount, OrganisationCount

MCProperties == 1..PropertyCount
MCAccounts == 11..(10 + AccountCount)
MCAssets == 21..(20 + AssetCount)
MCOrganisations == 31..(30 + OrganisationCount)

\* The tables that a document of this kind never reads start empty.
MCInit ==
  /\ Init
  /\ kind = "property" =>
       /\ data.serial = {} /\ data.order = {} /\ data.model = {} /\ data.merchants = {}
  /\ kind = "asset" =>
       /\ data.addressed = {} /\ data.suffixed = {} /\ data.issued = {}
       /\ \A a \in Accounts : data.subject[a] = -1

MCSpec == MCInit /\ [][Next]_vars
=============================================================================
