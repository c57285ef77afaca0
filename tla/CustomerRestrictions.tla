------------------------- MODULE CustomerRestrictions -------------------------
(***************************************************************************)
(* The legal restrictions of one customer.  An officer's request reads the *)
(* whole profile, changes one restriction and saves the whole profile; the *)
(* two halves are separate transactions.                                   *)
(***************************************************************************)
EXTENDS Naturals

CONSTANTS
  Restrictions,
  Officers   (* concurrent requests that change the profile                *)

VARIABLES
  restriction,  (* customer.legal_restriction                              *)
  officer       (* the profile each request has read                       *)

cvars == <<restriction, officer>>

Standing == {"absent", "active", "lifted"}

Profile == [Restrictions -> Standing]

Empty == [r \in Restrictions |-> "absent"]

Away == [reading |-> FALSE, profile |-> Empty]

(* The type invariant.                                                     *)
CustomerTypeOK ==
  /\ restriction \in Profile
  /\ officer \in [Officers -> [reading: BOOLEAN, profile: Profile]]

CustomerInit ==
  /\ restriction = Empty
  /\ officer = [o \in Officers |-> Away]

-----------------------------------------------------------------------------
(* assertProfitRightsOperationAllowed                                      *)
Restricted == \E r \in Restrictions : restriction[r] = "active"

Find(o) ==
  /\ ~officer[o].reading
  /\ officer' = [officer EXCEPT ![o] = [reading |-> TRUE, profile |-> restriction]]
  /\ UNCHANGED restriction

(* Each restriction of the profile is inserted, or its lifted_at replaced. *)
(* The profile may be an old one: another officer's change is taken back.  *)
Save(o, profile) ==
  /\ restriction' = [r \in Restrictions |->
       IF profile[r] = "absent" THEN restriction[r] ELSE profile[r]]
  /\ officer' = [officer EXCEPT ![o] = Away]

(* The request names the restriction.                                      *)
AddRestriction(o) ==
  /\ officer[o].reading
  /\ \E r \in Restrictions :
       /\ officer[o].profile[r] = "absent"
       /\ Save(o, [officer[o].profile EXCEPT ![r] = "active"])

LiftRestriction(o) ==
  /\ officer[o].reading
  /\ \E r \in Restrictions :
       /\ officer[o].profile[r] = "active"
       /\ Save(o, [officer[o].profile EXCEPT ![r] = "lifted"])

(* The change is refused, or the request fails.                            *)
GiveUp(o) ==
  /\ officer[o].reading
  /\ officer' = [officer EXCEPT ![o] = Away]
  /\ UNCHANGED restriction

OfficerStep(o) == Find(o) \/ AddRestriction(o) \/ LiftRestriction(o) \/ GiveUp(o)

CustomerNext == \E o \in Officers : OfficerStep(o)

CustomerSpec == CustomerInit /\ [][CustomerNext]_cvars
===============================================================================
