------------------------------- MODULE Answers -------------------------------
(* What the service answers to requests that share no state with one        *)
(* another: the functions of a space (FunctionApproval, which this module   *)
(* extends), its actions (Actions), its objects (Objects), and the front    *)
(* door every request comes through (Routes). Their steps interleave.       *)
EXTENDS FunctionApproval, Sequences, FiniteSets

CONSTANTS Roles, ActionAsks, Declarable, \* Actions
          Keys, Null, Limit, Hits, \* Objects
          Segments                \* Routes: what a name in an address may be

(* A missing value is no key; a table is finite; a list holds something.    *)
ASSUME NullIsNoKey == Null \notin Keys
ASSUME ListsAreFinite == IsFiniteSet(Keys) /\ Limit \in Nat \ {0} /\ Hits \in Nat \ {0}

VARIABLES declared, action, there, call, trail, told, asks,
          orders, customers, column,
          request, at, passed, reply

AC == INSTANCE Actions WITH MaxAsks <- ActionAsks
OB == INSTANCE Objects
RO == INSTANCE Routes WITH Names <- Segments, answer <- reply

ASSUME AreDeclarations == Declarable \subseteq AC!Declarations

acts == <<declared, action, there, call, trail, told, asks>>
objects == <<orders, customers, column>>
address == <<request, at, passed, reply>>
answers == <<vars, acts, objects, address>>

Asked == Init /\ AC!Init /\ OB!Init /\ RO!Init
Approving == Next /\ UNCHANGED <<acts, objects, address>>
Acting == AC!Next /\ UNCHANGED <<vars, objects, address>>
Showing == OB!Next /\ UNCHANGED <<vars, acts, address>>
Entering == RO!Next /\ UNCHANGED <<vars, acts, objects>>
AnswersSpec == Asked /\ [][Approving \/ Acting \/ Showing \/ Entering]_answers

(* The audit trail is what callers were told (actions.ts).                  *)
TrailIsWhatWasSaid == AC!TrailIsWhatWasSaid
(* Filters and links agree with one another about which objects there are   *)
(* (objectSet.ts).                                                          *)
ObjectsAgree == OB!OppositesShareOut /\ OB!BothWaysAgree
(* An address comes to the route it was written for, behind the guards      *)
(* (index.ts).                                                              *)
AddressesArrive == RO!ReachesItsRoute /\ RO!GuardsComeFirst
=============================================================================
