-------------------------- MODULE PlacementProofs --------------------------
(***************************************************************************)
(* The safety properties of Placement for all signal lists and any number  *)
(* of placements.                                                          *)
(*                                                                         *)
(* They all come from who believes to own the library at each point of the *)
(* thread: IndInv follows the ownership from the constructor through Init  *)
(* to the end of the first placement, after which the library is down for  *)
(* good, and says what that leaves of the placements that follow.          *)
(***************************************************************************)
EXTENDS Placement, FiniteSetTheorems, SequenceTheorems, TLAPS

IsOwner(o) == obj[o] \in {"Ok", "BlockBySystem"}

\* The thread reaches each of its places in one mode, at one time only.
PhaseInv ==
    /\ pc \in {"construct", "read", "simul"} => cycle = 0 /\ ~timer
    /\ pc = "simul" => mode = "SIMUL"
    /\ pc = "leaveInit" => mode = "SIMUL" \/ cycle = 0
    /\ pc \in {"placing", "returning"} =>
          cycle > 0 /\ (caller = "Init" <=> mode = "SIMUL")
    /\ mode = "SIMUL" => cycle <= 1 /\ ~timer
    /\ pc = "crashed" => cycle > 1

\* The member is the first client, so it is never the one that does nothing.
MemberInv ==
    /\ pc \in {"construct", "gone"} => lib = "down"
    /\ pc \notin {"construct", "gone"} =>
          obj["member"] \in {"Ok", "BadInit", "BlockBySystem"}
    /\ pc \in {"construct", "read"} => obj["local"] = "none"
    /\ pc = "read" /\ lib = "down" => obj["member"] = "BadInit"

\* The library is up for exactly one of the originals.
OwnerInv ==
    lib = "up" => \E o \in Originals : \A p \in Originals : IsOwner(p) <=> p = o

\* Until the first placement returns, a client that is Ok has the library.
FirstInv ==
    /\ pc = "simul" /\ obj["local"] = "Ok" => lib = "up"
    /\ pc = "leaveInit" /\ cycle = 0 /\ obj["member"] = "Ok" =>
          lib = "up" /\ obj["local"] = "NotInit"
    /\ pc = "idle" /\ cycle = 0 /\ obj["member"] = "Ok" => lib = "up"
    /\ pc = "placing" /\ cycle = 1 /\ obj["arg"] = "Ok" => lib = "up"

\* After it returned the library is down for good, when the link is polled.
DownInv ==
    mode # "SIMUL" =>
        /\ cycle > 1 => lib = "down"
        /\ cycle = 1 /\ pc \notin {"placing", "returning"} => lib = "down"

\* The copy that a polling gateway's placement works with.
ArgInv ==
    mode # "SIMUL" /\ pc \in {"placing", "returning"} =>
        /\ obj["arg"] # "NotInit"
        /\ obj["arg"] # "Ok" => obj["member"] # "Ok"

\* What a placement has visited is in the channel or was dropped, and what it
\* has not visited is not in the channel.
PrefixInv ==
    /\ \A i \in Positions : chan[i] <= cycle /\ chan[i] <= 1
    /\ cycle > 0 =>
          \A i \in Positions :
              /\ i < next => chan[i] = cycle \/ i \in dropped
              /\ chan[i] = cycle => i < next

\* A reply comes between two placements, and settles bad.
PolledInv ==
    /\ polled => cycle > 0 /\ (pc = "placing" => cycle > 1)
    /\ ~polled => bad = {}

\* A placement after the first gets nowhere.
LateInv ==
    cycle > 1 =>
        /\ pc = "placing" => next = 1
        /\ pc = "returning" => list = <<>> \/ 1 \in bad \/ obj["arg"] # "Ok"
        /\ pc = "idle" => list = <<>> \/ 1 \in bad \/ obj["member"] # "Ok"

\* In simulation mode a usable client and the member's failure go together.
SimulInv ==
    mode = "SIMUL" /\ pc # "gone" =>
        /\ pc = "simul" /\ obj["local"] = "Ok" => obj["member"] = "BadInit"
        /\ pc = "placing" /\ obj["arg"] = "Ok" => obj["member"] = "BadInit"
        /\ \A i \in Positions : chan[i] # 0 => obj["member"] = "BadInit"

\* The inductive invariant.
IndInv ==
    /\ TypeOK /\ PhaseInv /\ MemberInv /\ OwnerInv /\ FirstInv /\ DownInv
    /\ ArgInv /\ PrefixInv /\ PolledInv /\ LateInv /\ SimulInv
-----------------------------------------------------------------------------
(* Type correctness. *)

\* The initial state has the declared types.
LEMMA TypeInit == Init => TypeOK
<1> SUFFICES ASSUME Init PROVE TypeOK
  OBVIOUS
<1>1. DtsTypeOK
  BY DEF Init, DtsInit, DtsTypeOK, States
<1>2. Len(list) \in Nat /\ 0 \in 0 .. MaxCycle
  BY PlacementAssumption DEF Init, PlacementAssumption
<1>3. chan \in [Positions -> 0 .. MaxCycle]
  BY <1>2 DEF Init
<1>4. timer \in BOOLEAN /\ polled \in BOOLEAN /\ outage \in BOOLEAN
  BY Zenon DEF Init
<1>5. next \in 1 .. Len(list) + 1
  BY <1>2 DEF Init
<1> QED BY <1>1, <1>2, <1>3, <1>4, <1>5 DEF Init, TypeOK

\* No step changes the mode or the list, and every one leaves the clients with
\* a state that the library knows.
LEMMA ClientStep ==
    ASSUME TypeOK, Next
    PROVE  DtsTypeOK' /\ mode' = mode /\ list' = list
<1> USE DEF TypeOK, DtsTypeOK, States, Objects, Originals
<1>1. CASE ConstructMember
  BY <1>1 DEF ConstructMember, Construct
<1>2. CASE ConstructLocal
  BY <1>2 DEF ConstructLocal, Construct
<1>3. CASE CallFromInit
  BY <1>3 DEF CallFromInit, Call, Copy
<1>4. CASE EmitTime
  BY <1>4 DEF EmitTime, Call, Copy
<1>5. CASE Return
  BY <1>5 DEF Return, Destroy
<1>6. CASE LeaveInit
  BY <1>6 DEF LeaveInit, Destroy
<1>7. CASE Destruct
  BY <1>7 DEF Destruct, Destroy
<1>8. CASE CheckWorkability
  BY <1>8 DEF CheckWorkability, Block
<1>9. CASE ReadFails \/ PutNext \/ Finish \/ FirstReply
  BY <1>9 DEF ReadFails, PutNext, Finish, FirstReply, dtsVars
<1> QED
  BY <1>1, <1>2, <1>3, <1>4, <1>5, <1>6, <1>7, <1>8, <1>9 DEF Next

\* Every step keeps the declared types: no placement runs past the list.
LEMMA TypeStep == TypeOK /\ [Next]_vars => TypeOK'
<1> SUFFICES ASSUME TypeOK, [Next]_vars PROVE TypeOK'
  OBVIOUS
<1>a. Len(list) \in Nat /\ MaxCycle \in Nat
  BY PlacementAssumption DEF TypeOK, PlacementAssumption
<1>b. CASE UNCHANGED vars
  BY <1>b DEF vars, TypeOK, DtsTypeOK, Positions
<1>c. CASE Next
  <2>a. DtsTypeOK' /\ mode' = mode /\ list' = list /\ Positions' = Positions
    BY <1>c, ClientStep DEF Positions
  <2>b. timer' \in BOOLEAN /\ polled' \in BOOLEAN /\ outage' \in BOOLEAN
    BY <1>c, Zenon DEF TypeOK, Next, ConstructMember, ReadFails, ConstructLocal,
       CallFromInit, EmitTime, Call, PutNext, Finish, Return, LeaveInit,
       FirstReply, Destruct, CheckWorkability, signalVars
  <2> DEFINE Rest == /\ pc' \in {"construct", "read", "simul", "leaveInit", "idle",
                                 "placing", "returning", "crashed", "gone"}
                     /\ caller' \in {"nobody", "Init", "EmitTime"}
                     /\ cycle' \in 0 .. MaxCycle
                     /\ next' \in 1 .. Len(list) + 1
                     /\ bad' \subseteq Positions /\ dropped' \subseteq Positions
                     /\ chan' \in [Positions -> 0 .. MaxCycle]
  <2> SUFFICES Rest
    BY <2>a, <2>b DEF TypeOK
  <2>1. CASE ConstructMember
    BY <2>1 DEF ConstructMember, callVars, signalVars, TypeOK
  <2>2. CASE ReadFails \/ ConstructLocal
    BY <2>2 DEF ReadFails, ConstructLocal, callVars, signalVars, TypeOK
  <2>3. CASE CallFromInit \/ EmitTime
    BY <1>a, <2>3 DEF CallFromInit, EmitTime, Call, signalVars, TypeOK
  <2>4. CASE PutNext
    <3>1. PICK r \in PutOutcomes("arg", next \notin bad) :
             /\ AfterPut(r)
             /\ chan' = IF r = "ok" THEN [chan EXCEPT ![next] = cycle] ELSE chan
             /\ dropped' = IF r = "warning" THEN dropped \cup {next} ELSE dropped
      BY <2>4 DEF PutNext
    <3>2. next \in Positions
      BY <1>a, <2>4 DEF PutNext, TypeOK, Positions
    <3>3. pc' \in {"placing", "returning", "crashed"} /\ next' \in 1 .. Len(list) + 1
      BY <1>a, <2>4, <3>1, <3>2 DEF PutNext, AfterPut, TypeOK, Positions
    <3>4. chan' \in [Positions -> 0 .. MaxCycle] /\ dropped' \subseteq Positions
      BY <3>1, <3>2 DEF TypeOK
    <3> QED BY <2>4, <3>3, <3>4 DEF PutNext, signalVars, TypeOK
  <2>5. CASE Finish \/ Return \/ LeaveInit
    BY <2>5 DEF Finish, Return, LeaveInit, callVars, signalVars, TypeOK
  <2>6. CASE FirstReply
    BY <2>6 DEF FirstReply, callVars, TypeOK
  <2>7. CASE Destruct \/ CheckWorkability
    BY <2>7 DEF Destruct, CheckWorkability, callVars, signalVars, TypeOK
  <2> QED
    BY <1>c, <2>1, <2>2, <2>3, <2>4, <2>5, <2>6, <2>7 DEF Next
<1> QED BY <1>b, <1>c

\* Placement never leaves its types, whatever the list and however often it is
\* placed: next stays in the list or just behind it.
THEOREM TypeCorrect == Spec => []TypeOK
<1>1. Init => TypeOK
  BY TypeInit
<1>2. TypeOK /\ [Next]_vars => TypeOK'
  BY TypeStep
<1> QED BY <1>1, <1>2, PTL DEF Spec
-----------------------------------------------------------------------------
(* The steps keep each part of IndInv. *)

\* What a put of PutNext can be, and when: nothing is put through a client that
\* is not Ok, and nothing reaches the channel while the library is down.
LEMMA PutFacts ==
    ASSUME TypeOK, PutNext
    PROVE  /\ pc = "placing" /\ next \in Positions /\ next \in Nat
           /\ UNCHANGED <<lib, obj, mode, list, caller, timer, cycle, bad, polled>>
           /\ \/ /\ pc' = "placing" /\ next' = next + 1
                 /\ obj["arg"] = "Ok" /\ lib = "up" /\ next \notin bad
                 /\ \/ chan' = [chan EXCEPT ![next] = cycle] /\ dropped' = dropped
                    \/ chan' = chan /\ dropped' = dropped \cup {next}
              \/ /\ pc' = "returning" /\ next' = next /\ chan' = chan
                 /\ dropped \subseteq dropped'
                 /\ lib = "up" \/ obj["arg"] # "Ok" \/ next \in bad
              \/ /\ pc' = "crashed" /\ next' = next /\ chan' = chan
                 /\ dropped' = dropped
                 /\ obj["arg"] = "Ok" /\ lib = "down"
<1>1. PICK r \in PutOutcomes("arg", next \notin bad) :
         /\ AfterPut(r)
         /\ chan' = IF r = "ok" THEN [chan EXCEPT ![next] = cycle] ELSE chan
         /\ dropped' = IF r = "warning" THEN dropped \cup {next} ELSE dropped
  BY DEF PutNext
<1>2. /\ pc = "placing" /\ next \in Positions /\ next \in Nat
      /\ UNCHANGED <<lib, obj, mode, list, caller, timer, cycle, bad, polled>>
  BY PlacementAssumption
  DEF PutNext, dtsVars, signalVars, TypeOK, Positions, PlacementAssumption
<1>3. \/ r = "error" /\ (obj["arg"] # "Ok" \/ next \in bad)
      \/ r = "crash" /\ obj["arg"] = "Ok" /\ lib = "down"
      \/ /\ r \in {"ok", "warning", "refused"}
         /\ obj["arg"] = "Ok" /\ lib = "up" /\ next \notin bad
  BY <1>1 DEF PutOutcomes, TypeOK, DtsTypeOK
<1> QED
  BY <1>1, <1>2, <1>3 DEF AfterPut

\* The thread moves through its places only as the mode allows.
LEMMA PhaseStep == IndInv /\ [Next]_vars => PhaseInv'
<1> SUFFICES ASSUME IndInv, [Next]_vars PROVE PhaseInv'
  OBVIOUS
<1> USE DEF PhaseInv
<1>a. TypeOK /\ PhaseInv /\ FirstInv /\ cycle \in Nat
  BY PlacementAssumption DEF IndInv, TypeOK, PlacementAssumption
<1>1. CASE ConstructMember \/ ReadFails
  BY <1>a, <1>1 DEF ConstructMember, ReadFails, callVars
<1>2. CASE ConstructLocal
  BY <1>a, <1>2 DEF ConstructLocal, callVars
<1>3. CASE CallFromInit \/ EmitTime
  BY <1>a, <1>3 DEF CallFromInit, EmitTime, Call
<1>4. CASE PutNext
  <2>1. pc' = "crashed" => cycle > 1
    BY <1>a, <1>4, PutFacts DEF FirstInv
  <2> QED BY <1>a, <1>4, <2>1, PutFacts
<1>5. CASE Finish \/ Return \/ LeaveInit
  BY <1>a, <1>5 DEF Finish, Return, LeaveInit, callVars
<1>6. CASE FirstReply \/ Destruct \/ CheckWorkability
  BY <1>a, <1>6 DEF FirstReply, Destruct, CheckWorkability, callVars
<1>7. CASE UNCHANGED vars
  BY <1>a, <1>7 DEF vars
<1> QED
  BY <1>1, <1>2, <1>3, <1>4, <1>5, <1>6, <1>7 DEF Next

\* What the constructors, the destructors and the check thread do to the clients.
LEMMA ClientFacts ==
    ASSUME TypeOK
    PROVE  /\ obj \in [Objects -> States] /\ lib \in {"up", "down"}
           /\ Objects = {"member", "local", "arg"}
           /\ \A o \in Objects : Construct(o) =>
                 /\ \A p \in Objects \ {o} : obj'[p] = obj[p]
                 /\ \/ lib = "up" /\ lib' = "up" /\ obj'[o] = "NotInit"
                    \/ lib = "down" /\ lib' = "up" /\ obj'[o] = "Ok"
                    \/ lib = "down" /\ lib' = "down" /\ obj'[o] = "BadInit"
           /\ \A o \in Objects : Destroy(o) =>
                 /\ \A p \in Objects \ {o} : obj'[p] = obj[p]
                 /\ obj'[o] = "none"
                 /\ IF obj[o] = "NotInit" THEN lib' = lib ELSE lib' = "down"
           /\ Block =>
                 /\ lib = "up" /\ lib' = lib /\ obj'["arg"] = obj["arg"]
                 /\ \A p \in Originals :
                       \/ obj'[p] = obj[p]
                       \/ obj[p] = "Ok" /\ obj'[p] = "BlockBySystem"
  BY DEF TypeOK, DtsTypeOK, Objects, Originals, States, Construct, Destroy, Block

\* The member was constructed with the library down and stays what it became,
\* but for being blocked.
LEMMA MemberStep == IndInv /\ [Next]_vars => MemberInv'
<1> SUFFICES ASSUME IndInv, [Next]_vars PROVE MemberInv'
  OBVIOUS
<1> USE DEF MemberInv, Originals
<1>a. TypeOK /\ MemberInv
  BY DEF IndInv
<1>1. CASE ConstructMember
  BY <1>a, <1>1, ClientFacts DEF ConstructMember
<1>2. CASE ConstructLocal
  BY <1>a, <1>2, ClientFacts DEF ConstructLocal
<1>3. CASE CallFromInit \/ EmitTime
  BY <1>a, <1>3, ClientFacts DEF CallFromInit, EmitTime, Call, Copy
<1>4. CASE PutNext
  BY <1>a, <1>4, PutFacts
<1>5. CASE Return \/ LeaveInit \/ Destruct
  BY <1>a, <1>5, ClientFacts DEF Return, LeaveInit, Destruct
<1>6. CASE CheckWorkability
  BY <1>a, <1>6, ClientFacts DEF CheckWorkability
<1>7. CASE ReadFails \/ Finish \/ FirstReply \/ UNCHANGED vars
  BY <1>a, <1>7 DEF ReadFails, Finish, FirstReply, dtsVars, vars
<1> QED
  BY <1>1, <1>2, <1>3, <1>4, <1>5, <1>6, <1>7 DEF Next

\* The owner changes only while the library is down.
LEMMA OwnerStep == IndInv /\ [Next]_vars => OwnerInv'
<1> SUFFICES ASSUME IndInv, [Next]_vars PROVE OwnerInv'
  OBVIOUS
<1> USE DEF OwnerInv, IsOwner, Originals
<1>a. TypeOK /\ MemberInv /\ OwnerInv
  BY DEF IndInv
<1>1. CASE ConstructMember
  <2>1. obj'["local"] = "none" /\ obj'["member"] # "NotInit"
    BY <1>a, <1>1, ClientFacts DEF ConstructMember, MemberInv
  <2>2. lib' = "up" => obj'["member"] = "Ok"
    BY <1>a, <1>1, ClientFacts DEF ConstructMember, MemberInv
  <2> QED BY <2>1, <2>2
<1>2. CASE ConstructLocal
  <2>1. CASE lib = "up"
    <3>1. lib' = "up" /\ obj'["local"] = "NotInit" /\ obj'["member"] = obj["member"]
      BY <1>a, <1>2, <2>1, ClientFacts DEF ConstructLocal
    <3>2. obj["local"] = "none"
      BY <1>a, <1>2 DEF ConstructLocal, MemberInv
    <3> QED BY <1>a, <2>1, <3>1, <3>2
  <2>2. CASE lib = "down"
    <3>1. obj'["member"] = "BadInit" /\ (lib' = "up" => obj'["local"] = "Ok")
      BY <1>a, <1>2, <2>2, ClientFacts DEF ConstructLocal, MemberInv
    <3> QED BY <3>1
  <2> QED BY <1>a, <2>1, <2>2 DEF TypeOK, DtsTypeOK
<1>3. CASE CallFromInit \/ EmitTime
  BY <1>a, <1>3, ClientFacts DEF CallFromInit, EmitTime, Call, Copy
<1>4. CASE PutNext
  BY <1>a, <1>4, PutFacts
<1>5. CASE Return \/ LeaveInit \/ Destruct
  BY <1>a, <1>5, ClientFacts DEF Return, LeaveInit, Destruct
<1>6. CASE CheckWorkability
  BY <1>a, <1>6, ClientFacts DEF CheckWorkability
<1>7. CASE ReadFails \/ Finish \/ FirstReply \/ UNCHANGED vars
  BY <1>a, <1>7 DEF ReadFails, Finish, FirstReply, dtsVars, vars
<1> QED
  BY <1>1, <1>2, <1>3, <1>4, <1>5, <1>6, <1>7 DEF Next

\* Before the first placement returns, only LeaveInit could take the library
\* from a client that is Ok, and its local client does not have it then.
LEMMA FirstStep == IndInv /\ [Next]_vars => FirstInv'
<1> SUFFICES ASSUME IndInv, [Next]_vars PROVE FirstInv'
  OBVIOUS
<1> USE DEF FirstInv, Originals
<1>a. TypeOK /\ PhaseInv /\ MemberInv /\ FirstInv /\ cycle \in Nat
  BY PlacementAssumption DEF IndInv, TypeOK, PlacementAssumption
<1>1. CASE ConstructMember \/ ReadFails
  BY <1>a, <1>1, ClientFacts
  DEF ConstructMember, ReadFails, MemberInv, PhaseInv, callVars, dtsVars
<1>2. CASE ConstructLocal
  BY <1>a, <1>2, ClientFacts DEF ConstructLocal, MemberInv, callVars
<1>3. CASE CallFromInit \/ EmitTime
  BY <1>a, <1>3, ClientFacts DEF CallFromInit, EmitTime, Call, Copy, PhaseInv
<1>4. CASE PutNext
  BY <1>a, <1>4, PutFacts
<1>5. CASE Return
  BY <1>a, <1>5 DEF Return, PhaseInv, callVars
<1>6. CASE LeaveInit
  BY <1>a, <1>6, ClientFacts DEF LeaveInit, PhaseInv, callVars
<1>7. CASE Destruct
  BY <1>7 DEF Destruct
<1>8. CASE CheckWorkability
  BY <1>a, <1>8, ClientFacts DEF CheckWorkability, callVars
<1>9. CASE Finish \/ FirstReply \/ UNCHANGED vars
  BY <1>a, <1>9 DEF Finish, FirstReply, dtsVars, callVars, vars
<1> QED
  BY <1>1, <1>2, <1>3, <1>4, <1>5, <1>6, <1>7, <1>8, <1>9 DEF Next

\* A polling gateway's placement ends with a copy that takes the library down,
\* and nothing sets it up again.
LEMMA DownStep == IndInv /\ [Next]_vars => DownInv'
<1> SUFFICES ASSUME IndInv, [Next]_vars PROVE DownInv'
  OBVIOUS
<1> USE DEF DownInv, Originals
<1>a. TypeOK /\ PhaseInv /\ MemberInv /\ DownInv /\ ArgInv /\ cycle \in Nat
  BY PlacementAssumption DEF IndInv, TypeOK, PlacementAssumption
<1>1. CASE ConstructMember \/ ConstructLocal
  BY <1>a, <1>1 DEF ConstructMember, ConstructLocal, PhaseInv, callVars
<1>2. CASE CallFromInit
  BY <1>a, <1>2 DEF CallFromInit, Call, PhaseInv
<1>3. CASE EmitTime
  BY <1>a, <1>3 DEF EmitTime, Call, Copy
<1>4. CASE PutNext
  <2>1. mode' = mode /\ cycle' = cycle /\ lib' = lib /\ pc = "placing"
    BY <1>a, <1>4, PutFacts
  <2>2. pc' = "crashed" => lib = "down"
    BY <1>a, <1>4, PutFacts
  <2>3. pc' \in {"placing", "returning", "crashed"}
    BY <1>a, <1>4, PutFacts
  <2> QED BY <1>a, <2>1, <2>2, <2>3
<1>5. CASE Return
  BY <1>a, <1>5, ClientFacts DEF Return, ArgInv, callVars
<1>6. CASE LeaveInit \/ Destruct
  BY <1>a, <1>6, ClientFacts DEF LeaveInit, Destruct, callVars
<1>7. CASE CheckWorkability
  BY <1>a, <1>7, ClientFacts DEF CheckWorkability, callVars
<1>8. CASE ReadFails \/ Finish \/ FirstReply \/ UNCHANGED vars
  BY <1>a, <1>8 DEF ReadFails, Finish, FirstReply, dtsVars, callVars, vars
<1> QED
  BY <1>1, <1>2, <1>3, <1>4, <1>5, <1>6, <1>7, <1>8 DEF Next

\* The member is what its copy was, or was blocked since.
LEMMA ArgStep == IndInv /\ [Next]_vars => ArgInv'
<1> SUFFICES ASSUME IndInv, [Next]_vars PROVE ArgInv'
  OBVIOUS
<1> USE DEF ArgInv, Originals
<1>a. TypeOK /\ PhaseInv /\ MemberInv /\ ArgInv
  BY DEF IndInv
<1>1. CASE CallFromInit
  BY <1>a, <1>1 DEF CallFromInit, Call, PhaseInv
<1>2. CASE EmitTime
  BY <1>a, <1>2, ClientFacts DEF EmitTime, Call, Copy, MemberInv
<1>3. CASE PutNext
  <2>1. mode' = mode /\ obj' = obj /\ pc = "placing"
    BY <1>a, <1>3, PutFacts
  <2> QED BY <1>a, <2>1
<1>4. CASE Finish
  BY <1>a, <1>4 DEF Finish, dtsVars
<1>5. CASE CheckWorkability
  BY <1>a, <1>5, ClientFacts DEF CheckWorkability
<1>6. CASE ConstructMember \/ ReadFails \/ ConstructLocal \/ Return \/ LeaveInit
             \/ FirstReply \/ Destruct
  BY <1>6 DEF ConstructMember, ReadFails, ConstructLocal, Return, LeaveInit,
     FirstReply, Destruct
<1>7. CASE UNCHANGED vars
  BY <1>a, <1>7 DEF vars
<1> QED
  BY <1>1, <1>2, <1>3, <1>4, <1>5, <1>6, <1>7 DEF Next

\* A value reaches the channel only with the library up, that is in the first
\* placement, and right behind those that were put before it.
LEMMA PrefixStep == IndInv /\ [Next]_vars => PrefixInv'
<1> SUFFICES ASSUME IndInv, [Next]_vars PROVE PrefixInv'
  OBVIOUS
<1> USE DEF PrefixInv
<1>a. TypeOK /\ PhaseInv /\ DownInv /\ PrefixInv /\ cycle \in Nat
  BY PlacementAssumption DEF IndInv, TypeOK, PlacementAssumption
<1>b. /\ Positions' = Positions /\ \A i \in Positions : i \in Nat \ {0}
      /\ \A i \in Positions : chan[i] \in Nat
  <2>1. Positions' = Positions
    BY <1>a, ClientStep DEF Positions, vars
  <2>2. Len(list) \in Nat /\ MaxCycle \in Nat
    BY <1>a, PlacementAssumption DEF TypeOK, PlacementAssumption
  <2> QED BY <1>a, <2>1, <2>2 DEF Positions, TypeOK
<1>1. CASE CallFromInit \/ EmitTime
  <2>1. cycle' = cycle + 1 /\ next' = 1 /\ chan' = chan
    BY <1>1 DEF CallFromInit, EmitTime, Call
  <2> HIDE DEF Positions
  <2> QED BY <1>a, <1>b, <2>1
<1>2. CASE PutNext
  <2>1. /\ next \in Positions /\ next \in Nat /\ cycle' = cycle /\ pc = "placing"
        /\ chan \in [Positions -> 0 .. MaxCycle] /\ mode = mode'
    BY <1>a, <1>2, PutFacts DEF TypeOK
  <2>2. CASE /\ next' = next + 1 /\ lib = "up"
             /\ \/ chan' = [chan EXCEPT ![next] = cycle] /\ dropped' = dropped
                \/ chan' = chan /\ dropped' = dropped \cup {next}
    <3>1. cycle = 1
      BY <1>a, <2>1, <2>2 DEF PhaseInv, DownInv
    <3>2. ASSUME NEW i \in Positions
          PROVE  /\ chan'[i] <= cycle' /\ chan'[i] <= 1
                 /\ i < next' => chan'[i] = cycle' \/ i \in dropped'
                 /\ chan'[i] = cycle' => i < next'
      <4>1. CASE i = next
        BY <1>a, <1>b, <2>1, <2>2, <3>1, <4>1
      <4>2. CASE i # next
        <5>1. chan'[i] = chan[i] /\ (i \in dropped => i \in dropped')
          BY <2>1, <2>2, <4>2
        <5>2. i < next' => i < next
          BY <1>b, <2>1, <2>2, <4>2
        <5>3. i < next => i < next'
          BY <1>b, <2>1, <2>2
        <5> QED BY <1>a, <2>1, <3>1, <5>1, <5>2, <5>3
      <4> QED BY <4>1, <4>2
    <3> QED BY <1>b, <3>2
  <2>3. CASE next' = next /\ chan' = chan /\ dropped \subseteq dropped'
    BY <1>a, <1>b, <2>1, <2>3
  <2> QED BY <1>a, <1>2, <2>2, <2>3, PutFacts
<1>3. CASE ConstructMember \/ ReadFails \/ ConstructLocal \/ Finish \/ Return
             \/ LeaveInit \/ FirstReply \/ Destruct \/ CheckWorkability
             \/ UNCHANGED vars
  <2>1. UNCHANGED <<cycle, next, chan, dropped>>
    BY <1>3 DEF ConstructMember, ReadFails, ConstructLocal, Finish, Return,
       LeaveInit, FirstReply, Destruct, CheckWorkability, vars, callVars
  <2> QED BY <1>a, <1>b, <2>1
<1> QED
  BY <1>1, <1>2, <1>3 DEF Next

\* Replies come while the event loop is idle, the first one after the first
\* placement.
LEMMA PolledStep == IndInv /\ [Next]_vars => PolledInv'
<1> SUFFICES ASSUME IndInv, [Next]_vars PROVE PolledInv'
  OBVIOUS
<1> USE DEF PolledInv
<1>a. PhaseInv /\ PolledInv /\ cycle \in Nat
  BY PlacementAssumption DEF IndInv, TypeOK, PlacementAssumption
<1>1. CASE CallFromInit
  BY <1>a, <1>1 DEF CallFromInit, Call, signalVars, PhaseInv
<1>2. CASE EmitTime
  BY <1>a, <1>2 DEF EmitTime, Call, signalVars
<1>3. CASE PutNext
  <2>1. UNCHANGED <<polled, bad, cycle>> /\ pc = "placing"
    BY <1>3 DEF PutNext, signalVars
  <2> QED BY <1>a, <2>1
<1>4. CASE FirstReply
  BY <1>a, <1>4 DEF FirstReply, callVars
<1>5. CASE ConstructMember \/ ReadFails \/ ConstructLocal \/ Finish \/ Return
             \/ LeaveInit \/ Destruct \/ CheckWorkability \/ UNCHANGED vars
  <2>1. UNCHANGED <<polled, bad, cycle>> /\ (pc' = "placing" => pc = "placing")
    BY <1>5 DEF ConstructMember, ReadFails, ConstructLocal, Finish, Return,
       LeaveInit, Destruct, CheckWorkability, vars, callVars, signalVars
  <2> QED BY <1>a, <2>1
<1> QED
  BY <1>1, <1>2, <1>3, <1>4, <1>5 DEF Next

\* With the library down a placement ends at its first signal: by an error, by
\* the crash, or because there is none.
LEMMA LateStep == IndInv /\ [Next]_vars => LateInv'
<1> SUFFICES ASSUME IndInv, [Next]_vars PROVE LateInv'
  OBVIOUS
<1> USE DEF LateInv, Originals
<1>a. /\ TypeOK /\ PhaseInv /\ DownInv /\ ArgInv /\ PolledInv /\ LateInv
      /\ cycle \in Nat
  BY PlacementAssumption DEF IndInv, TypeOK, PlacementAssumption
<1>1. CASE ConstructMember \/ ReadFails \/ ConstructLocal
  BY <1>a, <1>1 DEF ConstructMember, ReadFails, ConstructLocal, PhaseInv, callVars
<1>2. CASE CallFromInit \/ EmitTime
  BY <1>2 DEF CallFromInit, EmitTime, Call
<1>3. CASE PutNext
  <2>1. /\ pc = "placing" /\ UNCHANGED <<lib, obj, mode, list, cycle, bad>>
        /\ lib = "up" => cycle <= 1
    BY <1>a, <1>3, PutFacts DEF DownInv, PhaseInv, TypeOK, DtsTypeOK
  <2>2. \/ lib = "up"
        \/ /\ pc' = "returning" /\ next' = next
           /\ obj["arg"] # "Ok" \/ next \in bad
        \/ pc' = "crashed"
    BY <1>a, <1>3, PutFacts
  <2> QED BY <1>a, <2>1, <2>2
<1>4. CASE Finish
  <2>1. pc = "placing" /\ next > Len(list) /\ pc' = "returning" /\ list' = list /\ cycle' = cycle
    BY <1>4 DEF Finish, callVars
  <2>2. cycle > 1 => Len(list) = 0
    BY <1>a, <2>1, PlacementAssumption DEF TypeOK, PlacementAssumption
  <2>3. Len(list) = 0 => list = <<>>
    BY <1>a, PlacementAssumption, EmptySeq DEF TypeOK, PlacementAssumption
  <2> QED BY <2>1, <2>2, <2>3
<1>5. CASE Return
  <2>1. cycle > 1 => mode # "SIMUL"
    BY <1>a DEF PhaseInv
  <2>2. /\ pc = "returning" /\ pc' \in {"leaveInit", "idle"}
        /\ obj'["member"] = obj["member"]
        /\ UNCHANGED <<list, cycle, bad>>
    BY <1>a, <1>5, ClientFacts DEF Return, callVars, signalVars
  <2> QED BY <1>a, <2>1, <2>2 DEF ArgInv
<1>6. CASE LeaveInit
  BY <1>a, <1>6 DEF LeaveInit, PhaseInv, callVars
<1>7. CASE FirstReply
  BY <1>a, <1>7 DEF FirstReply, PolledInv, callVars, dtsVars
<1>8. CASE Destruct
  BY <1>8 DEF Destruct
<1>9. CASE CheckWorkability
  <2>1. /\ obj["member"] # "Ok" => obj'["member"] # "Ok"
        /\ obj'["arg"] = obj["arg"]
        /\ UNCHANGED <<pc, list, cycle, next, bad>>
    BY <1>a, <1>9, ClientFacts DEF CheckWorkability, callVars, signalVars
  <2> QED BY <1>a, <2>1
<1>10. CASE UNCHANGED vars
  BY <1>a, <1>10 DEF vars
<1> QED
  BY <1>1, <1>2, <1>3, <1>4, <1>5, <1>6, <1>7, <1>8, <1>9, <1>10 DEF Next

\* The local client of Init gets the library only when the member did not.
LEMMA SimulStep == IndInv /\ [Next]_vars => SimulInv'
<1> SUFFICES ASSUME IndInv, [Next]_vars PROVE SimulInv'
  OBVIOUS
<1> USE DEF SimulInv, Originals
<1>a. /\ TypeOK /\ PhaseInv /\ MemberInv /\ PrefixInv /\ SimulInv
      /\ cycle \in Nat
  BY PlacementAssumption DEF IndInv, TypeOK, PlacementAssumption
<1>b. Positions' = Positions /\ mode' = mode
  BY <1>a, ClientStep DEF Positions, vars
<1>c. cycle = 0 => \A i \in Positions : chan[i] = 0
  BY <1>a, PlacementAssumption DEF PrefixInv, TypeOK, PlacementAssumption
<1>1. CASE ConstructMember
  BY <1>a, <1>b, <1>c, <1>1 DEF ConstructMember, PhaseInv
<1>2. CASE ConstructLocal
  <2>1. /\ obj'["local"] = "Ok" => obj["member"] = "BadInit"
        /\ obj'["member"] = obj["member"]
        /\ chan' = chan /\ cycle = 0 /\ pc' # "placing"
    BY <1>a, <1>2, ClientFacts DEF ConstructLocal, MemberInv, PhaseInv
  <2> QED BY <1>b, <1>c, <2>1
<1>3. CASE CallFromInit \/ EmitTime
  BY <1>a, <1>b, <1>3, ClientFacts DEF CallFromInit, EmitTime, Call, Copy, PhaseInv
<1>4. CASE PutNext
  <2>1. /\ pc = "placing" /\ pc' \in {"placing", "returning", "crashed"} /\ obj' = obj
        /\ next \in Positions /\ chan \in [Positions -> 0 .. MaxCycle]
        /\ chan' # chan => obj["arg"] = "Ok"
    BY <1>a, <1>4, PutFacts DEF TypeOK
  <2> QED BY <1>a, <1>b, <2>1
<1>5. CASE Return \/ LeaveInit \/ Finish
  BY <1>a, <1>b, <1>5, ClientFacts DEF Return, LeaveInit, Finish, dtsVars
<1>6. CASE Destruct
  BY <1>6 DEF Destruct
<1>7. CASE CheckWorkability
  BY <1>a, <1>b, <1>7, ClientFacts DEF CheckWorkability
<1>8. CASE ReadFails \/ FirstReply \/ UNCHANGED vars
  BY <1>a, <1>b, <1>8 DEF ReadFails, FirstReply, dtsVars, vars
<1> QED
  BY <1>1, <1>2, <1>3, <1>4, <1>5, <1>6, <1>7, <1>8 DEF Next

-----------------------------------------------------------------------------
(* The inductive invariant and what follows from it. *)

\* Every part of the inductive invariant holds before the constructor.
LEMMA IndInit == Init => IndInv
<1> SUFFICES ASSUME Init PROVE IndInv
  OBVIOUS
<1>1. TypeOK
  BY TypeInit
<1>2. /\ pc = "construct" /\ cycle = 0 /\ next = 1 /\ bad = {}
      /\ lib = "down" /\ obj["local"] = "none"
      /\ \A i \in Positions : chan[i] = 0
  BY DEF Init, DtsInit, Objects, Originals
<1>3. ~polled /\ ~timer
  BY Zenon DEF Init
<1> QED
  BY <1>1, <1>2, <1>3 DEF IndInv, PhaseInv, MemberInv, OwnerInv, FirstInv,
     DownInv, ArgInv, PrefixInv, PolledInv, LateInv, SimulInv

\* Every reachable state satisfies the inductive invariant.
THEOREM Invariance == Spec => []IndInv
<1>1. Init => IndInv
  BY IndInit
<1>2. IndInv /\ [Next]_vars => IndInv'
  BY TypeStep, PhaseStep, MemberStep, OwnerStep, FirstStep, DownStep, ArgStep,
     PrefixStep, PolledStep, LateStep, SimulStep DEF IndInv
<1> QED BY <1>1, <1>2, PTL DEF Spec

\* The library never has two owners, and never none while it is up.
THEOREM OneOwner == Spec => []SingleOwner
<1>1. IndInv => SingleOwner
  <2> SUFFICES ASSUME IndInv, lib = "up"
               PROVE  Cardinality({o \in Originals : obj[o] \in {"Ok", "BlockBySystem"}}) = 1
    BY DEF SingleOwner
  <2>1. PICK o \in Originals : \A p \in Originals : IsOwner(p) <=> p = o
    BY DEF IndInv, OwnerInv
  <2>2. {p \in Originals : obj[p] \in {"Ok", "BlockBySystem"}} = {o}
    BY <2>1 DEF IsOwner
  <2> QED BY <2>2, FS_Singleton
<1> QED BY <1>1, Invariance, PTL

\* The channel takes values of the first placement only, and that one is over
\* before the first reply.
THEOREM OnlyTheFirstReaches == Spec => []OnlyFirstPlacementReaches
<1>1. IndInv => OnlyFirstPlacementReaches
  BY PlacementAssumption
  DEF IndInv, PrefixInv, PolledInv, TypeOK, OnlyFirstPlacementReaches,
      PlacementAssumption
<1> QED BY <1>1, Invariance, PTL

\* The first placement never meets a library that is down.
THEOREM TheFirstIsSafe == Spec => []FirstPlacementIsSafe
<1>1. IndInv => FirstPlacementIsSafe
  BY PlacementAssumption
  DEF IndInv, PhaseInv, TypeOK, FirstPlacementIsSafe, PlacementAssumption
<1> QED BY <1>1, Invariance, PTL

\* What the channel has of a placement is a prefix of any list of signals, but
\* for what it had no room for.
THEOREM PlacementsAreInOrder == Spec => []PlacedInOrder
<1>1. IndInv => PlacedInOrder
  <2> SUFFICES ASSUME IndInv, NEW i \in Positions, NEW j \in Positions,
                      i < j, cycle > 0, chan[j] = cycle
               PROVE  chan[i] = cycle \/ i \in dropped
    BY DEF PlacedInOrder
  <2>1. j < next
    BY DEF IndInv, PrefixInv
  <2>2. i \in Int /\ j \in Int /\ next \in Int
    BY PlacementAssumption DEF IndInv, TypeOK, Positions, PlacementAssumption
  <2>3. i < next
    BY <2>1, <2>2
  <2> QED BY <2>3 DEF IndInv, PrefixInv
<1> QED BY <1>1, Invariance, PTL

\* A placement after the first returns only if it had nothing it could put.
THEOREM LaterReturnsHadNothing == Spec => []LaterReturnsAreIdle
<1>1. IndInv => LaterReturnsAreIdle
  BY PlacementAssumption
  DEF IndInv, LateInv, TypeOK, LaterReturnsAreIdle, PlacementAssumption
<1> QED BY <1>1, Invariance, PTL

\* A simulation reaches the channel only over the member's failure to connect.
THEOREM SimulationNeedsFailure == Spec => []SimulNeedsFailure
<1>1. IndInv => SimulNeedsFailure
  BY DEF IndInv, SimulInv, SimulNeedsFailure
<1> QED BY <1>1, Invariance, PTL
=============================================================================
