------------------------------ MODULE DtsClient ------------------------------
(***************************************************************************)
(* Life cycle of the DTSClient objects of one process and of the library   *)
(* state they share (libs/libdts: shared memory map, FIFOs, semaphores,    *)
(* receive and check threads).  External: declared in include/dtsclient.h  *)
(* and include/errkey.h, implemented in the library; this is how the code  *)
(* under src/ meets it.                                                    *)
(*                                                                         *)
(* The library is a singleton.  An object constructed while it is up gets  *)
(* state NotInit and does nothing; the destructor of any other object,     *)
(* a compiler-made copy included, takes the library down.  Objects do not  *)
(* learn of that: their own state stays what it was.                       *)
(***************************************************************************)
EXTENDS Naturals, FiniteSets

VARIABLES
    lib,  \* the library's initFlag: "up" (Ok) or "down" (NotInit)
    obj   \* object -> its getState(), or "none" while it does not exist

dtsVars == <<lib, obj>>

\* The member of PLC_connector, the local of Init, the parameter of placeIn_PPD.
Originals == {"member", "local"}
Objects == Originals \cup {"arg"}
States == {"none", "Ok", "BadInit", "NotInit", "BlockBySystem"}

DtsInit == lib = "down" /\ obj = [o \in Objects |-> "none"]

-----------------------------------------------------------------------------
(* Plausible mistakes in the operations below. *)

\* A second object is set up although the library is up already.
MutConstruct(o) ==
    \/ obj' = [obj EXCEPT ![o] = "Ok"] /\ lib' = "up"
    \/ obj' = [obj EXCEPT ![o] = "BadInit"] /\ UNCHANGED lib

\* The destructor does not check whether its object set the library up.
MutDestroy(o) == obj' = [obj EXCEPT ![o] = "none"] /\ lib' = "down"

\* The destructor leaves the library to the object that set it up.
MutDestroyOriginal(o) ==
    /\ obj' = [obj EXCEPT ![o] = "none"]
    /\ lib' = IF o \notin Originals \/ obj[o] = "NotInit" THEN lib ELSE "down"

\* The copy constructor leaves the copy without the library.
MutCopy(from, to) ==
    /\ obj' = [obj EXCEPT ![to] = IF obj[from] = "Ok" THEN "NotInit" ELSE obj[from]]
    /\ UNCHANGED lib

-----------------------------------------------------------------------------
\* DTSClient(): the first object connects to the DTS server, or cannot.
Construct(o) ==
    \/ /\ lib = "up"
       /\ obj' = [obj EXCEPT ![o] = "NotInit"]
       /\ UNCHANGED lib
    \/ /\ lib = "down"
       /\ \/ obj' = [obj EXCEPT ![o] = "Ok"] /\ lib' = "up"
          \/ obj' = [obj EXCEPT ![o] = "BadInit"] /\ UNCHANGED lib

\* The implicit copy constructor copies the state and touches no library state.
Copy(from, to) == obj' = [obj EXCEPT ![to] = obj[from]] /\ UNCHANGED lib

\* ~DTSClient().
Destroy(o) ==
    /\ obj' = [obj EXCEPT ![o] = "none"]
    /\ lib' = IF obj[o] = "NotInit" THEN lib ELSE "down"

\* The check thread blocks the object that set the library up.
Block ==
    /\ lib = "up"
    /\ \E o \in Originals : /\ obj[o] = "Ok"
                            /\ obj' = [obj EXCEPT ![o] = "BlockBySystem"]
    /\ UNCHANGED lib

\* What put can do: an object that is not Ok and a value without a type are
\* errors before the library is touched; then the shared map is used without
\* asking whether it is still there; then the channel takes the value, has no
\* room for it or is stopped (a warning), or refuses it (an error).
PutOutcomes(o, valid) ==
    IF obj[o] # "Ok" \/ ~valid THEN {"error"}
    ELSE IF lib = "down" THEN {"crash"}
    ELSE {"ok", "warning", "refused"}

DtsTypeOK == lib \in {"up", "down"} /\ obj \in [Objects -> States]

\* The library is up for one object that was constructed, never for two: the
\* member and the local of Init do not both believe they own it.
SingleOwner ==
    lib = "up" =>
        Cardinality({o \in Originals : obj[o] \in {"Ok", "BlockBySystem"}}) = 1
=============================================================================
