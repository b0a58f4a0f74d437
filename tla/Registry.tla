-------------------------------- MODULE Registry --------------------------------
(***************************************************************************)
(* The registry keys that hooklib/reg.c makes up.                          *)
(*                                                                         *)
(* A module of the hook pushes a key with its values.  A game that opens   *)
(* the key gets a handle of some real key, which is remembered in the      *)
(* array handles of the key; every other function looks the handle up      *)
(* there, under a lock, and passes it on to Windows when it is not found.  *)
(* Windows gives a handle again once it is closed.                         *)
(***************************************************************************)
EXTENDS Integers, Sequences, FiniteSets, SequencesExt

CONSTANTS
  RegKeys,          (* the keys that are pushed                            *)
  RegNames,         (* names of values; those of RegVals[k] are k's        *)
  RegVals,          (* the names of each key, in their order               *)
  RegHandles,       (* handles that Windows has                            *)
  RegThreads,       (* threads of the game                                 *)
  RegMaxHandles     (* MAX_CONCURRENT_REG_HANDLES (4)                      *)

RegReal == "real"
RegNothing == "nothing"

ASSUME RegAssumption ==
  /\ RegMaxHandles \in Nat \ {0} /\ RegNothing \notin RegHandles
  /\ RegReal \notin RegKeys /\ RegNothing \notin RegKeys

(* pushed: the keys, in their order; handles[k]: the array of a key;       *)
(* open[h]: what Windows has open under the handle, for the game's eyes: a *)
(* key, RegReal or nothing; pc[t], h[t]: a thread that is about to close h;*)
(* got[t]: what the last query of the thread was answered for, and from    *)
(* whom; lost: handles nobody will close                                   *)
VARIABLE reg

RegInit ==
  reg = [pushed |-> <<>>, handles |-> [k \in RegKeys |-> <<>>],
         open |-> [h \in RegHandles |-> RegNothing],
         pc |-> [t \in RegThreads |-> "idle"], h |-> [t \in RegThreads |-> RegNothing],
         got |-> [t \in RegThreads |-> <<RegNothing, RegNothing>>], lost |-> {}]

-----------------------------------------------------------------------------
(* Helpers.                                                                *)

(* reg_hook_push_key: a key more, without handles.                         *)
reg_hook_push_key(k) ==
  /\ \A i \in 1..Len(reg.pushed) : reg.pushed[i] # k
  /\ reg' = [reg EXCEPT !.pushed = Append(@, k)]

(* reg_hook_match_key_locked: the first key that has the handle.           *)
reg_hook_match_key_locked(h) ==
  LET has == {i \in 1..Len(reg.pushed) : h \in ToSet(reg.handles[reg.pushed[i]])}
  IN  IF has = {} THEN RegReal ELSE reg.pushed[CHOOSE i \in has : \A j \in has : i <= j]

reg_hook_match_val_locked(k, name) == name \in ToSet(RegVals[k])

RegFree == {h \in RegHandles : reg.open[h] = RegNothing}
RegHeld(h) == reg.open[h] # RegNothing /\ h \notin reg.lost
               /\ \A t \in RegThreads : reg.h[t] # h

(* The threads that may act: those that are not closing a handle.          *)
RegIdle(t) == reg.pc[t] = "idle"

-----------------------------------------------------------------------------
(* Opening and closing.                                                    *)

(* hook_RegOpenKeyExW and hook_RegCreateKeyExW: reg_hook_open_locked gives *)
(* a handle of a real key, which it remembers; there may be one handle     *)
(* more than there is room for.  A key that is not pushed is real.         *)
RegOpenKey(t, k) ==
  /\ RegIdle(t) /\ k \in ToSet(reg.pushed)
  /\ Len(reg.handles[k]) <= RegMaxHandles
  /\ \E h \in RegFree :
       reg' = [reg EXCEPT !.handles[k] = Append(@, h), !.open[h] = k]

RegOpenReal(t) ==
  /\ RegIdle(t)
  /\ \E h \in RegFree : reg' = [reg EXCEPT !.open[h] = RegReal]

(* hook_RegCloseKey: the handle is taken out of the arrays, under the lock,*)
(* and then closed.  The handles behind it move up.                        *)
RegForget(h) == [k \in RegKeys |-> RemoveFirst(reg.handles[k], h)]

(* Broken: the handle is closed before it is taken out.                    *)
RegCloseFirst(t, h) ==
  /\ RegIdle(t) /\ RegHeld(h)
  /\ reg' = [reg EXCEPT !.open[h] = RegNothing, !.pc[t] = "close", !.h[t] = h]

(* Broken: the handle stays in the arrays.                                 *)
RegCloseKeepsHandle(t, h) ==
  /\ RegIdle(t) /\ RegHeld(h)
  /\ reg' = [reg EXCEPT !.pc[t] = "close", !.h[t] = h]

(* Broken: what is behind the handle in the array is lost.                 *)
RegCloseCuts(t, h) ==
  /\ RegIdle(t) /\ RegHeld(h)
  /\ reg' = [reg EXCEPT !.pc[t] = "close", !.h[t] = h,
       !.handles = [k \in RegKeys |->
         LET at == {i \in 1..Len(@[k]) : @[k][i] = h}
         IN  IF at = {} THEN @[k] ELSE SubSeq(@[k], 1, (CHOOSE i \in at : TRUE) - 1)]]

hook_RegCloseKey(t, h) ==
  /\ RegIdle(t) /\ RegHeld(h)
  /\ reg' = [reg EXCEPT !.handles = RegForget(h), !.pc[t] = "close", !.h[t] = h]

RegClosed(t) ==
  /\ reg.pc[t] = "close"
  /\ reg' = [reg EXCEPT !.open[reg.h[t]] = RegNothing, !.pc[t] = "idle",
                        !.h[t] = RegNothing]

-----------------------------------------------------------------------------
(* Values.  got: the key the game means, and the key that answers.         *)

RegAnswer(t, h) == [reg EXCEPT !.got[t] = <<reg.open[h], reg_hook_match_key_locked(h)>>]

(* hook_RegQueryValueExW, hook_RegSetValueExW, hook_RegQueryInfoKeyW and   *)
(* hook_RegEnumValueW differ in what they do with the key that they find.  *)
RegUse(t, h) ==
  /\ RegIdle(t) /\ RegHeld(h)
  /\ reg' = RegAnswer(t, h)

(* Broken: nor when it is there.                                           *)
RegGetValueLeaks(t, k, name) ==
  /\ RegIdle(t) /\ k \in ToSet(reg.pushed)
  /\ Len(reg.handles[k]) < RegMaxHandles
  /\ \E h \in RegFree :
       reg' = [reg EXCEPT !.handles[k] = Append(@, h), !.open[h] = k,
                          !.got[t] = <<k, k>>, !.lost = @ \cup {h}]

(* hook_RegGetValueW with a subkey opens it, and closes it again when it   *)
(* has read the value, but not when the value is not there.  There is no   *)
(* handle when the key has too many, and Windows is asked.                 *)
hook_RegGetValueW(t, k, name) ==
  /\ RegIdle(t) /\ k \in ToSet(reg.pushed)
  /\ IF Len(reg.handles[k]) > RegMaxHandles
     THEN reg' = [reg EXCEPT !.got[t] = <<k, RegReal>>]
     ELSE \E h \in RegFree :
            reg' = IF reg_hook_match_val_locked(k, name)
                   THEN [reg EXCEPT !.got[t] = <<k, k>>]
                   ELSE [reg EXCEPT !.handles[k] = Append(@, h), !.open[h] = k,
                                    !.lost = @ \cup {h}]

(* A subkey that is not pushed is opened for nothing, and stays open.      *)
RegGetReal(t) ==
  /\ RegIdle(t)
  /\ \E h \in RegFree :
       reg' = [reg EXCEPT !.open[h] = RegReal, !.lost = @ \cup {h},
                          !.got[t] = <<RegReal, RegReal>>]

RegNext ==
  \/ \E k \in RegKeys : reg_hook_push_key(k)
  \/ \E t \in RegThreads :
       \/ RegOpenReal(t) \/ RegClosed(t) \/ RegGetReal(t)
       \/ \E k \in RegKeys : RegOpenKey(t, k)
       \/ \E k \in RegKeys, name \in RegNames : hook_RegGetValueW(t, k, name)
       \/ \E h \in RegHandles : hook_RegCloseKey(t, h) \/ RegUse(t, h)

RegSpec == RegInit /\ [][RegNext]_reg

-----------------------------------------------------------------------------
(* Properties.                                                             *)

RegTypeOK ==
  /\ \A k \in RegKeys : ToSet(reg.handles[k]) \subseteq RegHandles
  /\ ToSet(reg.pushed) \subseteq RegKeys /\ reg.lost \subseteq RegHandles
  /\ \A t \in RegThreads : reg.pc[t] = "close" => reg.open[reg.h[t]] # RegNothing

(* A call with a handle is answered for the key it was opened for: by the  *)
(* key that was pushed, and by Windows only for a key of Windows, also     *)
(* when the handle had been one of the other kind before.                  *)
RegAnswersForItsKey ==
  \A t \in RegThreads : reg.got[t][1] = reg.got[t][2]

(* The arrays hold the handles that are open, each one once.               *)
RegHandlesAreOpen ==
  \A k \in RegKeys :
    /\ IsInjective(reg.handles[k])
    /\ \A h \in ToSet(reg.handles[k]) : reg.open[h] = k

(* What a RegGetValueW leaves open it left because the value was not       *)
(* there.                                                                  *)
RegFoundIsClosed ==
  [][\A t \in RegThreads : reg'.lost # reg.lost => reg'.got[t] = reg.got[t]
       \/ reg'.got[t][1] = RegReal]_reg

(* The registry as a whole: a virtual key answers with its own values      *)
(* whatever handles come and go, a handle in the array is open, and a      *)
(* value that was found leaves no handle behind.                           *)
RegIsRight ==
  /\ [](RegTypeOK /\ RegAnswersForItsKey /\ RegHandlesAreOpen)
  /\ RegFoundIsClosed

=============================================================================
