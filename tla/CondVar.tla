------------------------------ MODULE CondVar ------------------------------
(***************************************************************************)
(* std::condition_variable, as far as the components of this repository    *)
(* use it (external: the class comes from the C++ library).                *)
(*                                                                         *)
(* A component keeps one program counter per thread.  A thread blocked in  *)
(* a wait is at a control point named for that wait; a wake-up moves it to *)
(* a second control point, where it must take the mutex again and          *)
(* re-evaluate its predicate.  `pc` is that function, `asleep` and `awake` *)
(* the two control points.                                                 *)
(***************************************************************************)

(* The threads of pc that are at control point `point`. *)
At(pc, point) == { t \in DOMAIN pc : pc[t] = point }

(* Thread t goes to control point `point`. *)
Move(pc, t, point) == [pc EXCEPT ![t] = point]

(* notify_one: some sleeper of the library's choice is woken; with no      *)
(* sleeper the notification is lost.                                       *)
NotifyOne(pc, asleep, awake) ==
    IF At(pc, asleep) = {}
      THEN { pc }
      ELSE { Move(pc, t, awake) : t \in At(pc, asleep) }

(* notify_all: every sleeper is woken. *)
NotifyAll(pc, asleep, awake) ==
    [t \in DOMAIN pc |-> IF pc[t] = asleep THEN awake ELSE pc[t]]
=============================================================================
