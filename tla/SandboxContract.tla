-------------------------- MODULE SandboxContract --------------------------
(***************************************************************************)
(* What a sandbox handle promises to its callers, without channels,        *)
(* contexts, requests or program counters: destruction is owned by one call*)
(* at a time, succeeds only if the sandbox is gone, is then shared by every*)
(* later call and never undone; nothing is admitted and no record installed*)
(* while a destruction is owned or after it succeeded.                     *)
(***************************************************************************)
CONSTANTS Destroyers, Connectors, Users, Nobody

Callers == Destroyers \cup Connectors \cup Users

VARIABLES owner,      \* the call destroying the sandbox, or Nobody
          closed,     \* whether a destruction has succeeded
          gone,       \* whether the sandbox has ceased to exist
          installed,  \* the Connect call whose record is in use, or Nobody
          verdict     \* "pending", "admitted", "done", "failed", "refused"

vars == <<owner, closed, gone, installed, verdict>>

Init ==
  /\ owner = Nobody
  /\ closed = FALSE
  /\ gone = FALSE
  /\ installed = Nobody
  /\ verdict = [c \in Callers |-> "pending"]

Open == owner = Nobody /\ ~closed

Decide(c, before, after) ==
  /\ verdict[c] = before
  /\ verdict' = [verdict EXCEPT ![c] = after]

Claim(d) ==
  /\ Open
  /\ verdict[d] = "pending"
  /\ owner' = d
  /\ UNCHANGED <<closed, gone, installed, verdict>>

Succeed(d) ==
  /\ owner = d
  /\ gone
  /\ Decide(d, "pending", "done")
  /\ owner' = Nobody
  /\ closed' = TRUE
  /\ UNCHANGED <<gone, installed>>

Fail(d) ==
  /\ owner = d
  /\ Decide(d, "pending", "failed")
  /\ owner' = Nobody
  /\ UNCHANGED <<closed, gone, installed>>

Share(d) ==
  /\ closed
  /\ Decide(d, "pending", "done")
  /\ UNCHANGED <<owner, closed, gone, installed>>

Withdraw(d) ==
  /\ owner # d
  /\ Decide(d, "pending", "failed")
  /\ UNCHANGED <<owner, closed, gone, installed>>

Admit(c) ==
  /\ Open
  /\ Decide(c, "pending", "admitted")
  /\ UNCHANGED <<owner, closed, gone, installed>>

Refuse(c) ==
  /\ ~Open
  /\ Decide(c, "pending", "refused")
  /\ UNCHANGED <<owner, closed, gone, installed>>

Finish(c) ==
  /\ \E result \in {"done", "failed"} : Decide(c, "admitted", result)
  /\ UNCHANGED <<owner, closed, gone, installed>>

Install(c) ==
  /\ Open
  /\ Decide(c, "admitted", "done")
  /\ installed' = c
  /\ UNCHANGED <<owner, closed, gone>>

Abandon(c) ==
  /\ \/ Decide(c, "admitted", "failed")
     \/ ~Open /\ Decide(c, "admitted", "refused")
  /\ UNCHANGED <<owner, closed, gone, installed>>

Vanish ==
  /\ gone' = TRUE
  /\ UNCHANGED <<owner, closed, installed, verdict>>

Next ==
  \/ \E d \in Destroyers : Claim(d) \/ Succeed(d) \/ Fail(d) \/ Share(d) \/ Withdraw(d)
  \/ \E c \in Connectors \cup Users : Admit(c) \/ Refuse(c)
  \/ \E c \in Connectors : Install(c) \/ Abandon(c)
  \/ \E c \in Users : Finish(c)
  \/ Vanish

Spec == Init /\ [][Next]_vars

-----------------------------------------------------------------------------
(* What follows for the callers: a Destroy that reports success, its own or a
   shared one, means that the handle is closed and the sandbox gone; while one
   owns the destruction none has succeeded; the record in use is that of a
   Connect that was told so. *)
KeepsItsPromise ==
  /\ closed => gone /\ owner = Nobody
  /\ \A d \in Destroyers : verdict[d] = "done" => closed
  /\ owner # Nobody => owner \in Destroyers /\ verdict[owner] = "pending"
  /\ installed # Nobody => installed \in Connectors /\ verdict[installed] = "done"

(* A destruction is for ever: afterwards nobody is let in, no record is
   installed and no other destruction begins.  While one is owned nobody is let
   in and no record installed either. *)
ClosedIsForever ==
  [][~Open =>
       /\ closed => closed' /\ owner' = owner
       /\ installed' = installed
       /\ \A c \in Callers : verdict'[c] = "admitted" => verdict[c] = "admitted"]_vars
=============================================================================
