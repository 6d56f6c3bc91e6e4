---------------------------- MODULE CommandStream ----------------------------
(***************************************************************************)
(* What DxvkSubmissionQueue promises to those who submit: entries leave in *)
(* the order they were accepted, a command list that started keeps its     *)
(* resources in use until the GPU has finished with it or the device is    *)
(* lost, lists are released in the order they started, and a list is       *)
(* recorded again only after its release.  Threads, condition variables,   *)
(* fences and the two queues are gone.                                     *)
(***************************************************************************)
EXTENDS Sequences

CONSTANTS
  CmdLists,  \* command lists
  Others     \* the other entries of the stream: presents, interpolation data

VARIABLES
  idle,       \* lists that may be recorded
  recording,  \* lists being recorded
  accepted,   \* entries accepted and not issued, oldest first
  started,    \* lists issued and not released, oldest first
  released,   \* lists released and not idle yet
  refused,    \* lists the driver refused and that are not destroyed yet
  executing,  \* lists the GPU works on
  busy,       \* lists whose resources are in use
  lost        \* the device is lost: the GPU executes nothing

vars == <<idle, recording, accepted, started, released, refused, executing,
          busy, lost>>

Init ==
  /\ idle = CmdLists
  /\ recording = {}
  /\ accepted = <<>>
  /\ started = <<>>
  /\ released = {}
  /\ refused = {}
  /\ executing = {}
  /\ busy = {}
  /\ lost = FALSE

\* A list that is idle takes its resources.
Begin(l) ==
  /\ l \in idle
  /\ l \notin busy
  /\ idle' = idle \ {l}
  /\ recording' = recording \cup {l}
  /\ busy' = busy \cup {l}
  /\ UNCHANGED <<accepted, started, released, refused, executing, lost>>

Accept(l) ==
  /\ l \in recording
  /\ recording' = recording \ {l}
  /\ accepted' = Append(accepted, l)
  /\ UNCHANGED <<idle, started, released, refused, executing, busy, lost>>

AcceptOther(e) ==
  /\ accepted' = Append(accepted, e)
  /\ UNCHANGED <<idle, recording, started, released, refused, executing, busy,
                 lost>>

\* The GPU gets the oldest list.
Start ==
  /\ accepted # <<>>
  /\ Head(accepted) \in CmdLists
  /\ ~lost
  /\ accepted' = Tail(accepted)
  /\ started' = Append(started, Head(accepted))
  /\ executing' = executing \cup {Head(accepted)}
  /\ UNCHANGED <<idle, recording, released, refused, busy, lost>>

\* The driver refuses the oldest list.
Refuse ==
  /\ accepted # <<>>
  /\ Head(accepted) \in CmdLists
  /\ accepted' = Tail(accepted)
  /\ refused' = refused \cup {Head(accepted)}
  /\ UNCHANGED <<idle, recording, started, released, executing, busy, lost>>

PassOther ==
  /\ accepted # <<>>
  /\ Head(accepted) \in Others
  /\ accepted' = Tail(accepted)
  /\ UNCHANGED <<idle, recording, started, released, refused, executing, busy,
                 lost>>

Complete(l) ==
  /\ l \in executing
  /\ executing' = executing \ {l}
  /\ UNCHANGED <<idle, recording, accepted, started, released, refused, busy,
                 lost>>

\* The oldest started list is released once the GPU is done with it.
Release ==
  /\ started # <<>>
  /\ Head(started) \notin executing
  /\ started' = Tail(started)
  /\ released' = released \cup {Head(started)}
  /\ busy' = busy \ {Head(started)}
  /\ UNCHANGED <<idle, recording, accepted, refused, executing, lost>>

\* A refused list is destroyed; its resources may stay in use for ever.
Discard(l) ==
  /\ l \in refused
  /\ l \notin executing
  /\ refused' = refused \ {l}
  /\ busy' \in {busy, busy \ {l}}
  /\ UNCHANGED <<idle, recording, accepted, started, released, executing, lost>>

Reuse(l) ==
  /\ l \in released
  /\ l \notin busy \cup executing
  /\ released' = released \ {l}
  /\ idle' = idle \cup {l}
  /\ UNCHANGED <<recording, accepted, started, refused, executing, busy, lost>>

Lose ==
  /\ lost' = TRUE
  /\ executing' = {}
  /\ UNCHANGED <<idle, recording, accepted, started, released, refused, busy>>

Next ==
  \/ \E l \in CmdLists : \/ Begin(l) \/ Accept(l) \/ Complete(l)
                         \/ Discard(l) \/ Reuse(l)
  \/ \E e \in Others : AcceptOther(e)
  \/ Start \/ Refuse \/ PassOther \/ Release \/ Lose

Spec == Init /\ [][Next]_vars
=============================================================================
