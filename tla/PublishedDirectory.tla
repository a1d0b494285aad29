------------------------- MODULE PublishedDirectory -------------------------
(***************************************************************************)
(* What publication promises about the destination, whatever the tools do  *)
(* and wherever they or the machine stop: it is not there, or it is, at    *)
(* once, the complete work of one tool and stays that; a tool reports      *)
(* success only of a complete destination, and of its own only when a loss *)
(* of power can no longer take it back.  A directory found at the          *)
(* destination that is no publication is left alone.                       *)
(***************************************************************************)
CONSTANTS
  Tools,   \* the runs of the provisioning tools
  None,    \* nothing at the destination
  Foreign  \* something at the destination that does not verify

VARIABLES
  content, \* whose work is at the destination, None or Foreign
  durable, \* would it survive a loss of power?
  success  \* the tools that report success

vars == <<content, durable, success>>

Init ==
  /\ content \in {None, Foreign}
  /\ durable = TRUE
  /\ success = {}

Publish(t) ==
  /\ content = None
  /\ content' = t /\ durable' = FALSE
  /\ UNCHANGED success

\* The publisher has made its directory durable and reports success.
Confirm(t) ==
  /\ content = t
  /\ durable' = TRUE
  /\ success' = success \cup {t}
  /\ UNCHANGED content

\* Another tool reports success of a directory that is already there.
Reuse(t) ==
  /\ content \in Tools \ {t}
  /\ success' = success \cup {t}
  /\ UNCHANGED <<content, durable>>

\* A publication may turn out durable without having been confirmed.
LosePower ==
  /\ content' \in IF durable THEN {content} ELSE {content, None}
  /\ durable' = TRUE
  /\ UNCHANGED success

Next ==
  \/ \E t \in Tools : Publish(t) \/ Confirm(t) \/ Reuse(t)
  \/ LosePower

Spec == Init /\ [][Next]_vars
=============================================================================
