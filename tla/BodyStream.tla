----------------------------- MODULE BodyStream -----------------------------
(***************************************************************************)
(* What a message body promises to its reader: the chunks in the order in  *)
(* which they were sent, each once, and after the last of them exactly one *)
(* of an end and an error.  An error is told if and only if the sender     *)
(* reported one: a sender that is cut off in the middle of the body does   *)
(* not, and its reader is told an end.                                     *)
(***************************************************************************)
EXTENDS Naturals, Sequences

CONSTANT Sizes          \* lengths a chunk may have

VARIABLES
    sent,               \* the chunks the sender handed over
    fate,               \* how the sender finished: "open", "clean", "cut" or "error"
    got,                \* the chunks the reader was given
    outcome             \* what the reader was told last: "none", "end" or "error"

vars == <<sent, fate, got, outcome>>

Init == sent = <<>> /\ fate = "open" /\ got = <<>> /\ outcome = "none"

Send ==
    /\ fate = "open"
    /\ \E n \in Sizes : sent' = Append(sent, n)
    /\ UNCHANGED <<fate, got, outcome>>

Finish ==
    /\ fate = "open"
    /\ fate' \in {"clean", "cut", "error"}
    /\ UNCHANGED <<sent, got, outcome>>

Receive ==
    /\ outcome = "none" /\ Len(got) < Len(sent)
    /\ got' = Append(got, sent[Len(got) + 1])
    /\ UNCHANGED <<sent, fate, outcome>>

Conclude ==
    /\ outcome = "none" /\ fate # "open" /\ Len(got) = Len(sent)
    /\ outcome' = IF fate = "error" THEN "error" ELSE "end"
    /\ UNCHANGED <<sent, fate, got>>

Next == Send \/ Finish \/ Receive \/ Conclude

Spec == Init /\ [][Next]_vars
=============================================================================
