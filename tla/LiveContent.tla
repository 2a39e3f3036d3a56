----------------------------- MODULE LiveContent -----------------------------
(***************************************************************************)
(* What a dashboard promises to the people who open it.  A viewer gets the *)
(* complete output of one upload until another complete upload takes its   *)
(* place in one step or the dashboard is removed: docs/ARCHITECTURE.md     *)
(* says that "a complete new package is uploaded before one Firestore      *)
(* update makes it visible".  There is no storage here, no handler and no  *)
(* clean-up.                                                               *)
(*                                                                         *)
(* The upload comes with its own search text, its own size and, if it is a *)
(* package, its own further files.  The exceptions are these: the text of  *)
(* a package may be missing; and once two requests have been at work at    *)
(* the same time, a single file may carry the size of another one, and may *)
(* leave the files of the package it replaces in place.                    *)
(***************************************************************************)
CONSTANTS
    Content,    \* the complete uploads
    NoText,     \* an empty search text
    Nothing     \* what there is of a dashboard that has been deleted, and of
                \* the further files of a single file

VARIABLES
    served,     \* the upload a viewer is shown
    text,       \* the upload the search text was extracted from
    size,       \* the upload the file size was taken from
    package,    \* the package in which the links of the page are looked up
    overlap     \* whether two requests have been at work at the same time

vars == <<served, text, size, package, overlap>>

Init ==
    /\ served \in Content
    /\ text = served /\ size = served
    /\ package \in {served, Nothing}
    /\ overlap = FALSE

Overlap ==
    /\ overlap' = TRUE
    /\ UNCHANGED <<served, text, size, package>>

PublishFile(c) ==
    /\ served # Nothing
    /\ served' = c
    /\ text' = c
    /\ size' \in IF overlap THEN Content ELSE {c}
    /\ package' \in IF overlap THEN {Nothing, package} ELSE {Nothing}
    /\ UNCHANGED overlap

PublishPackage(c) ==
    /\ served # Nothing
    /\ served' = c
    /\ text' \in {c, NoText}
    /\ size' = c
    /\ package' = c
    /\ UNCHANGED overlap

Remove ==
    /\ <<served, text, size, package>>' = <<Nothing, Nothing, Nothing, Nothing>>
    /\ UNCHANGED overlap

Next ==
    \/ Overlap \/ Remove
    \/ \E c \in Content : PublishFile(c) \/ PublishPackage(c)

Spec == Init /\ [][Next]_vars
=============================================================================
