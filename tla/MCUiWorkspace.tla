--------------------------- MODULE MCUiWorkspace ---------------------------
(***************************************************************************)
(* What the user edits, the saves of the configuration and the requests    *)
(* that are made of it, each checked by itself in one run: "part" says     *)
(* which one an execution is about.  Calls are interchangeable.            *)
(***************************************************************************)
EXTENDS UiWorkspace, TLC

CONSTANTS
  MaxRows,   \* bound: the header rows of the request
  MaxSends   \* bound: its sends

VARIABLES part, req

Symmetry == Permutations(Calls)

Requests == INSTANCE UiRequests

\* The workspace is there in both parts; a request is made on the publishers' tab.
MCInit ==
  /\ Init
  /\ \/ part = "workspace" /\ req = <<>>
     \/ part = "requests" /\ opened = {"publishers"} /\ Requests!Init

NextWorkspace == part = "workspace" /\ Next /\ UNCHANGED <<part, req>>
NextRequests  == part = "requests" /\ Requests!Next /\ UNCHANGED <<part, vars>>

MCNext == NextWorkspace \/ NextRequests

\* A request that is shown again is the one that was sent.
ResendRepeats == part = "requests" => Requests!ResendRepeats
=============================================================================
