------------------------------ MODULE Composer ------------------------------
(***************************************************************************)
(* The message composer of a run page and the requests it makes: uploads   *)
(* (each with its chip), sends (with the callbacks of the last one), and   *)
(* the rewrite popover.  What a send does to the run is in RunLifecycle.   *)
(*                                                                         *)
(* A draft is a number, a new one for each change of the text, 0 when it   *)
(* is blank.  A file stands for one pick of it (localId) and for the       *)
(* artifact it becomes.                                                    *)
(***************************************************************************)
EXTENDS Integers, FiniteSets

CONSTANTS
    Files,       \* picks of a file
    MaxFiles,    \* MAX_FILES_PER_MESSAGE
    MaxEdits, MaxSends, MaxFetches   \* bounds

ASSUME FilesAssumption == IsFiniteSet(Files) /\ MaxFiles \in Nat
ASSUME BoundsAssumption == MaxEdits \in Nat /\ MaxSends \in Nat /\ MaxFetches \in Nat

VARIABLES
    input,        \* the draft
    edits,        \* bound: drafts so far
    cancelled,    \* run store: status is cancelled
    chip,         \* of each file: unpicked, uploading, ready, error, gone
    upload,       \* its request: none, request, ok, failed, over
    stored,       \* files with an artifacts row
    sent,         \* sends so far, the last is the mutation observed
    text, files,  \* what each send carries
    send,         \* each send: none, request, over
    touched,      \* history: draft or chips changed by the user since the last send
    open,         \* the popover
    fetched,      \* rewrites asked for so far
    fetchDraft,   \* the draft each was asked for
    awaited,      \* those without an answer yet
    liveFetch,    \* the one not cancelled by the effect's cleanup, 0 for none
    loading, failed,  \* popover: loading, error
    suggestion    \* the fetch whose rewrite is shown, 0 for none

chips == <<chip, upload, stored>>
sending == <<sent, text, files, send>>
popover == <<open, fetched, fetchDraft, awaited, liveFetch, loading, failed, suggestion>>
vars == <<input, edits, cancelled, chip, upload, stored,
          sent, text, files, send, touched, open, fetched, fetchDraft, awaited,
          liveFetch, loading, failed, suggestion>>

Drafts == 0..MaxEdits
Sends == 1..MaxSends
Fetches == 1..MaxFetches
Shown == {f \in Files : chip[f] \in {"uploading", "ready", "error"}}
Ready == {f \in Files : chip[f] = "ready"}
isPending == sent > 0 /\ send[sent] = "request"

TypeOK ==
    /\ input \in Drafts /\ edits \in Drafts
    /\ cancelled \in BOOLEAN /\ touched \in BOOLEAN
    /\ open \in BOOLEAN /\ loading \in BOOLEAN /\ failed \in BOOLEAN
    /\ chip \in [Files -> {"unpicked", "uploading", "ready", "error", "gone"}]
    /\ Cardinality(Shown) <= MaxFiles
    /\ upload \in [Files -> {"none", "request", "ok", "failed", "over"}]
    /\ stored \subseteq Files
    /\ sent \in 0..MaxSends
    /\ text \in [Sends -> Drafts] /\ files \in [Sends -> SUBSET Files]
    /\ send \in [Sends -> {"none", "request", "over"}]
    /\ fetched \in 0..MaxFetches /\ liveFetch \in 0..MaxFetches
    /\ suggestion \in 0..MaxFetches
    /\ fetchDraft \in [Fetches -> Drafts] /\ awaited \subseteq Fetches

Init ==
    /\ input = 0 /\ edits = 0 /\ cancelled = FALSE /\ touched = FALSE
    /\ chip = [f \in Files |-> "unpicked"]
    /\ upload = [f \in Files |-> "none"]
    /\ stored = {}
    /\ sent = 0
    /\ text = [n \in Sends |-> 0] /\ files = [n \in Sends |-> {}]
    /\ send = [n \in Sends |-> "none"]
    /\ open = FALSE /\ loading = FALSE /\ failed = FALSE
    /\ fetched = 0 /\ liveFetch = 0 /\ suggestion = 0
    /\ fetchDraft = [n \in Fetches |-> 0] /\ awaited = {}

-----------------------------------------------------------------------------
(* The rewrite popover.                                                    *)

\* Its effect, run when it is opened and when the draft d changes under it; the
\* cleanup cancels the fetch before.
AskForRewrite(d) ==
    IF d = 0
      THEN /\ failed' = TRUE /\ liveFetch' = 0
           /\ UNCHANGED <<fetched, fetchDraft, awaited, loading, suggestion>>
      ELSE /\ fetched < MaxFetches
           /\ fetched' = fetched + 1
           /\ fetchDraft' = [fetchDraft EXCEPT ![fetched'] = d]
           /\ awaited' = awaited \cup {fetched'}
           /\ liveFetch' = fetched'
           /\ loading' = TRUE /\ failed' = FALSE /\ suggestion' = 0

\* setInput(d), and what the popover makes of it.
SetInput(d) ==
    /\ input' = d
    /\ IF open /\ d # input THEN AskForRewrite(d) /\ UNCHANGED open
       ELSE UNCHANGED popover

ClosePopover ==
    /\ open' = FALSE
    /\ liveFetch' = 0 /\ loading' = FALSE /\ failed' = FALSE /\ suggestion' = 0
    /\ UNCHANGED <<fetched, fetchDraft, awaited>>

Improve ==
    /\ ~open /\ input # 0 /\ ~cancelled
    /\ open' = TRUE
    /\ AskForRewrite(input)
    /\ UNCHANGED <<input, edits, cancelled, chips, sending, touched>>

\* Variant: the answer to a cancelled fetch is taken.
RewriteArrivesAnyway(n, ok) ==
    /\ n \in awaited
    /\ awaited' = awaited \ {n}
    /\ loading' = FALSE
    /\ IF ok THEN suggestion' \in {0, n} /\ UNCHANGED failed
       ELSE failed' = TRUE /\ UNCHANGED suggestion
    /\ UNCHANGED <<input, edits, cancelled, chips, sending, touched, open, fetched, fetchDraft,
                   liveFetch>>

\* The route answers (a blank rewrite counts as none), refuses (rate limit) or
\* fails; if (cancelled) return.
RewriteArrives(n, ok) ==
    /\ n \in awaited
    /\ awaited' = awaited \ {n}
    /\ IF n # liveFetch THEN UNCHANGED <<loading, failed, suggestion>>
       ELSE /\ loading' = FALSE
            /\ IF ok THEN suggestion' \in {0, n} /\ UNCHANGED failed
               ELSE failed' = TRUE /\ UNCHANGED suggestion
    /\ UNCHANGED <<input, edits, cancelled, chips, sending, touched, open, fetched, fetchDraft,
                   liveFetch>>

canCommit == open /\ ~loading /\ ~failed /\ suggestion # 0

\* Use rewrite, or Edit and keep: the rewrite becomes the draft.
UseRewrite ==
    /\ canCommit /\ edits < MaxEdits
    /\ edits' = edits + 1 /\ input' = edits' /\ touched' = TRUE
    /\ ClosePopover
    /\ UNCHANGED <<cancelled, chips, sending>>

\* Cancel, or a click outside.
DismissPopover ==
    /\ open
    /\ ClosePopover
    /\ UNCHANGED <<input, edits, cancelled, chips, sending, touched>>

-----------------------------------------------------------------------------
(* Draft and chips.                                                        *)

\* The text changes; it may become blank.
Type ==
    /\ ~cancelled /\ edits < MaxEdits
    /\ edits' = edits + 1 /\ touched' = TRUE
    /\ \E d \in {0, edits'} : SetInput(d)
    /\ UNCHANGED <<cancelled, chips, sending>>

\* Paperclip or drop: what is left of a batch after the count, type and size
\* checks gets a chip and starts uploading.
HandleFiles(batch) ==
    /\ batch # {}
    /\ \A f \in batch : chip[f] = "unpicked"
    /\ Cardinality(batch) <= MaxFiles - Cardinality(Shown)
    /\ chip' = [f \in Files |-> IF f \in batch THEN "uploading" ELSE chip[f]]
    /\ upload' = [f \in Files |-> IF f \in batch THEN "request" ELSE upload[f]]
    /\ touched' = TRUE
    /\ UNCHANGED <<input, edits, cancelled, stored, sending, popover>>

\* The chip goes; the upload goes on.
RemoveAttachment(f) ==
    /\ f \in Shown
    /\ chip' = [chip EXCEPT ![f] = "gone"]
    /\ touched' = TRUE
    /\ UNCHANGED <<input, edits, cancelled, upload, stored, sending, popover>>

-----------------------------------------------------------------------------
(* Uploads: POST attachments.                                              *)

\* Variant: the answer does not wait for the row.
AnswerUploadEarly(f) ==
    /\ upload[f] = "request"
    /\ upload' = [upload EXCEPT ![f] = "ok"]
    /\ UNCHANGED <<input, edits, cancelled, chip, stored, sending, touched, popover>>

\* Bytes stored, text extracted, artifacts row inserted, 200.
AnswerUpload(f) ==
    /\ upload[f] = "request"
    /\ stored' = stored \cup {f}
    /\ upload' = [upload EXCEPT ![f] = "ok"]
    /\ UNCHANGED <<input, edits, cancelled, chip, sending, touched, popover>>

\* The request is lost, refused (limit, type, size) or throws; the row may have
\* been inserted.
UploadFails(f) ==
    /\ upload[f] = "request"
    /\ upload' = [upload EXCEPT ![f] = "failed"]
    /\ stored' \in {stored, stored \cup {f}}
    /\ UNCHANGED <<input, edits, cancelled, chip, sending, touched, popover>>

\* The promise of uploadAttachment settles; an answer of success may be lost.
UploadSettles(f) ==
    /\ upload[f] \in {"ok", "failed"}
    /\ upload' = [upload EXCEPT ![f] = "over"]
    /\ \E c \in {"ready", "error"} :
         /\ c = "ready" => upload[f] = "ok"
         /\ chip' = [chip EXCEPT ![f] = IF @ = "uploading" THEN c ELSE @]
    /\ UNCHANGED <<input, edits, cancelled, stored, sending, touched, popover>>

-----------------------------------------------------------------------------
(* Sends: POST messages.                                                   *)

\* Variant: uploads do not hold up a send.
canSendAnytime == ~cancelled /\ input # 0

canSend == ~cancelled /\ input # 0 /\ \A f \in Shown : chip[f] # "uploading"

\* Enter calls it as it is; the button is disabled while isPending.
HandleSend(byKey) ==
    /\ byKey \/ ~isPending
    /\ canSend /\ sent < MaxSends
    /\ sent' = sent + 1
    /\ text' = [text EXCEPT ![sent'] = input]
    /\ files' = [files EXCEPT ![sent'] = Ready]
    /\ send' = [send EXCEPT ![sent'] = "request"]
    /\ touched' = FALSE
    /\ UNCHANGED <<input, edits, cancelled, chips, popover>>

\* The mutation settles: the route has started or queued the message, or refused
\* it (400, 404 for files without a row, 500), or request or answer was lost.
\* onSuccess is called for the last one only.
SendSettles(n, ok) ==
    /\ send[n] = "request"
    /\ send' = [send EXCEPT ![n] = "over"]
    /\ IF ok /\ n = sent
         THEN /\ SetInput(0)
              /\ chip' = [f \in Files |-> IF f \in Shown THEN "gone" ELSE chip[f]]
         ELSE UNCHANGED <<input, chip, popover>>
    /\ UNCHANGED <<edits, cancelled, upload, stored, sent, text, files, touched>>

-----------------------------------------------------------------------------
(* Around it.                                                              *)

\* The run store learns that the run was cancelled, or resumed.
StatusChanges ==
    /\ cancelled' = ~cancelled
    /\ UNCHANGED <<input, edits, chips, sending, touched, popover>>

Next ==
    \/ Improve \/ UseRewrite \/ DismissPopover \/ Type
    \/ \E n \in Fetches, ok \in BOOLEAN : RewriteArrives(n, ok)
    \/ \E batch \in SUBSET Files : HandleFiles(batch)
    \/ \E f \in Files : \/ RemoveAttachment(f) \/ AnswerUpload(f) \/ UploadFails(f)
                        \/ UploadSettles(f)
    \/ \E byKey \in BOOLEAN : HandleSend(byKey)
    \/ \E n \in Sends, ok \in BOOLEAN : SendSettles(n, ok)
    \/ StatusChanges

Spec == Init /\ [][Next]_vars

-----------------------------------------------------------------------------
(* Properties.                                                             *)

\* No send is refused for its files: the composer lets an id out only after its
\* artifact has a row, and never more of them than the messages route takes.
SendsAreAcceptable ==
    \A n \in Sends : files[n] \subseteq stored /\ Cardinality(files[n]) <= MaxFiles

\* While a send is out and the user has changed nothing, the composer still
\* shows exactly what was sent: the clearing in its onSuccess discards no text
\* and no file that is not in a message, whatever uploads or rewrites arrive.
ClearingIsOfWhatWasSent ==
    isPending /\ ~touched => input = text[sent] /\ Ready = files[sent]

\* A rewrite that can be taken over is one of the text it replaces, whichever
\* answer comes first, also when the popover was closed and opened in between.
RewriteIsOfDraft == canCommit => fetchDraft[suggestion] = input
=============================================================================
