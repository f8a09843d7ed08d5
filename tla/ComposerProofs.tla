--------------------------- MODULE ComposerProofs ---------------------------
(***************************************************************************)
(* Theorems about Composer for any number of files, edits, sends and       *)
(* rewrites.                                                               *)
(***************************************************************************)
EXTENDS Composer, FiniteSetTheorems, TLAPS

-----------------------------------------------------------------------------
(* The inductive invariant.                                                *)

\* Whatever may become part of a send has a row, and what was sent fits.
FilesInv ==
    /\ \A f \in Files : upload[f] = "ok" \/ chip[f] = "ready" => f \in stored
    /\ SendsAreAcceptable

\* A send leaves no upload behind that could still change the composer.
DraftInv ==
    isPending /\ ~touched =>
        /\ input = text[sent] /\ Ready = files[sent]
        /\ \A f \in Files : chip[f] # "uploading"

\* The live fetch is for the draft; nothing is shown but its answer.
RewriteInv ==
    /\ open /\ liveFetch # 0 => fetchDraft[liveFetch] = input
    /\ open /\ liveFetch = 0 => failed
    /\ ~open => liveFetch = 0
    /\ suggestion # 0 /\ ~failed => suggestion = liveFetch

Inv == TypeOK /\ FilesInv /\ DraftInv /\ RewriteInv

-----------------------------------------------------------------------------
(* The chip stack.                                                         *)

LEMMA Bounds ==
    MaxFiles \in Nat /\ MaxEdits \in Nat /\ MaxSends \in Nat /\ MaxFetches \in Nat
  BY FilesAssumption, BoundsAssumption

LEMMA Sizes ==
    ASSUME NEW S, S \subseteq Files
    PROVE  IsFiniteSet(S) /\ Cardinality(S) \in Nat
  BY FilesAssumption, FS_Subset, FS_CardinalityType

\* A batch that was let in fits.
LEMMA BatchFits ==
    ASSUME NEW S, S \subseteq Files, NEW batch, batch \subseteq Files,
           Cardinality(batch) <= MaxFiles - Cardinality(S)
    PROVE  Cardinality(S \cup batch) <= MaxFiles
<1>1. IsFiniteSet(S) /\ Cardinality(S) \in Nat /\ IsFiniteSet(batch) /\ Cardinality(batch) \in Nat
  BY Sizes
<1>2. Cardinality(S \cap batch) \in Nat
  <2>1. S \cap batch \subseteq Files
    OBVIOUS
  <2> QED BY <2>1, Sizes
<1>3. Cardinality(S \cup batch) = Cardinality(S) + Cardinality(batch) - Cardinality(S \cap batch)
  BY <1>1, FS_Union
<1> QED BY <1>1, <1>2, <1>3, Bounds

LEMMA FewerFit ==
    ASSUME NEW S, S \subseteq Files, Cardinality(S) <= MaxFiles, NEW T, T \subseteq S
    PROVE  Cardinality(T) <= MaxFiles
<1>1. IsFiniteSet(S) /\ Cardinality(S) \in Nat /\ Cardinality(T) \in Nat
  BY Sizes
<1>2. Cardinality(T) <= Cardinality(S)
  BY <1>1, FS_Subset
<1> QED BY <1>1, <1>2, Bounds

-----------------------------------------------------------------------------
(* The popover.                                                            *)

PopoverTypes ==
    /\ open \in BOOLEAN /\ loading \in BOOLEAN /\ failed \in BOOLEAN
    /\ fetched \in 0..MaxFetches /\ liveFetch \in 0..MaxFetches
    /\ suggestion \in 0..MaxFetches
    /\ fetchDraft \in [Fetches -> Drafts] /\ awaited \subseteq Fetches

\* Asking for the rewrite of the new draft.
LEMMA Asked ==
    ASSUME PopoverTypes, NEW d \in Drafts, AskForRewrite(d), input' = d, open' = TRUE
    PROVE  PopoverTypes' /\ RewriteInv'
<1>1. CASE d = 0
  <2>1. /\ failed' = TRUE /\ liveFetch' = 0
        /\ UNCHANGED <<fetched, fetchDraft, awaited, loading, suggestion>>
    BY <1>1, Zenon DEF AskForRewrite
  <2>2. PopoverTypes'
    BY <2>1, Bounds DEF PopoverTypes
  <2>3. RewriteInv'
    BY <2>1 DEF RewriteInv
  <2> QED BY <2>2, <2>3
<1>2. CASE d # 0
  <2>1. fetched' \in Fetches /\ fetched' # 0 /\ fetchDraft' = [fetchDraft EXCEPT ![fetched'] = d]
    BY <1>2, Bounds DEF PopoverTypes, AskForRewrite, Fetches
  <2>2. fetchDraft' \in [Fetches -> Drafts] /\ fetchDraft'[fetched'] = d
    BY <2>1 DEF PopoverTypes
  <2>3. /\ awaited' = awaited \cup {fetched'} /\ liveFetch' = fetched'
        /\ loading' = TRUE /\ failed' = FALSE /\ suggestion' = 0
    BY <1>2, Zenon DEF AskForRewrite
  <2>4. PopoverTypes'
    <3>1. open' \in BOOLEAN /\ loading' \in BOOLEAN /\ failed' \in BOOLEAN
      BY <2>3, Zenon
    <3> QED BY <2>1, <2>2, <2>3, <3>1, Bounds DEF PopoverTypes, Fetches
  <2>5. RewriteInv'
    BY <2>1, <2>2, <2>3 DEF RewriteInv
  <2> QED BY <2>4, <2>5
<1> QED BY <1>1, <1>2

\* A new draft, with the popover open or not.
LEMMA InputSet ==
    ASSUME PopoverTypes, RewriteInv, NEW d \in Drafts, SetInput(d)
    PROVE  input' = d /\ PopoverTypes' /\ RewriteInv'
<1>1. CASE open /\ d # input
  <2>1. AskForRewrite(d) /\ open' = TRUE /\ input' = d
    BY <1>1 DEF SetInput
  <2> QED BY <2>1, Asked
<1>2. CASE ~(open /\ d # input)
  BY <1>2 DEF SetInput, popover, PopoverTypes, RewriteInv
<1> QED BY <1>1, <1>2

LEMMA Closed ==
    ASSUME PopoverTypes, ClosePopover
    PROVE  PopoverTypes' /\ RewriteInv'
<1>1. /\ open' = FALSE /\ liveFetch' = 0 /\ loading' = FALSE /\ failed' = FALSE
      /\ suggestion' = 0 /\ UNCHANGED <<fetched, fetchDraft, awaited>>
  BY DEF ClosePopover
<1>2. PopoverTypes'
  <2>1. open' \in BOOLEAN /\ loading' \in BOOLEAN /\ failed' \in BOOLEAN
    BY <1>1, Zenon
  <2> QED BY <1>1, <2>1, Bounds DEF PopoverTypes
<1>3. RewriteInv'
  BY <1>1 DEF RewriteInv
<1> QED BY <1>2, <1>3

LEMMA Arrived ==
    ASSUME PopoverTypes, RewriteInv, NEW n \in Fetches, NEW ok \in BOOLEAN,
           RewriteArrives(n, ok)
    PROVE  PopoverTypes' /\ RewriteInv'
<1>1. /\ open' = open /\ fetched' = fetched /\ liveFetch' = liveFetch
      /\ fetchDraft' = fetchDraft /\ input' = input /\ awaited' = awaited \ {n}
  BY DEF RewriteArrives
<1>2. CASE n # liveFetch
  BY <1>1, <1>2 DEF RewriteArrives, PopoverTypes, RewriteInv
<1>3. CASE n = liveFetch /\ ok
  <2>1. loading' = FALSE /\ suggestion' \in {0, n} /\ failed' = failed
    BY <1>3, Zenon DEF RewriteArrives
  <2>2. PopoverTypes'
    <3>1. open' \in BOOLEAN /\ loading' \in BOOLEAN /\ failed' \in BOOLEAN
      BY <1>1, <2>1, Zenon DEF PopoverTypes
    <3> QED BY <1>1, <2>1, <3>1, Bounds DEF PopoverTypes, Fetches
  <2>3. RewriteInv'
    BY <1>1, <1>3, <2>1 DEF RewriteInv
  <2> QED BY <2>2, <2>3
<1>4. CASE n = liveFetch /\ ~ok
  <2>1. loading' = FALSE /\ suggestion' = suggestion /\ failed' = TRUE
    BY <1>4, Zenon DEF RewriteArrives
  <2>2. PopoverTypes'
    <3>1. open' \in BOOLEAN /\ loading' \in BOOLEAN /\ failed' \in BOOLEAN
      BY <1>1, <2>1, Zenon DEF PopoverTypes
    <3> QED BY <1>1, <2>1, <3>1, Bounds DEF PopoverTypes, Fetches
  <2>3. RewriteInv'
    BY <1>1, <1>4, <2>1 DEF RewriteInv
  <2> QED BY <2>2, <2>3
<1> QED BY <1>2, <1>3, <1>4

-----------------------------------------------------------------------------
(* Init and Next.                                                          *)

\* What the parts of Inv are about, apart from the popover.
ChipTypes ==
    /\ chip \in [Files -> {"unpicked", "uploading", "ready", "error", "gone"}]
    /\ Cardinality(Shown) <= MaxFiles
    /\ upload \in [Files -> {"none", "request", "ok", "failed", "over"}]
    /\ stored \subseteq Files
SendTypes ==
    /\ sent \in 0..MaxSends
    /\ text \in [Sends -> Drafts] /\ files \in [Sends -> SUBSET Files]
    /\ send \in [Sends -> {"none", "request", "over"}]
DraftTypes ==
    /\ input \in Drafts /\ edits \in Drafts
    /\ cancelled \in BOOLEAN /\ touched \in BOOLEAN

LEMMA Parts == TypeOK <=> DraftTypes /\ ChipTypes /\ SendTypes /\ PopoverTypes
  BY DEF TypeOK, DraftTypes, ChipTypes, SendTypes, PopoverTypes

\* Initially nothing is drafted, picked or asked for.
LEMMA InitInv == Init => Inv
<1> SUFFICES ASSUME Init PROVE Inv
  OBVIOUS
<1>1. Shown = {} /\ Cardinality({}) = 0
  BY FS_EmptySet DEF Init, Shown
<1>2. DraftTypes /\ ChipTypes /\ SendTypes /\ PopoverTypes
  <2>1. DraftTypes
    <3>1. cancelled \in BOOLEAN /\ touched \in BOOLEAN
      BY Zenon DEF Init
    <3> QED BY <3>1, Bounds DEF Init, DraftTypes, Drafts
  <2>2. ChipTypes
    BY <1>1, Bounds DEF Init, ChipTypes
  <2>3. SendTypes
    BY Bounds DEF Init, SendTypes, Drafts, Sends
  <2>4. PopoverTypes
    <3>1. open \in BOOLEAN /\ loading \in BOOLEAN /\ failed \in BOOLEAN
      BY Zenon DEF Init
    <3> QED BY <3>1, Bounds DEF Init, PopoverTypes, Drafts, Fetches
  <2> QED BY <2>1, <2>2, <2>3, <2>4
<1>3. FilesInv
  BY FS_EmptySet, Bounds DEF Init, FilesInv, SendsAreAcceptable, Sends
<1>4. DraftInv /\ RewriteInv
  BY DEF Init, DraftInv, isPending, RewriteInv
<1> QED BY <1>2, <1>3, <1>4, Parts DEF Inv

\* Steps that touch neither chips nor sends.
LEMMA FilesUntouched ==
    ASSUME FilesInv, UNCHANGED <<chips, sending>>
    PROVE  FilesInv'
  BY DEF FilesInv, SendsAreAcceptable, chips, sending

LEMMA TypesUntouched ==
    ASSUME ChipTypes, SendTypes
    PROVE  /\ UNCHANGED chips => ChipTypes'
           /\ UNCHANGED sending => SendTypes'
  BY DEF ChipTypes, SendTypes, chips, sending, Shown

LEMMA PopoverUntouched ==
    ASSUME PopoverTypes, RewriteInv, UNCHANGED <<input, popover>>
    PROVE  PopoverTypes' /\ RewriteInv'
  BY DEF PopoverTypes, RewriteInv, popover

\* Drafts are numbered below the bound.
LEMMA NewDraft ==
    ASSUME DraftTypes, edits < MaxEdits, edits' = edits + 1
    PROVE  edits' \in Drafts /\ 0 \in Drafts
  BY Bounds DEF DraftTypes, Drafts

\* Every action, one at a time.
LEMMA NextInv == Inv /\ [Next]_vars => Inv'
<1> SUFFICES ASSUME Inv, [Next]_vars PROVE Inv'
  OBVIOUS
<1>0. /\ DraftTypes /\ ChipTypes /\ SendTypes /\ PopoverTypes
      /\ FilesInv /\ DraftInv /\ RewriteInv
  BY Parts DEF Inv
<1> SUFFICES /\ DraftTypes' /\ ChipTypes' /\ SendTypes' /\ PopoverTypes'
             /\ FilesInv' /\ DraftInv' /\ RewriteInv'
  BY Parts DEF Inv, TypeOK, DraftTypes, ChipTypes, SendTypes, PopoverTypes
<1>1. CASE Improve
  <2>1. /\ UNCHANGED <<input, edits, cancelled, chips, sending, touched>>
        /\ open' = TRUE /\ AskForRewrite(input)
    BY <1>1 DEF Improve
  <2>2. PopoverTypes' /\ RewriteInv'
    BY <1>0, <2>1, Asked DEF DraftTypes
  <2>3. ChipTypes' /\ SendTypes' /\ FilesInv'
    BY <1>0, <2>1, TypesUntouched, FilesUntouched
  <2>4. DraftTypes'
    BY <1>0, <2>1 DEF DraftTypes
  <2>5. DraftInv'
    BY <1>0, <2>1 DEF DraftInv, isPending, Ready, chips, sending
  <2> QED BY <2>2, <2>3, <2>4, <2>5
<1>2. CASE UseRewrite
  <2>1. /\ UNCHANGED <<cancelled, chips, sending>> /\ ClosePopover /\ edits < MaxEdits
        /\ edits' = edits + 1 /\ input' = edits' /\ touched' = TRUE
    BY <1>2 DEF UseRewrite
  <2>2. PopoverTypes' /\ RewriteInv'
    BY <1>0, <2>1, Closed
  <2>3. ChipTypes' /\ SendTypes' /\ FilesInv'
    BY <1>0, <2>1, TypesUntouched, FilesUntouched
  <2>4. DraftTypes'
    <3>1. touched' \in BOOLEAN
      BY <2>1, Zenon
    <3> QED BY <1>0, <2>1, <3>1, NewDraft DEF DraftTypes
  <2>5. DraftInv'
    BY <2>1 DEF DraftInv
  <2> QED BY <2>2, <2>3, <2>4, <2>5
<1>3. CASE DismissPopover
  <2>1. /\ UNCHANGED <<input, edits, cancelled, chips, sending, touched>> /\ ClosePopover
    BY <1>3 DEF DismissPopover
  <2>2. PopoverTypes' /\ RewriteInv'
    BY <1>0, <2>1, Closed
  <2>3. ChipTypes' /\ SendTypes' /\ FilesInv'
    BY <1>0, <2>1, TypesUntouched, FilesUntouched
  <2>4. DraftTypes'
    BY <1>0, <2>1 DEF DraftTypes
  <2>5. DraftInv'
    BY <1>0, <2>1 DEF DraftInv, isPending, Ready, chips, sending
  <2> QED BY <2>2, <2>3, <2>4, <2>5
<1>4. CASE Type
  <2>1. /\ UNCHANGED <<cancelled, chips, sending>> /\ edits < MaxEdits
        /\ edits' = edits + 1 /\ touched' = TRUE
    BY <1>4 DEF Type
  <2>2. PICK d \in {0, edits'} : SetInput(d)
    BY <1>4 DEF Type
  <2>3. d \in Drafts /\ edits' \in Drafts
    BY <1>0, <2>1, NewDraft
  <2>4. input' = d /\ PopoverTypes' /\ RewriteInv'
    BY <1>0, <2>2, <2>3, InputSet
  <2>5. ChipTypes' /\ SendTypes' /\ FilesInv'
    BY <1>0, <2>1, TypesUntouched, FilesUntouched
  <2>6. DraftTypes'
    <3>1. touched' \in BOOLEAN
      BY <2>1, Zenon
    <3> QED BY <1>0, <2>1, <2>3, <2>4, <3>1 DEF DraftTypes
  <2>7. DraftInv'
    BY <2>1 DEF DraftInv
  <2> QED BY <2>4, <2>5, <2>6, <2>7
<1>5. ASSUME NEW n \in Fetches, NEW ok \in BOOLEAN, RewriteArrives(n, ok)
      PROVE  /\ DraftTypes' /\ ChipTypes' /\ SendTypes' /\ PopoverTypes'
             /\ FilesInv' /\ DraftInv' /\ RewriteInv'
  <2>1. UNCHANGED <<input, edits, cancelled, chips, sending, touched>>
    BY <1>5 DEF RewriteArrives
  <2>2. PopoverTypes' /\ RewriteInv'
    BY <1>0, <1>5, Arrived
  <2>3. ChipTypes' /\ SendTypes' /\ FilesInv'
    BY <1>0, <2>1, TypesUntouched, FilesUntouched
  <2>4. DraftTypes'
    BY <1>0, <2>1 DEF DraftTypes
  <2>5. DraftInv'
    BY <1>0, <2>1 DEF DraftInv, isPending, Ready, chips, sending
  <2> QED BY <2>2, <2>3, <2>4, <2>5
<1>6. ASSUME NEW batch \in SUBSET Files, HandleFiles(batch)
      PROVE  /\ DraftTypes' /\ ChipTypes' /\ SendTypes' /\ PopoverTypes'
             /\ FilesInv' /\ DraftInv' /\ RewriteInv'
  <2>1. /\ UNCHANGED <<input, edits, cancelled, stored, sending, popover>> /\ touched' = TRUE
        /\ chip' = [f \in Files |-> IF f \in batch THEN "uploading" ELSE chip[f]]
        /\ upload' = [f \in Files |-> IF f \in batch THEN "request" ELSE upload[f]]
        /\ Cardinality(batch) <= MaxFiles - Cardinality(Shown)
    BY <1>6 DEF HandleFiles
  <2>2. PopoverTypes' /\ RewriteInv'
    BY <1>0, <2>1, PopoverUntouched
  <2>3. SendTypes'
    BY <1>0, <2>1, TypesUntouched
  <2>4. ChipTypes'
    <3>1. Shown' \subseteq Shown \cup batch /\ Shown \subseteq Files
      BY <2>1 DEF Shown
    <3>2. Shown \cup batch \subseteq Files /\ Cardinality(Shown \cup batch) <= MaxFiles
      BY <2>1, <3>1, BatchFits
    <3>3. Cardinality(Shown') <= MaxFiles
      BY <3>1, <3>2, FewerFit
    <3> QED BY <1>0, <2>1, <3>3 DEF ChipTypes
  <2>5. DraftTypes'
    <3>1. touched' \in BOOLEAN
      BY <2>1, Zenon
    <3> QED BY <1>0, <2>1, <3>1 DEF DraftTypes
  <2>6. FilesInv'
    BY <1>0, <2>1 DEF FilesInv, SendsAreAcceptable, sending
  <2>7. DraftInv'
    BY <2>1 DEF DraftInv
  <2> QED BY <2>2, <2>3, <2>4, <2>5, <2>6, <2>7
<1>7. ASSUME NEW f \in Files, RemoveAttachment(f)
      PROVE  /\ DraftTypes' /\ ChipTypes' /\ SendTypes' /\ PopoverTypes'
             /\ FilesInv' /\ DraftInv' /\ RewriteInv'
  <2>1. /\ UNCHANGED <<input, edits, cancelled, upload, stored, sending, popover>>
        /\ touched' = TRUE /\ chip' = [chip EXCEPT ![f] = "gone"]
    BY <1>7 DEF RemoveAttachment
  <2>2. PopoverTypes' /\ RewriteInv'
    BY <1>0, <2>1, PopoverUntouched
  <2>3. SendTypes'
    BY <1>0, <2>1, TypesUntouched
  <2>4. ChipTypes'
    <3>1. Shown' \subseteq Shown /\ Shown \subseteq Files
      BY <1>0, <2>1 DEF Shown, ChipTypes
    <3>2. Cardinality(Shown') <= MaxFiles
      BY <1>0, <3>1, FewerFit DEF ChipTypes
    <3> QED BY <1>0, <2>1, <3>2 DEF ChipTypes
  <2>5. DraftTypes'
    <3>1. touched' \in BOOLEAN
      BY <2>1, Zenon
    <3> QED BY <1>0, <2>1, <3>1 DEF DraftTypes
  <2>6. FilesInv'
    BY <1>0, <2>1 DEF FilesInv, SendsAreAcceptable, sending, ChipTypes
  <2>7. DraftInv'
    BY <2>1 DEF DraftInv
  <2> QED BY <2>2, <2>3, <2>4, <2>5, <2>6, <2>7
<1>8. ASSUME NEW f \in Files, AnswerUpload(f) \/ UploadFails(f)
      PROVE  /\ DraftTypes' /\ ChipTypes' /\ SendTypes' /\ PopoverTypes'
             /\ FilesInv' /\ DraftInv' /\ RewriteInv'
  <2>1. /\ UNCHANGED <<input, edits, cancelled, chip, sending, touched, popover>>
        /\ stored \subseteq stored' /\ stored' \subseteq Files
        /\ \/ upload' = [upload EXCEPT ![f] = "ok"] /\ f \in stored'
           \/ upload' = [upload EXCEPT ![f] = "failed"]
    BY <1>0, <1>8 DEF AnswerUpload, UploadFails, ChipTypes
  <2>2. PopoverTypes' /\ RewriteInv'
    BY <1>0, <2>1, PopoverUntouched
  <2>3. SendTypes'
    BY <1>0, <2>1, TypesUntouched
  <2>4. ChipTypes'
    BY <1>0, <2>1 DEF ChipTypes, Shown
  <2>5. DraftTypes'
    BY <1>0, <2>1 DEF DraftTypes
  <2>6. FilesInv'
    BY <1>0, <2>1 DEF FilesInv, SendsAreAcceptable, sending, ChipTypes
  <2>7. DraftInv'
    BY <1>0, <2>1 DEF DraftInv, isPending, Ready, sending
  <2> QED BY <2>2, <2>3, <2>4, <2>5, <2>6, <2>7
<1>9. ASSUME NEW f \in Files, UploadSettles(f)
      PROVE  /\ DraftTypes' /\ ChipTypes' /\ SendTypes' /\ PopoverTypes'
             /\ FilesInv' /\ DraftInv' /\ RewriteInv'
  <2>1. /\ UNCHANGED <<input, edits, cancelled, stored, sending, touched, popover>>
        /\ upload' = [upload EXCEPT ![f] = "over"]
    BY <1>9 DEF UploadSettles
  <2>2. PICK c \in {"ready", "error"} :
            /\ c = "ready" => upload[f] = "ok"
            /\ chip' = [chip EXCEPT ![f] = IF @ = "uploading" THEN c ELSE @]
    BY <1>9 DEF UploadSettles
  <2>3. PopoverTypes' /\ RewriteInv'
    BY <1>0, <2>1, PopoverUntouched
  <2>4. SendTypes'
    BY <1>0, <2>1, TypesUntouched
  <2>5. ChipTypes'
    <3>1. Shown' \subseteq Shown /\ Shown \subseteq Files
      BY <1>0, <2>2 DEF Shown, ChipTypes
    <3>2. Cardinality(Shown') <= MaxFiles
      BY <1>0, <3>1, FewerFit DEF ChipTypes
    <3> QED BY <1>0, <2>1, <2>2, <3>2 DEF ChipTypes
  <2>6. DraftTypes'
    BY <1>0, <2>1 DEF DraftTypes
  <2>7. FilesInv'
    BY <1>0, <2>1, <2>2 DEF FilesInv, SendsAreAcceptable, sending, ChipTypes
  <2>8. DraftInv'
    <3> SUFFICES ASSUME isPending', ~touched' PROVE DraftInv'
      BY DEF DraftInv
    <3>1. isPending /\ ~touched
      BY <2>1 DEF isPending, sending
    <3>2. chip' = chip
      BY <1>0, <2>2, <3>1 DEF DraftInv, ChipTypes
    <3> QED BY <1>0, <2>1, <3>1, <3>2 DEF DraftInv, Ready, sending
  <2> QED BY <2>3, <2>4, <2>5, <2>6, <2>7, <2>8
<1>10. ASSUME NEW byKey \in BOOLEAN, HandleSend(byKey)
       PROVE  /\ DraftTypes' /\ ChipTypes' /\ SendTypes' /\ PopoverTypes'
              /\ FilesInv' /\ DraftInv' /\ RewriteInv'
  <2>1. /\ UNCHANGED <<input, edits, cancelled, chips, popover>> /\ touched' = FALSE
        /\ canSend /\ sent < MaxSends /\ sent' = sent + 1
        /\ text' = [text EXCEPT ![sent'] = input]
        /\ files' = [files EXCEPT ![sent'] = Ready]
        /\ send' = [send EXCEPT ![sent'] = "request"]
    BY <1>10 DEF HandleSend
  <2>2. PopoverTypes' /\ RewriteInv'
    BY <1>0, <2>1, PopoverUntouched
  <2>3. ChipTypes'
    BY <1>0, <2>1, TypesUntouched
  <2>4. Ready \subseteq Shown /\ Shown \subseteq Files
    BY DEF Ready, Shown
  <2>5. sent' \in Sends /\ sent' \in 0..MaxSends
    BY <1>0, <2>1, Bounds DEF SendTypes, Sends
  <2>6. SendTypes'
    BY <1>0, <2>1, <2>4, <2>5 DEF SendTypes, DraftTypes
  <2>7. DraftTypes'
    <3>1. touched' \in BOOLEAN
      BY <2>1, Zenon
    <3> QED BY <1>0, <2>1, <3>1 DEF DraftTypes
  <2>8. FilesInv'
    <3>1. Ready \subseteq stored /\ Cardinality(Ready) <= MaxFiles
      BY <1>0, <2>4, FewerFit DEF FilesInv, Ready, ChipTypes
    <3> QED BY <1>0, <2>1, <2>5, <3>1 DEF FilesInv, SendsAreAcceptable, SendTypes, chips
  <2>9. DraftInv'
    <3>1. text'[sent'] = input /\ files'[sent'] = Ready
      BY <1>0, <2>1, <2>5 DEF SendTypes
    <3>2. \A f \in Files : chip[f] # "uploading"
      BY <2>1 DEF canSend, Shown
    <3> QED BY <2>1, <3>1, <3>2 DEF DraftInv, Ready, chips
  <2> QED BY <2>2, <2>3, <2>6, <2>7, <2>8, <2>9
<1>11. ASSUME NEW n \in Sends, NEW ok \in BOOLEAN, SendSettles(n, ok)
       PROVE  /\ DraftTypes' /\ ChipTypes' /\ SendTypes' /\ PopoverTypes'
              /\ FilesInv' /\ DraftInv' /\ RewriteInv'
  <2>1. /\ UNCHANGED <<edits, cancelled, upload, stored, sent, text, files, touched>>
        /\ send' = [send EXCEPT ![n] = "over"]
    BY <1>11 DEF SendSettles
  <2>2. SendTypes'
    BY <1>0, <2>1 DEF SendTypes
  <2>3. CASE ok /\ n = sent
    <3>1. SetInput(0) /\ chip' = [f \in Files |-> IF f \in Shown THEN "gone" ELSE chip[f]]
      BY <1>11, <2>3 DEF SendSettles
    <3>2. 0 \in Drafts
      BY Bounds DEF Drafts
    <3>3. input' = 0 /\ PopoverTypes' /\ RewriteInv'
      BY <1>0, <3>1, <3>2, InputSet
    <3>4. ChipTypes'
      <4>1. Shown' \subseteq Shown /\ Shown \subseteq Files
        BY <1>0, <3>1 DEF Shown, ChipTypes
      <4>2. Cardinality(Shown') <= MaxFiles
        BY <1>0, <4>1, FewerFit DEF ChipTypes
      <4> QED BY <1>0, <2>1, <3>1, <4>2 DEF ChipTypes
    <3>5. DraftTypes'
      BY <1>0, <2>1, <3>2, <3>3 DEF DraftTypes
    <3>6. FilesInv'
      BY <1>0, <2>1, <3>1 DEF FilesInv, SendsAreAcceptable, ChipTypes, Shown
    <3>7. DraftInv'
      BY <1>0, <2>1, <2>3 DEF DraftInv, isPending, SendTypes
    <3> QED BY <2>2, <3>3, <3>4, <3>5, <3>6, <3>7
  <2>4. CASE ~(ok /\ n = sent)
    <3>1. UNCHANGED <<input, chip, popover>>
      BY <1>11, <2>4 DEF SendSettles
    <3>2. PopoverTypes' /\ RewriteInv'
      BY <1>0, <3>1, PopoverUntouched
    <3>3. ChipTypes' /\ DraftTypes'
      BY <1>0, <2>1, <3>1 DEF ChipTypes, DraftTypes, Shown
    <3>4. FilesInv'
      BY <1>0, <2>1, <3>1 DEF FilesInv, SendsAreAcceptable
    <3>5. DraftInv'
      BY <1>0, <2>1, <3>1 DEF DraftInv, isPending, SendTypes, Ready
    <3> QED BY <2>2, <3>2, <3>3, <3>4, <3>5
  <2> QED BY <2>3, <2>4
<1>12. CASE StatusChanges
  <2>1. /\ UNCHANGED <<input, edits, chips, sending, touched, popover>> /\ cancelled' = ~cancelled
    BY <1>12 DEF StatusChanges
  <2>2. PopoverTypes' /\ RewriteInv'
    BY <1>0, <2>1, PopoverUntouched
  <2>3. ChipTypes' /\ SendTypes' /\ FilesInv'
    BY <1>0, <2>1, TypesUntouched, FilesUntouched
  <2>4. DraftTypes'
    <3>1. cancelled' \in BOOLEAN
      BY <2>1, Zenon
    <3> QED BY <1>0, <2>1, <3>1 DEF DraftTypes
  <2>5. DraftInv'
    BY <1>0, <2>1 DEF DraftInv, isPending, Ready, chips, sending
  <2> QED BY <2>2, <2>3, <2>4, <2>5
<1>13. CASE UNCHANGED vars
  <2>1. UNCHANGED <<input, edits, cancelled, chips, sending, touched, popover>>
    BY <1>13 DEF vars, chips, sending, popover
  <2>2. PopoverTypes' /\ RewriteInv'
    BY <1>0, <2>1, PopoverUntouched
  <2>3. ChipTypes' /\ SendTypes' /\ FilesInv'
    BY <1>0, <2>1, TypesUntouched, FilesUntouched
  <2>4. DraftTypes' /\ DraftInv'
    BY <1>0, <2>1 DEF DraftTypes, DraftInv, isPending, Ready, chips, sending
  <2> QED BY <2>2, <2>3, <2>4
<1> QED
  BY <1>1, <1>2, <1>3, <1>4, <1>5, <1>6, <1>7, <1>8, <1>9, <1>10, <1>11, <1>12, <1>13
  DEF Next

LEMMA InvHolds == Spec => []Inv
  BY InitInv, NextInv, PTL DEF Spec

-----------------------------------------------------------------------------
(* The theorems.                                                           *)

\* Every variable keeps its type, and the chip stack never outgrows
\* MAX_FILES_PER_MESSAGE, however batches and removals interleave.
THEOREM TypeCorrect == Spec => []TypeOK
<1>1. Inv => TypeOK
  BY DEF Inv
<1> QED BY <1>1, InvHolds, PTL

\* No send names a file without an artifacts row, or more than the route takes.
THEOREM SendsCarryStoredFiles == Spec => []SendsAreAcceptable
<1>1. Inv => SendsAreAcceptable
  BY DEF Inv, FilesInv
<1> QED BY <1>1, InvHolds, PTL

\* What onSuccess clears is what was sent, unless the user changed it meanwhile.
THEOREM ClearingDiscardsNothing == Spec => []ClearingIsOfWhatWasSent
<1>1. Inv => ClearingIsOfWhatWasSent
  BY DEF Inv, DraftInv, ClearingIsOfWhatWasSent
<1> QED BY <1>1, InvHolds, PTL

\* A rewrite on offer is one of the current draft.
THEOREM RewriteMatchesDraft == Spec => []RewriteIsOfDraft
<1>1. Inv => RewriteIsOfDraft
  BY DEF Inv, RewriteInv, RewriteIsOfDraft, canCommit
<1> QED BY <1>1, InvHolds, PTL
=============================================================================
