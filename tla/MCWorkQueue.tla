---------------------------- MODULE MCWorkQueue ----------------------------
(***************************************************************************)
(* Instances of WorkQueue for TLC.                                         *)
(***************************************************************************)
EXTENDS WorkQueue, TLC

CONSTANTS j1, j2, j3, none

\* One chunk of a spreadsheet, one decision and one note.
KindMixed == j1 :> "ingest_rows" @@ j2 :> "thinking" @@ j3 :> "crm_note"
\* Only decisions.
KindThree == j1 :> "thinking" @@ j2 :> "thinking" @@ j3 :> "thinking"

\* Nobody shares a subject.
SubjectAll  == j1 :> none @@ j2 :> "bea" @@ j3 :> "cid"
\* All about the same person.
SubjectSame == j1 :> "ann" @@ j2 :> "ann" @@ j3 :> "ann"

Sym == Permutations(Askers) \cup Permutations(Sessions)
=============================================================================
