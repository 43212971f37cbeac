-------------------------------- MODULE Desk --------------------------------
(***************************************************************************)
(* The review desk beside a running send: a person edits, redates or asks  *)
(* to rewrite a message that has not gone out (app/actions.ts), while      *)
(* fireDue works through a batch it read once (engine/fireDue.ts).  Each   *)
(* desk call reads the message's status and then writes by its id alone;   *)
(* each run sends the words of its snapshot and writes them back.          *)
(* Extends SendPath with what a message says.                              *)
(***************************************************************************)
EXTENDS SendPath

CONSTANTS
    OnDesk,      \* messages somebody has open at the desk
    MaxEdits     \* bound on the calls of the desk

ASSUME DeskAssumption == OnDesk \subseteq Msgs /\ MaxEdits \in Nat

VARIABLES
    words,      \* content.slotText: which writing of the message it is
    body,       \* content.bodyMd: the writing it was rendered from, or NoBody
    held,       \* held[r][m]: the content in run r's snapshot
    call,       \* the desk call between its read and its write, or Nobody
    edits,      \* desk calls so far
    \* History, read by no action of the code.
    saved,      \* the writing the desk saved last
    went,       \* the writing the provider accepted last
    overtaken,  \* <<m, what>>: what m says, or its date, was last changed
                \* while a run had taken m
    crossed,    \* messages changed by a call that read them before they went
    astray,     \* messages accepted with other words, or before their date
    signed,     \* <<m, w>>: a person decided on writing w of m, or wrote it
    unsigned    \* messages that need approval, accepted with other writings

text == <<words, body>>
desk == <<held, call, edits>>
told == <<saved, went, overtaken, crossed, astray, signed, unsigned>>
allVars == <<vars, text, desk, told>>

\* Writing 0 is the session's; an edit makes the next one.  A message whose
\* rewrite was asked for has no words of its own: the template is all it says.
Blank    == -1
NoBody   == -2
Writings == {Blank} \union 0 .. MaxEdits

Nobody == [op |-> "none"]
Ops    == {"edit", "reschedule", "regenerate"}

DeskTypeOK ==
    /\ TypeOK
    /\ words \in [Msgs -> Writings]
    /\ body \in [Msgs -> Writings \union {NoBody}]
    /\ held \in [Runs -> [Msgs -> [words : Writings, body : Writings \union {NoBody}]]]
    /\ call \in {Nobody} \union [op : Ops, msg : Msgs, was : Statuses]
    /\ edits \in 0 .. MaxEdits
    /\ saved \in [Msgs -> Writings] /\ went \in [Msgs -> Writings]
    /\ overtaken \subseteq Msgs \X {"words", "date"}
    /\ crossed \subseteq Msgs /\ astray \subseteq Msgs
    /\ signed \subseteq Msgs \X Writings /\ unsigned \subseteq Msgs

Content(m) == [words |-> words[m], body |-> body[m]]

DeskInit ==
    /\ Init
    /\ words = [m \in Msgs |-> 0]
    \* What waits at the gate was rendered there; the rest is not rendered yet.
    /\ body = [m \in Msgs |-> IF status[m] = "awaiting_approval" THEN 0 ELSE NoBody]
    /\ held = [r \in Runs |-> [m \in Msgs |-> Content(m)]]
    /\ call = Nobody /\ edits = 0
    /\ saved = [m \in Msgs |-> 0] /\ went = [m \in Msgs |-> 0]
    /\ overtaken = {} /\ crossed = {} /\ astray = {} /\ signed = {} /\ unsigned = {}

-----------------------------------------------------------------------------
(* The run's side: what it read is what it sends, and what it writes back. *)

\* An answer is its own words.  A message somebody read goes as it was
\* rendered for them; any other is rendered now.
Said(r, m) == IF m \in Replies \/ m \notin seen[r] \/ held[r][m].body = NoBody
              THEN held[r][m].words ELSE held[r][m].body

\* Variant: the status is written without the content.
WriteBackNothing(r, m) == UNCHANGED text

\* Parking, putting back for a provider that is busy and recording put the
\* rendered snapshot over the stored content.
WriteBack(r, m) ==
    /\ words' = [words EXCEPT ![m] = held[r][m].words]
    /\ body' = [body EXCEPT ![m] = Said(r, m)]

\* It goes with other words than the desk saved last, or before its date.
Mistaken(r, m) == \/ Said(r, m) # saved[m] /\ <<m, "words">> \notin overtaken
                  \/ m \notin due /\ <<m, "date">> \notin overtaken

DeskStart(r) ==
    /\ Start(r)
    /\ held' = [held EXCEPT ![r] = [m \in Msgs |-> Content(m)]]
    /\ UNCHANGED <<text, call, edits, told>>

DeskAccept(r, m) ==
    /\ Accept(r, m) \/ AcceptUnheard(r, m)
    /\ went' = [went EXCEPT ![m] = Said(r, m)]
    /\ astray' = IF Mistaken(r, m) THEN astray \union {m} ELSE astray
    /\ unsigned' = IF m \in Gated /\ <<m, Said(r, m)>> \notin signed
                   THEN unsigned \union {m} ELSE unsigned
    /\ UNCHANGED <<text, desk, saved, overtaken, crossed, signed>>

DeskPark(r, m) ==
    /\ Park(r, m)
    /\ WriteBack(r, m)
    /\ UNCHANGED <<desk, told>>

DeskRetry(r, m) ==
    /\ Retry(r, m)
    /\ WriteBack(r, m)
    /\ UNCHANGED <<desk, told>>

DeskRecord(r, m) ==
    /\ Record(r, m)
    /\ WriteBack(r, m)
    /\ UNCHANGED <<desk, told>>

\* Every other step of the run leaves the content alone.
RunOn(r, m) ==
    /\ \/ Claim(r, m) \/ LoseClaim(r, m) \/ Look(r, m) \/ Turned(r, m) \/ Broken(r, m)
       \/ Skip(r, m) \/ Defer(r, m) \/ Pass(r, m) \/ Invalid(r, m) \/ WindowFull(r, m) \/ NoAdapter(r, m) \/ Unsendable(r, m)
       \/ Launch(r, m) \/ Refuse(r, m) \/ Spend(r, m) \/ Contact(r, m)
       \/ WriteThrows(r, m)
    /\ UNCHANGED <<text, desk, told>>

-----------------------------------------------------------------------------
(* The desk's side. *)

\* Before the send everything is fair game, a failure included ("rejected" is
\* a skip of a person's).
Editable(m) == status[m] \in {"awaiting_approval", "queued", "failed", "skipped", "rejected"}

\* editableAction: the read.
Open(op, m) ==
    /\ op \in Events /\ call = Nobody /\ edits < MaxEdits
    /\ Editable(m)
    /\ call' = [op |-> op, msg |-> m, was |-> status[m]]
    /\ edits' = edits + 1
    /\ UNCHANGED <<vars, text, held, told>>

\* A run has it in its batch, or died with its claim.
Taken(m) == status[m] = "sending" \/ \E r \in Runs : at[r][m] # "none"

\* The write lands, whatever became of the message meanwhile.
Land(op, m) ==
    /\ call # Nobody /\ call.op = op /\ call.msg = m
    /\ call' = Nobody
    /\ LET changed == {<<m, IF op = "reschedule" THEN "date" ELSE "words">>} IN
         overtaken' = IF Taken(m) THEN overtaken \union changed ELSE overtaken \ changed
    /\ crossed' = IF status[m] = "sent" THEN crossed \union {m} ELSE crossed
    /\ UNCHANGED <<held, edits, went, astray, unsigned, run, db, who, hist, stale>>

\* Variant: the rendered halves are left.
EditTextKeepsBody(m) ==
    /\ words' = [words EXCEPT ![m] = edits]
    /\ UNCHANGED body

\* The words are saved and the rendered halves dropped, so that the next
\* render is made from them.
EditText(m) ==
    /\ words' = [words EXCEPT ![m] = edits]
    /\ body' = [body EXCEPT ![m] = NoBody]

EditMessage(m) ==
    /\ Land("edit", m)
    /\ EditText(m)
    /\ saved' = [saved EXCEPT ![m] = edits]
    /\ signed' = signed \union {<<m, edits>>}
    /\ UNCHANGED <<status, due, reviewed>>

\* A new date; what failed or was stopped is queued by the same move.
RescheduleMessage(m) ==
    /\ Land("reschedule", m)
    /\ due' \in {due \ {m}, due \union {m}}
    /\ status' = IF call.was \in {"queued", "awaiting_approval"} THEN status
                 ELSE [status EXCEPT ![m] = "queued"]
    /\ UNCHANGED <<text, saved, signed, reviewed>>

\* What asking for a rewrite writes on the message.
ToRewrite(m) ==
    /\ Land("regenerate", m)
    /\ words' = [words EXCEPT ![m] = Blank]
    /\ body' = [body EXCEPT ![m] = NoBody]
    /\ saved' = [saved EXCEPT ![m] = Blank]
    /\ status' = [status EXCEPT ![m] = "awaiting_approval"]
    /\ UNCHANGED <<due, signed>>

\* Variant: the approval of the words that were dropped stays.
RegenerateKeepsReview(m) == ToRewrite(m) /\ UNCHANGED reviewed

\* Back to the gate without its words.  The compose item queued with it never
\* gives them back: compose_batch inserts under the key of goal and step, which
\* this message holds, and drops the duplicate.
RegenerateMessage(m) == ToRewrite(m) /\ reviewed' = reviewed \ {m}

\* A person decides on the message as it is stored.
DeskDecide(m) ==
    /\ Approve(m) \/ Reject(m)
    /\ signed' = signed \union {<<m, words[m]>>}
                        \union (IF body[m] = NoBody THEN {} ELSE {<<m, body[m]>>})
    /\ UNCHANGED <<text, desk, saved, went, overtaken, crossed, astray, unsigned>>

\* Putting back, the lead and the clock leave the content alone.
Beside ==
    /\ \/ \E r \in Runs : Flush(r) \/ Crash(r)
       \/ \E p \in People : Lead(p)
       \/ \E m \in Msgs : ReturnToReview(m) \/ Clock(m)
    /\ UNCHANGED <<text, desk, told>>

DeskNext ==
    \/ \E r \in Runs : DeskStart(r)
    \/ \E r \in Runs, m \in Msgs :
         \/ DeskAccept(r, m) \/ DeskPark(r, m) \/ DeskRetry(r, m) \/ DeskRecord(r, m)
         \/ RunOn(r, m)
    \/ \E m \in Msgs : DeskDecide(m)
    \/ \E op \in Ops, m \in OnDesk : Open(op, m)
    \/ \E m \in OnDesk : EditMessage(m) \/ RescheduleMessage(m) \/ RegenerateMessage(m)
    \/ Beside

DeskSpec == DeskInit /\ [][DeskNext]_allVars

-----------------------------------------------------------------------------
(* What the desk promises. *)

\* Nothing that needs approval goes out unread (fireDue.ts 318-330): the words
\* the provider takes are words a person decided on or wrote, although the run
\* decides from a batch it read earlier, puts that batch's words back over
\* the stored ones, and the desk withdraws the review of a message it has
\* rewritten (actions.ts 1998) whatever the run is doing with it.
NothingUnread == unsigned = {}

\* What a person saved at the desk is what the lead gets: the words of the last
\* edit ("leaving them would show the reviewer their own edit and send the old
\* words", actions.ts 1941) and not before the date ("moving the date is the
\* whole of rescheduling", actions.ts 1955), through the gate, put-backs,
\* failures, deferrals and crashes.  The exception is a change saved while a
\* run already had the message in its batch: the run sends its snapshot.
ChangesGoOut == astray = {}

\* "A sent message is a record of what somebody received" (actions.ts 1877):
\* the content stored beside "sent" is what the provider took, unless a call
\* that read the message before it went landed after.
RecordTrue ==
    \A m \in Msgs \ crossed : status[m] = "sent" => body[m] = went[m]
=============================================================================
