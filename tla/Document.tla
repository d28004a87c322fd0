------------------------------ MODULE Document ------------------------------
(***************************************************************************)
(* One file on disk, the documents that show it and everything that moves  *)
(* its text: edits and saves of the user, the save queue                   *)
(* (save_queue.c), the watcher that reloads documents (file_watcher.c),    *)
(* other programs, and the clients of the control socket, which edit the   *)
(* file, save a document or type into one.                                 *)
(*                                                                         *)
(* A text is a number, a new one for each change.  Time stamps are in      *)
(* seconds; what matters is whether the watcher finds the file's stamp     *)
(* different from the last one it took note of.                            *)
(***************************************************************************)
EXTENDS Naturals, Sequences, SequencesExt

CONSTANTS
    Documents,    \* places for documents that show the file
    MaxTexts,     \* bound on the texts made
    MaxQueue,     \* bound on the saves waiting
    SameSecond    \* two writes may carry the same time stamp

ASSUME DocumentAssumption ==
    /\ MaxTexts \in Nat \ {0}
    /\ MaxQueue \in Nat \ {0}
    /\ SameSecond \in BOOLEAN

VARIABLES
    disk,       \* the text on disk
    doc,        \* the documents
    queue,      \* saves waiting: the document they came from and its text
    typing,     \* g_typing_ui
    made,       \* texts made so far (no program variable)
    told        \* a client was told that this is the text on disk (no program variable)

documentVars == <<disk, doc, queue, typing, made, told>>

Texts == 1..MaxTexts
None == 0

\* noted: the stamp of the file is the one the watcher last took note of.
\* failed: a save of this document was not written (no program variable).
Doc == [open : BOOLEAN, text : Texts \cup {None}, modified : BOOLEAN,
        noted : BOOLEAN, failed : BOOLEAN]

Closed == [open |-> FALSE, text |-> None, modified |-> FALSE, noted |-> TRUE, failed |-> FALSE]
Loaded(t) == [Closed EXCEPT !.open = TRUE, !.text = t]

\* knew: told, when the save was asked for (no program variable).
Save == [doc : Documents, text : Texts, knew : BOOLEAN]

\* text: the document's text after the last step of the typing itself.
Typing == [phase : {"idle", "inserting", "saving"}, doc : Documents, text : Texts \cup {None}]

Opened == {d \in Documents : doc[d].open}

DocumentTypeOK ==
    /\ disk \in Texts
    /\ doc \in [Documents -> Doc]
    /\ \A d \in Documents \ Opened : doc[d] = Closed
    /\ queue \in SeqOf(Save, MaxQueue)
    /\ typing \in Typing
    /\ made \in Texts
    /\ told \in BOOLEAN

Idle == [phase |-> "idle", doc |-> CHOOSE d \in Documents : TRUE, text |-> None]

DocumentInit ==
    /\ disk = 1
    /\ doc = [d \in Documents |-> Closed]
    /\ queue = <<>>
    /\ typing = Idle
    /\ made = 1
    /\ told = FALSE

-----------------------------------------------------------------------------
CanMake == made < MaxTexts
New == made + 1

\* Which documents a change of the file may leave with the stamp noted last: none,
\* unless both stamps may be of the same second.
Unnoticed == IF SameSecond THEN SUBSET Documents ELSE {{}}

\* The documents after something wrote the file.
Stamped(docs) ==
    {[d \in Documents |-> [docs[d] EXCEPT !.noted = @ /\ (docs[d].open => d \in same)]] :
        same \in Unnoticed}

Open(d) ==
    /\ ~doc[d].open
    /\ doc' = [doc EXCEPT ![d] = Loaded(disk)]
    /\ UNCHANGED <<disk, queue, typing, made, told>>

\* Closing asks nothing.  A typing in progress goes on with the memory it
\* finds; what is typed then is lost, which is taken to end it.
Close(d) ==
    /\ doc[d].open
    /\ doc' = [doc EXCEPT ![d] = Closed]
    /\ typing' = IF typing.phase = "inserting" /\ typing.doc = d THEN Idle ELSE typing
    /\ UNCHANGED <<disk, queue, made, told>>

Changed(d) == [doc EXCEPT ![d].text = New, ![d].modified = TRUE]

Edit(d) ==
    /\ doc[d].open
    /\ CanMake
    /\ doc' = Changed(d)
    /\ made' = New
    /\ UNCHANGED <<disk, queue, typing, told>>

Snapshot(d, text) == [doc |-> d, text |-> text, knew |-> told]

\* A document counts as unmodified as soon as its save is queued.  One of the
\* save commands queues it twice.
QueueSave(d) ==
    /\ doc[d].open
    /\ \E n \in {1, 2} :
        /\ n = 2 => doc[d].modified
        /\ Len(queue) + n <= MaxQueue
        /\ queue' = queue \o [i \in 1..n |-> Snapshot(d, doc[d].text)]
    /\ doc' = [doc EXCEPT ![d].modified = FALSE]
    /\ UNCHANGED <<disk, typing, made, told>>

\* The documents after a save of d was not written.
WriteFailed(d) == [doc EXCEPT ![d].failed = @ \/ doc[d].open]

Written(d) == [doc EXCEPT ![d].failed = FALSE]

\* The queue writes one file a frame.  A write that fails is dropped; one that
\* is cut short leaves a text nobody wrote.
TickSaveQueue ==
    /\ queue # <<>>
    /\ LET s == Head(queue) IN
        \/ disk' = s.text /\ doc' \in Stamped(Written(s.doc)) /\ UNCHANGED made
        \/ doc' = WriteFailed(s.doc) /\ UNCHANGED <<disk, made>>
        \/ CanMake /\ disk' = New /\ made' = New /\ doc' \in Stamped(WriteFailed(s.doc))
    /\ told' = (told /\ disk' = disk)
    /\ queue' = Tail(queue)
    /\ UNCHANGED typing

\* Another program writes the file.
ChangeOutside ==
    /\ CanMake
    /\ disk' = New
    /\ made' = New
    /\ doc' \in Stamped(doc)
    /\ told' = FALSE
    /\ UNCHANGED <<queue, typing>>

\* Mutant of Reloaded: of two documents of the file one is watched.
ReloadedFirst(d) ==
    IF doc[d].open /\ ~doc[d].noted /\ ~doc[d].modified /\ d = CHOOSE x \in Opened : TRUE
    THEN Loaded(disk) ELSE doc[d]

\* A document without unsaved edits is loaded again if the stamp has changed.
Reloaded(d) ==
    IF doc[d].open /\ ~doc[d].noted /\ ~doc[d].modified THEN Loaded(disk) ELSE doc[d]

PollFileWatcher ==
    /\ doc' = [d \in Documents |-> Reloaded(d)]
    /\ UNCHANGED <<disk, queue, typing, made, told>>

-----------------------------------------------------------------------------
(* Clients of the control socket *)

\* Mutant of SaveQueueIdle: saves may be waiting.
AnyQueue == TRUE

SaveQueueIdle == queue = <<>>

\* The document a request is about, if the file is open at most once.
Single(d) == Opened \subseteq {d}

\* Saves the document: written beside the file and renamed, or not at all.  The
\* hashes of the document and of the file that a client sends are those of the
\* moment; with others its request is refused and nothing changes, as it is
\* below and when it only inspects.
SaveInspected(d) ==
    /\ SaveQueueIdle
    /\ Single(d)
    /\ doc[d].open
    /\ disk' = doc[d].text
    /\ doc' \in Stamped([Written(d) EXCEPT ![d].modified = FALSE])
    /\ told' = TRUE
    /\ UNCHANGED <<queue, typing, made>>

\* Applies a patch to the text on disk, shows the result in the document,
\* opening it if need be, saves it through the queue and reads it back.
ApplyPatch(d) ==
    /\ SaveQueueIdle
    /\ Single(d)
    /\ ~doc[d].modified
    /\ CanMake
    /\ made' = New
    /\ LET base == IF doc[d].open THEN doc ELSE [doc EXCEPT ![d] = Loaded(disk)]
           patched == [base EXCEPT ![d].text = New]
       IN \/ /\ disk' = New
             /\ doc' \in Stamped([patched EXCEPT ![d].failed = FALSE])
             /\ told' = TRUE
          \/ /\ doc' = [patched EXCEPT ![d].modified = TRUE]
             /\ UNCHANGED <<disk, told>>
    /\ UNCHANGED <<queue, typing>>

\* Typing starts on a file the client knows, open once and without edits; if a
\* range is selected it is removed.
BeginTyping(d) ==
    /\ typing.phase = "idle"
    /\ SaveQueueIdle
    /\ Single(d)
    /\ ~doc[d].modified
    /\ doc[d].open => doc[d].text = disk
    /\ LET shown == IF doc[d].open THEN doc[d] ELSE Loaded(disk)
       IN \/ /\ doc' = [doc EXCEPT ![d] = shown]
             /\ typing' = [phase |-> "inserting", doc |-> d, text |-> shown.text]
             /\ UNCHANGED made
          \/ /\ CanMake
             /\ doc' = [doc EXCEPT ![d] = [shown EXCEPT !.text = New, !.modified = TRUE]]
             /\ typing' = [phase |-> "inserting", doc |-> d, text |-> New]
             /\ made' = New
    /\ UNCHANGED <<disk, queue, told>>

\* The document shows what was typed, and nothing else.
Intact == doc[typing.doc].text = typing.text

TypeCharacter ==
    /\ typing.phase = "inserting"
    /\ CanMake
    /\ doc' = Changed(typing.doc)
    /\ made' = New
    /\ typing' = [typing EXCEPT !.text = IF Intact THEN New ELSE @]
    /\ UNCHANGED <<disk, queue, told>>

\* The last character: the text is compared with what the client expects and
\* saved, or the typing fails and leaves it unsaved.
TypeLast ==
    /\ typing.phase = "inserting"
    /\ CanMake
    /\ made' = New
    /\ IF Intact
       THEN /\ Len(queue) < MaxQueue
            /\ doc' = [Changed(typing.doc) EXCEPT ![typing.doc].modified = FALSE]
            /\ queue' = Append(queue, Snapshot(typing.doc, New))
            /\ typing' = [typing EXCEPT !.phase = "saving", !.text = New]
       ELSE /\ doc' = Changed(typing.doc)
            /\ typing' = Idle
            /\ UNCHANGED queue
    /\ UNCHANGED <<disk, told>>

\* Success is told when the queue is empty and the file reads as expected.
FinishTyping ==
    /\ typing.phase = "saving"
    /\ SaveQueueIdle
    /\ typing' = Idle
    /\ told' = (told \/ disk = typing.text)
    /\ UNCHANGED <<disk, doc, queue, made>>

\* The client gave up.
AbandonTyping ==
    /\ typing.phase # "idle"
    /\ typing' = Idle
    /\ UNCHANGED <<disk, doc, queue, made, told>>

-----------------------------------------------------------------------------
RequestFor(d) == SaveInspected(d) \/ ApplyPatch(d) \/ BeginTyping(d)

User(d) == Open(d) \/ Close(d) \/ Edit(d) \/ QueueSave(d)

DocumentNext ==
    \/ \E d \in Documents : User(d) \/ RequestFor(d)
    \/ TypeCharacter \/ TypeLast \/ FinishTyping \/ AbandonTyping
    \/ TickSaveQueue
    \/ PollFileWatcher
    \/ ChangeOutside

\* Every frame ticks the queue, and a timer polls the watcher.
DocumentSpec ==
    /\ DocumentInit
    /\ [][DocumentNext]_documentVars
    /\ WF_documentVars(TickSaveQueue) /\ WF_documentVars(PollFileWatcher)

-----------------------------------------------------------------------------
(* Properties *)

\* What a client was told is saved is only overwritten by saves asked for after
\* it was told: none from before is still waiting (ide_ipc_document_ui.c:47,
\* ide_ipc_edit_apply.c:559, ide_ipc_typing_edit.c:128).
ConfirmedTextStays ==
    [][queue # <<>> /\ queue' = Tail(queue) /\ told /\ disk' # disk
        => Head(queue).knew]_documentVars

\* Once no save is waiting for good, a document without unsaved edits shows
\* what is on disk, however saves, reloads, clients and other programs came in
\* between.  The exception is a save that was not written: the document counts
\* as unmodified all the same (save_queue.c:97).
DocumentsConverge ==
    <>[](queue = <<>>) =>
        <>[](\A d \in Opened : doc[d].modified \/ doc[d].failed \/ doc[d].text = disk)
=============================================================================
