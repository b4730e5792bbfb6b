--------------------------- MODULE Notifications ---------------------------
(***************************************************************************)
(* Notifications for a user, a group or both                               *)
(* (src/application/notifications/notifications_service.ts).  Deleting     *)
(* several, or clearing one's own, is one repository call after another,   *)
(* each of which may fail; the members of a group delete the same          *)
(* notifications.                                                          *)
(***************************************************************************)
EXTENDS Naturals, Sequences, SequencesExt

CONSTANTS
    Notes,       \* the notifications sent in a behaviour
    TargetUser, TargetGroup,   \* whom each is for; Nobody for none
    Readers,     \* users
    GroupsOf,    \* reader -> groups
    Deleters,     \* requests run concurrently
    Lists,       \* the lists of notifications, not empty, a request to delete carries
    Nobody, NoDeletion

ASSUME NotesAssumption == \A uuids \in Lists : uuids \in Seq(Notes)

VARIABLES
    kept,        \* the notifications on record
    sent,        \* those that have been sent
    deletion,    \* client -> the deletion it runs, or NoDeletion
    outcome      \* client -> what its last deletion came to, or NoDeletion

noteVars == <<kept, sent, deletion, outcome>>

\* list, and what delete asks for.
Accessible(reader, note) == TargetUser[note] = reader \/ TargetGroup[note] \in GroupsOf[reader]
Direct(reader, note) == TargetUser[note] = reader

\* critical, info, insight: to at least one target.
Send(note) ==
    /\ note \notin sent
    /\ TargetUser[note] # Nobody \/ TargetGroup[note] # Nobody
    /\ sent' = sent \cup {note}
    /\ kept' = kept \cup {note}
    /\ UNCHANGED <<deletion, outcome>>

Start(c, reader, op, uuids) ==
    /\ deletion[c] = NoDeletion
    /\ deletion' = [deletion EXCEPT ![c] =
         [reader |-> reader, op |-> op, asked |-> uuids, left |-> uuids, found |-> FALSE,
          met |-> FALSE, unread |-> {}]]
    /\ outcome' = [outcome EXCEPT ![c] = NoDeletion]
    /\ UNCHANGED <<kept, sent>>
\* Whoever asks names notifications that exist or did.
Delete(c, reader) == \E uuids \in Lists : ToSet(uuids) \subseteq sent /\ Start(c, reader, "delete", uuids)
\* clearAll lists the user's own; the repository says in which order.
ClearAll(c, reader) ==
    \E uuids \in SetToSeqs({note \in kept : Direct(reader, note)}) : Start(c, reader, "clearAll", uuids)

\* The answer, when the deletions under way are those of "running"; broke says
\* that the repository failed.
End(c, running, result, broke) ==
    /\ outcome' = [outcome EXCEPT ![c] =
         [result |-> result, asked |-> deletion[c].asked, reader |-> deletion[c].reader,
          met |-> deletion[c].met, unread |-> deletion[c].unread, broke |-> broke]]
    /\ deletion' = [running EXCEPT ![c] = NoDeletion]

\* The notification before a deletion is to be read.
Reads(c) ==
    LET d == deletion[c] IN d # NoDeletion /\ d.op = "delete" /\ d.left # <<>> /\ ~d.found
\* One that is gone is skipped, and one whose reading fails as well.
Skip(c) ==
    LET note == Head(deletion[c].left) IN
    \/ /\ note \notin kept
       /\ deletion' = [deletion EXCEPT ![c].left = Tail(@)]
    \/ deletion' = [deletion EXCEPT ![c].left = Tail(@), ![c].unread = @ \cup {note}]
\* Variant of ReadNext: those for a group are for nobody to delete.
ReadNextOwn(c) ==
    LET note == Head(deletion[c].left) IN
    /\ Reads(c)
    /\ \/ Direct(deletion[c].reader, note) /\ deletion' = [deletion EXCEPT ![c].found = TRUE] /\ UNCHANGED outcome
       \/ ~Direct(deletion[c].reader, note) /\ End(c, deletion, "refused", FALSE)
    /\ UNCHANGED <<kept, sent>>
\* ... and one for somebody else ends the call.
ReadNext(c) ==
    LET note == Head(deletion[c].left)
        reader == deletion[c].reader
    IN
    /\ Reads(c)
    /\ \/ Skip(c) /\ UNCHANGED outcome
       \/ /\ note \in kept /\ Accessible(reader, note)
          /\ deletion' = [deletion EXCEPT ![c].found = TRUE] /\ UNCHANGED outcome
       \/ note \in kept /\ ~Accessible(reader, note) /\ End(c, deletion, "refused", FALSE)
    /\ UNCHANGED <<kept, sent>>

\* Other deletions that have the notification before them meet this one.
Met(c, note) == [d \in Deleters |->
    IF d # c /\ deletion[d] # NoDeletion /\ note \in ToSet(deletion[d].left)
    THEN [deletion[d] EXCEPT !.met = TRUE] ELSE deletion[d]]

\* ... and deleted; a repository that no longer has it, or that fails, whether
\* it had deleted it or not, fails the call.
DeleteFound(c) ==
    LET d == deletion[c] note == Head(d.left) IN
    /\ d # NoDeletion /\ d.left # <<>> /\ (d.op = "delete" => d.found)
    /\ \/ /\ note \in kept /\ kept' = kept \ {note}
          /\ \/ /\ deletion' = [Met(c, note) EXCEPT ![c].left = Tail(@), ![c].found = FALSE]
                /\ UNCHANGED outcome
             \/ End(c, Met(c, note), "failed", TRUE)
       \/ UNCHANGED kept /\ \E broke \in BOOLEAN :
            (note \in kept => broke) /\ End(c, deletion, "failed", broke)
    /\ UNCHANGED sent

AllDeleted(c) ==
    /\ deletion[c] # NoDeletion /\ deletion[c].left = <<>>
    /\ End(c, deletion, "done", FALSE)
    /\ UNCHANGED <<kept, sent>>
NotesInit ==
    /\ kept = {} /\ sent = {}
    /\ deletion = [c \in Deleters |-> NoDeletion]
    /\ outcome = [c \in Deleters |-> NoDeletion]

NotesNext ==
    \/ \E note \in Notes : Send(note)
    \/ \E c \in Deleters :
         \/ \E reader \in Readers : Delete(c, reader) \/ ClearAll(c, reader)
         \/ ReadNext(c) \/ DeleteFound(c) \/ AllDeleted(c)

NotesSpec == NotesInit /\ [][NotesNext]_noteVars

----------------------------------------------------------------------------

\* A deletion that reports success has left none of its notifications but
\* those it could not read, which it skips as if they were gone
\* (NotificationsService.delete); it fails only if another removed one of them
\* while it ran or the repository failed; and it is refused only over one that
\* is not the reader's, so that clearing one's own never is.
EndsForAReason ==
    \A c \in Deleters : outcome[c] # NoDeletion =>
      /\ outcome[c].result = "done" => ToSet(outcome[c].asked) \cap kept \subseteq outcome[c].unread
      /\ outcome[c].result = "failed" => outcome[c].met \/ outcome[c].broke
      /\ outcome[c].result = "refused" =>
           \E note \in ToSet(outcome[c].asked) : ~Accessible(outcome[c].reader, note)

=============================================================================
