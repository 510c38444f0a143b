------------------------------ MODULE TicketNotes ------------------------------
(***************************************************************************)
(* The notes of one ticket on the tickets page (TicketNotesComposer of     *)
(* pages/OperationsPage.tsx, useTicketNotes and                            *)
(* useCreateTicketNoteMutation): a popup that lists the notes while it is  *)
(* open and adds one, which the list shows before the server has it.       *)
(* Nothing fetches the notes at an interval: a list that is wrong stays.   *)
(*                                                                         *)
(* A note is its place in the order of created_at, which is taken with the *)
(* insert; -k is the optimistic note of the k-th post ("temp-...").  The   *)
(* server lists no notes at all as {"data": null}, which the schema of the *)
(* answer refuses (lib/schemas.ts:108): that fetch fails.                  *)
(*                                                                         *)
(* TicketStatus is the same page; the names here differ from the names     *)
(* there, so that one module can extend both.                              *)
(***************************************************************************)
EXTENDS Integers, QueryCache, SequencesExt

CONSTANTS
  MaxPosts,      \* bound: notes that the operator submits
  MaxOtherNotes, \* bound: notes of others
  MaxRows,       \* bound: times the row of the ticket is built
  MaxLost        \* bound: requests or answers that are lost

ASSUME NotesBoundsAssumption ==
  MaxPosts \in Nat /\ MaxOtherNotes \in Nat /\ MaxRows \in Nat /\ MaxLost \in Nat

VARIABLES
  stored,   \* the notes of the ticket in the database are 1..stored
  notes,    \* the cache entry ["ticket-notes", id]
  posts,    \* the notes submitted so far
  open,     \* the page has the ticket in openNotesTicketId
  onScreen, \* its row, and so its TicketNotesComposer, is mounted
  mount,    \* which mount of the row this is
  draft,    \* the composer holds text
  noted, lost

popup == <<open, onScreen, mount>>
notesBounds == <<noted, lost>>
notesVars == <<stored, notes, posts, popup, draft, notesBounds>>

NoteLists == Seq(Int)
ASSUME NoNotesAssumption == NoData \notin NoteLists

\* before: previousNotes.  watched (history): the popup has been open since.
Post == [at : {"sent", "saved", "failed", "kept", "dropped"}, id : Nat,
         before : NoteLists \cup {NoData}, row : Nat, watched : BOOLEAN]

Stored == [n \in 1..stored |-> n]
Watching == onScreen /\ open
PendingPosts == {k \in DOMAIN posts : posts[k].at \in {"sent", "saved", "failed"}}

NotesInit ==
  /\ stored \in 0..1
  /\ notes = Empty
  /\ posts = <<>>
  /\ open = FALSE /\ onScreen = FALSE /\ mount = 0
  /\ draft = FALSE
  /\ noted = 0 /\ lost = 0

-----------------------------------------------------------------------------
(* The row and its popup *)

\* The row is shown, on a page built anew or reached from another queue, in
\* which case the page still has the ticket whose notes were open.
RowComes(aged) ==
  /\ ~onScreen /\ mount < MaxRows
  /\ onScreen' = TRUE /\ mount' = mount + 1 /\ draft' = FALSE
  /\ notes' = IF open THEN Mount(notes, aged) ELSE notes
  /\ UNCHANGED <<stored, posts, open, notesBounds>>

Unwatch == posts' = [k \in DOMAIN posts |-> [posts[k] EXCEPT !.watched = FALSE]]

RowGoes(pageStays) ==
  /\ onScreen
  /\ onScreen' = FALSE /\ draft' = FALSE
  /\ open' = (open /\ pageStays)
  /\ Unwatch
  /\ UNCHANGED <<stored, notes, mount, notesBounds>>

\* onToggle: the button, Cancel, Escape, a click outside, or the button scrolled
\* out of sight.  The draft stays, and so does a fetch under way.
OpenNotes(aged) ==
  /\ onScreen /\ ~open
  /\ open' = TRUE
  /\ notes' = Mount(notes, aged)
  /\ UNCHANGED <<stored, posts, onScreen, mount, draft, notesBounds>>

CloseNotes ==
  /\ Watching
  /\ open' = FALSE
  /\ Unwatch
  /\ UNCHANGED <<stored, notes, onScreen, mount, draft, notesBounds>>

TypeDraft ==
  /\ Watching /\ ~draft
  /\ draft' = TRUE
  /\ UNCHANGED <<stored, notes, posts, popup, notesBounds>>

-----------------------------------------------------------------------------
(* The list *)

ServerListsNotes ==
  /\ notes.fetch = Asked
  /\ notes' = Answer(notes, Stored)
  /\ UNCHANGED <<stored, posts, popup, draft, notesBounds>>

NotesArrive ==
  /\ notes.fetch.at = "answered" /\ notes.fetch.data # <<>>
  /\ notes' = Arrive(notes)
  /\ UNCHANGED <<stored, posts, popup, draft, notesBounds>>

\* {"data": null}: the fetch is tried once more, then it has failed.
NotesRefused ==
  /\ notes.fetch.at = "answered" /\ notes.fetch.data = <<>>
  /\ notes' \in {Ask(notes), GiveUp(notes)}
  /\ UNCHANGED <<stored, posts, popup, draft, notesBounds>>

NotesLost ==
  /\ notes.fetch # Idle /\ lost < MaxLost
  /\ lost' = lost + 1
  /\ notes' = GiveUp(notes)
  /\ UNCHANGED <<stored, posts, popup, draft, noted>>

-----------------------------------------------------------------------------
(* handleSubmit, and useCreateTicketNoteMutation *)

IsPosting == posts # <<>> /\ Last(posts).row = mount /\ Len(posts) \in PendingPosts

\* onMutate: the fetch under way is abandoned, and the list ends with the note.
Submit ==
  /\ Watching /\ draft /\ ~IsPosting
  /\ Len(posts) < MaxPosts
  /\ posts' = Append(posts, [at |-> "sent", id |-> 0, before |-> notes.data,
                             row |-> mount, watched |-> TRUE])
  /\ LET current == IF notes.data = NoData THEN <<>> ELSE notes.data
     IN  notes' = SetQueryData(CancelQueries(notes), Append(current, -(Len(posts) + 1)))
  /\ UNCHANGED <<stored, popup, draft, notesBounds>>

\* CreateTicketNote
ServerSavesNote(k) ==
  /\ posts[k].at = "sent"
  /\ stored' = stored + 1
  /\ posts' = [posts EXCEPT ![k].at = "saved", ![k].id = stored + 1]
  /\ UNCHANGED <<notes, popup, draft, notesBounds>>

PostLost(k) ==
  /\ posts[k].at \in {"sent", "saved"} /\ lost < MaxLost
  /\ lost' = lost + 1
  /\ posts' = [posts EXCEPT ![k].at = "failed"]
  /\ UNCHANGED <<stored, notes, popup, draft, noted>>

OtherNotes ==
  /\ noted < MaxOtherNotes
  /\ noted' = noted + 1 /\ stored' = stored + 1
  /\ UNCHANGED <<notes, posts, popup, draft, lost>>

OnPostSettledWithout(q) == q  \* mutant: onSettled does nothing
OnPostSettledJoining(q) == Mount(InvalidateQueries(q, FALSE), TRUE)  \* mutant: a fetch under way is joined
OnPostSettled(q) == InvalidateQueries(q, Watching)

\* The notes of a list that the server gave it: those without a "temp-" id.
RealNotes(list) ==
  LET real[i \in 0..Len(list)] ==
        IF i = 0 THEN <<>>
        ELSE IF list[i] > 0 THEN Append(real[i - 1], list[i]) ELSE real[i - 1]
  IN  real[Len(list)]

\* onSuccess: every optimistic note goes, the new one comes last, though a list
\* may have brought it already; the composer that still watches it is emptied.
OnPostSuccess(k) ==
  /\ posts[k].at = "saved"
  /\ LET current == IF notes.data = NoData THEN <<>> ELSE notes.data
     IN  notes' = OnPostSettled(SetQueryData(notes, Append(RealNotes(current), posts[k].id)))
  /\ posts' = [posts EXCEPT ![k].at = "kept"]
  /\ draft' = (draft /\ ~(onScreen /\ posts[k].row = mount /\ k = Len(posts)))
  /\ UNCHANGED <<stored, popup, notesBounds>>

\* onError: previousNotes is put back; undefined leaves the optimistic note.
OnPostError(k) ==
  /\ posts[k].at = "failed"
  /\ notes' = OnPostSettled(SetQueryData(notes, posts[k].before))
  /\ posts' = [posts EXCEPT ![k].at = "dropped"]
  /\ UNCHANGED <<stored, popup, draft, notesBounds>>

-----------------------------------------------------------------------------

NotesNext ==
  \/ \E b \in BOOLEAN : RowComes(b) \/ RowGoes(b) \/ OpenNotes(b)
  \/ CloseNotes \/ TypeDraft \/ Submit
  \/ ServerListsNotes \/ NotesArrive \/ NotesRefused \/ NotesLost \/ OtherNotes
  \/ \E k \in DOMAIN posts : ServerSavesNote(k) \/ PostLost(k) \/ OnPostSuccess(k) \/ OnPostError(k)

NotesSpec == NotesInit /\ [][NotesNext]_notesVars

-----------------------------------------------------------------------------
(* Properties *)

NotesTypeOK ==
  /\ stored \in Nat
  /\ notes \in Entry(NoteLists)
  /\ posts \in Seq(Post)
  /\ open \in BOOLEAN /\ onScreen \in BOOLEAN /\ mount \in 0..MaxRows /\ draft \in BOOLEAN
  /\ noted \in 0..MaxOtherNotes /\ lost \in 0..MaxLost

\* The popup lists the notes, and waits for nothing.
NotesAtRest ==
  /\ Watching /\ PendingPosts = {} /\ notes.fetch = Idle
  /\ notes.data # NoData /\ ~notes.failed /\ ~notes.invalid

\* The list of an open popup at rest is a list that the database really had: no
\* optimistic note stays, none is there twice or out of order, however posts
\* failed, overlapped or were overtaken (useDashboardData.ts:154-184).
NoPhantomNotes == NotesAtRest => \E n \in 1..stored : notes.data = [i \in 1..n |-> i]

\* A note that was saved while its popup stayed open is in the list at rest: no
\* older list and no failure of another post takes it away.
WatchedNotesShown ==
  NotesAtRest => \A k \in DOMAIN posts :
    posts[k].at = "kept" /\ posts[k].watched => Contains(notes.data, posts[k].id)
===============================================================================
