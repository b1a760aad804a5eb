---------------------------- MODULE DocumentSave ----------------------------
(***************************************************************************)
(* One open document: the editor tab with its autosave, the PUT and GET    *)
(* handlers of the server, the poll for changes on disk, and the two       *)
(* barriers that hold saving back (a file operation, a history commit).    *)
(*                                                                         *)
(* A save is one promise that loops until the latest revision is stored.   *)
(* What the promise does between two answers runs in microtasks, so an     *)
(* answer, the check of the loop and the next request are one step here;   *)
(* edits, timers, clicks, polls and the server interleave between steps.   *)
(* Other programs write the file at any time; answers and reads get lost.  *)
(***************************************************************************)
EXTENDS Naturals, TLC

CONSTANTS
    Texts,          \* the texts a document may have
    Opened,         \* the one the tab was opened with
    None,           \* null
    MaxEdits,       \* bound: revisions up to which the user goes on typing
    MaxOutside,     \* bound: writes by other programs
    MaxFaults       \* bound: failed polls, failed metadata updates, lost answers

ASSUME TextAssumption == Opened \in Texts /\ None \notin Texts \union Nat

VARIABLES
    disk,           \* the text of the file
    stamp,          \* its mtime: every write of the file has a new one
    author,         \* history: who wrote disk: "tab", "other", "lost" (a save whose
                    \* answer was lost, or a rollback of a text that a read under way
                    \* has seen), or "read" (one of these two, and the tab knows)
    tab,            \* the editor tab
    timer,          \* whether an autosave is scheduled
    req,            \* the PUT the save promise waits for
    late,           \* a PUT nobody waits for any more, still on the server
    read,           \* the disk read under way, of a poll or of a click
    lock,           \* lifecycleLocks: "free", "waiting" for the promise, "held"
    barrier,        \* commitBarriers: the revision and text a history commit wants
    missed,         \* history: a save returned the mtime of another program's write, or a
                    \* poll loaded a tab and left the text of an open conflict in it
    outside,        \* how many writes other programs made
    faults          \* how many failures there were

vars == <<disk, stamp, author, tab, timer, req, late, read, lock, barrier,
          missed, outside, faults>>
server == <<disk, stamp, author, missed>>

Status == {"idle", "dirty", "saving", "saved", "error", "offline", "external"}
Failed == {"error", "offline"}

Tabs == [raw : Texts, base : Texts, rev : Nat, saved : Nat, saving : Nat \union {None},
         status : Status, external : Texts \union {None},
         kind : {"modified", "unreadable", None}, mtime : Nat]

PutRequests == [rev : Nat, text : Texts, base : Texts, raw : Texts \union {None}, mtime : Nat,
                at : {"sent", "written", "ok", "conflict", "failed"}]

Barriers == [rev : Nat, raw : Texts, granted : BOOLEAN, early : BOOLEAN]

ASSUME RecordsAssumption == None \notin PutRequests \union Barriers

(***************************************************************************)
(* The tab.                                                                *)
(***************************************************************************)
Unresolved(t) == t.status = "external" \/ t.external # None

\* What the browser asks about before the page is left.
HasUnsaved(t) ==
    \/ t.raw # t.base \/ t.rev # t.saved \/ t.saving # None
    \/ Unresolved(t) \/ t.status \in Failed

\* The status of a tab that has no request and no conflict.
AtRest(t) == IF t.rev = t.saved THEN "idle" ELSE "dirty"

\* scheduleSave: refused while a barrier is up or a conflict is open.
Scheduled(t, held, bar) ==
    IF held = "free" /\ bar = None /\ ~Unresolved(t) THEN TRUE ELSE timer

(***************************************************************************)
(* The save promise.                                                       *)
(***************************************************************************)
\* What saveLatest stores: under a history barrier the text of the barrier.
Wanted(t, bar) ==
    IF bar = None THEN [rev |-> t.rev, text |-> t.raw]
                  ELSE [rev |-> bar.rev, text |-> bar.raw]

NothingToSend(t, bar) ==
    IF bar = None THEN t.rev = t.saved ELSE t.saved >= bar.rev

Request(t, bar) ==
    [rev |-> Wanted(t, bar).rev, text |-> Wanted(t, bar).text, base |-> t.base,
     at |-> "sent", raw |-> None, mtime |-> 0]

\* saveLatest up to its await: the tab and the request afterwards.
SaveLatest(t, bar) ==
    IF NothingToSend(t, bar)
    THEN [tab |-> [t EXCEPT !.status = AtRest(t)], req |-> None]
    ELSE [tab |-> [t EXCEPT !.saving = Wanted(t, bar).rev, !.status = "saving"],
          req |-> Request(t, bar)]

\* doSave: refused under a lock or a conflict, joined while a promise runs.
DoSave(t, held, bar) ==
    IF held # "free" \/ Unresolved(t) \/ req # None
    THEN [tab |-> t, req |-> req]
    ELSE SaveLatest(t, bar)

\* When the loop of the promise stops after an answer.
LoopEnds(t, bar) ==
    \/ bar # None /\ t.saved >= bar.rev
    \/ lock # "free" \/ Unresolved(t) \/ t.status \in Failed
    \/ t.rev = t.saved

\* An answer that counts whatever the editor holds now as stored.
StoredAll(t) ==
    [t EXCEPT !.base = t.raw, !.saved = t.rev, !.saving = None,
              !.status = "saved", !.mtime = req.mtime, !.kind = None]

\* The tab after the answer of the server.
Stored(t) ==
    IF Unresolved(t)
    THEN [t EXCEPT !.base = req.text, !.saved = req.rev, !.saving = None,
                   !.status = "external"]
    ELSE [t EXCEPT !.base = req.text, !.saved = req.rev, !.saving = None,
                   !.status = IF t.rev = req.rev THEN "saved" ELSE "dirty",
                   !.mtime = req.mtime, !.kind = None]

Refused(t, raw, mtime) ==
    [t EXCEPT !.external = raw, !.kind = "modified", !.mtime = mtime,
              !.status = "external", !.saving = None]

Answered(t) ==
    CASE req.at = "ok"       -> Stored(t)
      [] req.at = "conflict" -> Refused(t, req.raw, req.mtime)
      [] req.at = "failed"   -> [t EXCEPT !.status = "error", !.saving = None]

\* prepareHistoryCommit gives up on a barrier that was not stored.
Granted(t, bar) ==
    IF t.saved < bar.rev \/ t.status \in Failed \union {"external"}
    THEN None ELSE [bar EXCEPT !.granted = TRUE]

\* The rest of the promise after an answer: the loop, and who waited for its end.
Continue(t) ==
    LET s == IF LoopEnds(t, barrier) THEN [tab |-> t, req |-> None] ELSE SaveLatest(t, barrier)
    IN /\ tab' = s.tab /\ req' = s.req
       /\ lock' = IF s.req = None /\ lock = "waiting" THEN "held" ELSE lock
       /\ barrier' = IF s.req = None /\ barrier # None /\ ~barrier.granted
                     THEN Granted(s.tab, barrier) ELSE barrier

\* Keeping the local text of a tab whose revision counts as stored: the tab holds
\* a text that is not on disk, and saveLatest finds nothing to send.
KeptUnsent(t) == t.rev = t.saved /\ t.raw # t.base

\* History: once its base is the text on disk the tab has been told of it, and no
\* read under way is about to tell it of another.
Told(t) ==
    IF /\ t.base = disk /\ ~Unresolved(t) /\ ~KeptUnsent(t) /\ author \in {"other", "lost"}
       /\ read # None => read.text \in {None, disk}
    THEN "read" ELSE author

(***************************************************************************)
(* The editor.                                                             *)
(***************************************************************************)
NewTab(text) ==
    [raw |-> text, base |-> text, rev |-> 0, saved |-> 0, saving |-> None,
     status |-> "idle", external |-> None, kind |-> None, mtime |-> 0]

Init ==
    /\ disk = Opened
    /\ stamp = 0 /\ author = "tab" /\ missed = FALSE
    /\ tab = NewTab(disk)
    /\ timer = FALSE /\ req = None /\ late = None /\ read = None
    /\ lock = "free" /\ barrier = None
    /\ outside = 0 /\ faults = 0

\* onEditorChange. Typing the stored text again makes the tab clean.
Edited(t, text) ==
    LET e == [t EXCEPT !.raw = text, !.rev = @ + 1]
        s == IF text = t.base THEN e.rev ELSE e.saved
    IN IF Unresolved(t) THEN [e EXCEPT !.status = "external"]
       ELSE [e EXCEPT !.saved = s, !.status = IF s = e.rev THEN "idle" ELSE "dirty"]

Edit ==
    /\ tab.rev < MaxEdits
    /\ \E text \in Texts \ {tab.raw} : tab' = Edited(tab, text)
    /\ timer' = Scheduled(tab', lock, barrier)
    /\ UNCHANGED <<server, req, late, read, lock, barrier, outside, faults>>

\* doSave, from the timer, from the user, and when the browser is online again.
Save(t) ==
    LET s == DoSave(t, lock, barrier) IN tab' = s.tab /\ req' = s.req

Fire ==
    /\ timer
    /\ timer' = FALSE
    /\ Save(tab)
    /\ UNCHANGED <<server, late, read, lock, barrier, outside, faults>>

SaveNow ==
    /\ timer' = FALSE
    /\ Save(tab)
    /\ UNCHANGED <<server, late, read, lock, barrier, outside, faults>>

Online ==
    /\ tab.status = "offline"
    /\ Save(tab)
    /\ UNCHANGED <<server, timer, late, read, lock, barrier, outside, faults>>

\* The server's answer reaches the tab.
Answer ==
    /\ req # None /\ req.at \in {"ok", "conflict", "failed"}
    /\ LET t == Answered(tab) IN Continue(t) /\ author' = Told(t)
    /\ UNCHANGED <<disk, stamp, missed, timer, late, read, outside, faults>>

\* The request fails on the way: it may not have started, it may be done, or the
\* server goes on with it. With navigator.onLine false the tab is offline.
LoseAnswer ==
    /\ req # None /\ faults < MaxFaults
    /\ \E s \in Failed : Continue([tab EXCEPT !.status = s, !.saving = None])
    /\ \/ late' = late
       \/ late = None /\ req.at \in {"sent", "written"} /\ late' = req
    /\ req.at = "written" => late' = req
    /\ author' = IF disk # tab.base /\ author \in {"tab", "read"} THEN "lost" ELSE author
    /\ faults' = faults + 1
    /\ UNCHANGED <<disk, stamp, missed, timer, read, outside>>

(***************************************************************************)
(* The PUT handler, under the document's write lock.                       *)
(***************************************************************************)
LockFree == (req # None => req.at # "written") /\ (late # None => late.at # "written")

\* The answer to r for the text on disk, or None when r is to be written.
Reply(r) ==
    IF disk = r.text THEN [r EXCEPT !.at = "ok", !.mtime = stamp]
    ELSE IF disk # r.base THEN [r EXCEPT !.at = "conflict", !.raw = disk, !.mtime = stamp]
    ELSE None

Put(r, who) ==
    IF Reply(r) # None THEN UNCHANGED server
    ELSE /\ disk' = r.text /\ stamp' = stamp + 1 /\ author' = who
         /\ UNCHANGED missed

After(r) == IF Reply(r) # None THEN Reply(r) ELSE [r EXCEPT !.at = "written"]

PutRequest ==
    /\ req # None /\ req.at = "sent" /\ LockFree
    /\ Put(req, "tab") /\ req' = After(req)
    /\ UNCHANGED <<tab, timer, late, read, lock, barrier, outside, faults>>

PutLate ==
    /\ late # None /\ late.at = "sent" /\ LockFree
    /\ Put(late, "lost")
    /\ late' = IF After(late).at = "written" THEN After(late) ELSE None
    /\ UNCHANGED <<tab, timer, req, read, lock, barrier, outside, faults>>

\* fs.stat and the metadata row, after the text was committed.
Record ==
    \/ /\ req # None /\ req.at = "written"
       /\ req' = [req EXCEPT !.at = "ok", !.mtime = stamp]
       /\ missed' = (missed \/ disk # req.text)
       /\ UNCHANGED late
    \/ /\ late # None /\ late.at = "written"
       /\ late' = None
       /\ UNCHANGED <<req, missed>>

RecordMetadata ==
    /\ Record
    /\ UNCHANGED <<disk, stamp, author, tab, timer, read, lock, barrier, outside, faults>>

\* A rollback that writes the previous text whatever is on disk.
PutBackBlindly(r, who) == disk' = r.base /\ stamp' = stamp + 1 /\ author' = who

\* atomicReplaceTextIfUnchanged: the previous text comes back unless another
\* program has already replaced the one this save wrote.
PutBack(r, who) ==
    IF disk = r.text
    THEN /\ disk' = r.base /\ stamp' = stamp + 1
         /\ author' = IF read # None /\ read.text \notin {None, r.base} THEN "lost" ELSE who
    ELSE UNCHANGED <<disk, stamp, author>>

MetadataFails ==
    /\ faults < MaxFaults /\ faults' = faults + 1
    /\ \/ /\ req # None /\ req.at = "written"
          /\ PutBack(req, "tab")
          /\ req' = [req EXCEPT !.at = "failed"]
          /\ UNCHANGED late
       \/ /\ late # None /\ late.at = "written"
          /\ PutBack(late, "lost")
          /\ late' = None
          /\ UNCHANGED req
    /\ UNCHANGED <<missed, tab, timer, read, lock, barrier, outside>>

\* Another program saves the file.
Outside ==
    /\ outside < MaxOutside /\ outside' = outside + 1
    /\ disk' \in Texts \ {disk} /\ stamp' = stamp + 1 /\ author' = "other"
    /\ UNCHANGED <<missed, tab, timer, req, late, read, lock, barrier, faults>>

(***************************************************************************)
(* Changes on disk: the poll and the user's choice.                        *)
(***************************************************************************)
Snapshot(t) == <<t.rev, t.saved, t.base, t.mtime, t.status, t.external>>

\* getFileStates. A poll leaves a document alone while a click is reading it.
PollAsk ==
    /\ read = None
    /\ read' = [for |-> "poll", at |-> "asked", seen |-> stamp, snap |-> None,
                mtime |-> 0, text |-> None]
    /\ UNCHANGED <<server, tab, timer, req, late, lock, barrier, outside, faults>>

\* A poll that leaves a tab alone whose last save failed.
PollLookUnlessFailed ==
    /\ read # None /\ read.at = "asked"
    /\ read' = IF tab.saving # None \/ tab.status \in Failed
                  \/ (tab.kind # "unreadable" /\ read.seen = tab.mtime)
               THEN None
               ELSE [read EXCEPT !.at = "get", !.seen = 0, !.snap = Snapshot(tab)]
    /\ UNCHANGED <<server, tab, timer, req, late, lock, barrier, outside, faults>>

PollLook ==
    /\ read # None /\ read.at = "asked"
    /\ read' = IF tab.saving # None \/ (tab.kind # "unreadable" /\ read.seen = tab.mtime)
               THEN None
               ELSE [read EXCEPT !.at = "get", !.seen = 0, !.snap = Snapshot(tab)]
    /\ UNCHANGED <<server, tab, timer, req, late, lock, barrier, outside, faults>>

\* GET: the file is stated, then read.
GetStat ==
    /\ read # None /\ read.at = "get"
    /\ read' = [read EXCEPT !.at = "stat", !.mtime = stamp]
    /\ UNCHANGED <<server, tab, timer, req, late, lock, barrier, outside, faults>>

GetRead ==
    /\ read # None /\ read.at = "stat"
    /\ read' = [read EXCEPT !.at = "done", !.text = disk]
    /\ UNCHANGED <<server, tab, timer, req, late, lock, barrier, outside, faults>>

\* Whether the answer of a poll still speaks of the tab it was asked for.
PollCurrent ==
    /\ tab.saving = None /\ Snapshot(tab) = read.snap

\* A poll that calls a tab clean as soon as its revision is stored.
DirtyByRevision(t) == t.rev # t.saved

Dirty(t) == t.raw # t.base \/ t.rev # t.saved

Loaded(t, text) ==
    [t EXCEPT !.raw = text, !.base = text, !.rev = @ + 1, !.saved = t.rev + 1,
              !.status = "idle", !.kind = None]

\* A dirty tab keeps its text and shows the conflict, a clean one shows the disk: a
\* conflict that was open (typed text taken back while its save was refused) stays in it.
PollApply ==
    /\ read # None /\ read.for = "poll" /\ read.at = "done"
    /\ read' = None
    /\ IF ~PollCurrent THEN UNCHANGED <<tab, author, missed>>
       ELSE /\ tab' = IF Dirty(tab) THEN Refused(tab, read.text, read.mtime)
                      ELSE [Loaded(tab, read.text) EXCEPT !.mtime = read.mtime]
            /\ author' = Told(tab')
            /\ missed' = (missed \/ (~Dirty(tab) /\ tab.external # None))
    /\ UNCHANGED <<disk, stamp, timer, req, late, lock, barrier, outside, faults>>

\* A failed body read marks the tab, and the next poll reads again.
Unreadable(t) == [t EXCEPT !.kind = "unreadable", !.status = "external"]

PollFails ==
    /\ read # None /\ read.for = "poll" /\ read.at \in {"get", "stat"}
    /\ faults < MaxFaults /\ faults' = faults + 1
    /\ read' = None
    /\ tab' = IF PollCurrent THEN Unreadable(tab) ELSE tab
    /\ UNCHANGED <<server, timer, req, late, lock, barrier, outside>>

\* resolveExternal with the text of the disk at hand.
UseDisk(t) == [Loaded(t, t.external) EXCEPT !.external = None, !.saving = None]

KeepLocal(t) ==
    LET k == [t EXCEPT !.base = t.external, !.external = None, !.kind = None]
    IN IF k.raw = k.base THEN [k EXCEPT !.saved = k.rev, !.status = "idle"]
                         ELSE [k EXCEPT !.status = "dirty"]

Resolve(t, choice) == IF choice = "disk" THEN UseDisk(t) ELSE KeepLocal(t)

\* The tab and the timer after the choice; keeping the local text schedules a save.
Resolved(t, choice) ==
    LET r == Resolve(t, choice) IN
    /\ tab' = r
    /\ timer' = IF r.status = "dirty" THEN Scheduled(r, lock, barrier) ELSE timer
    /\ author' = Told(r)

\* The user picks a side. A poll that is under way is dropped.
ResolveModified(choice) ==
    /\ tab.status = "external" /\ tab.external # None
    /\ Resolved(tab, choice)
    /\ read' = None
    /\ UNCHANGED <<disk, stamp, missed, req, late, lock, barrier, outside, faults>>

\* The user picks a side of a text that could not be read: it is read first.
ResolveUnreadable(choice) ==
    /\ tab.status = "external" /\ tab.kind = "unreadable"
    /\ read' = [for |-> choice, at |-> "get", seen |-> 0, snap |-> tab.rev,
                mtime |-> 0, text |-> None]
    /\ UNCHANGED <<server, tab, timer, req, late, lock, barrier, outside, faults>>

\* The text is there. "Use the disk" is asked again if the user typed meanwhile.
ResolveRead ==
    /\ read # None /\ read.for # "poll" /\ read.at = "done"
    /\ read' = None
    /\ LET t == [tab EXCEPT !.external = read.text, !.kind = "modified",
                            !.mtime = read.mtime]
       IN IF tab.rev # read.snap /\ read.for = "disk"
          THEN tab' = t /\ UNCHANGED <<timer, author>>
          ELSE Resolved(t, read.for)
    /\ UNCHANGED <<disk, stamp, missed, req, late, lock, barrier, outside, faults>>

ResolveFails ==
    /\ read # None /\ read.for # "poll" /\ read.at \in {"get", "stat"}
    /\ read' = None
    /\ UNCHANGED <<server, tab, timer, req, late, lock, barrier, outside, faults>>

(***************************************************************************)
(* The barriers.                                                           *)
(***************************************************************************)
\* A file operation that does not wait for the request on the way.
PrepareMutationAtOnce ==
    /\ lock = "free"
    /\ lock' = "held"
    /\ timer' = FALSE
    /\ UNCHANGED <<server, tab, req, late, read, barrier, outside, faults>>

\* prepareDocumentMutation: no new save, and the promise has come to its end.
PrepareMutation ==
    /\ lock = "free"
    /\ lock' = IF req = None THEN "held" ELSE "waiting"
    /\ timer' = FALSE
    /\ UNCHANGED <<server, tab, req, late, read, barrier, outside, faults>>

\* A file operation that leaves the autosave it cancelled cancelled.
SettleMutationForgetting ==
    /\ lock = "held"
    /\ lock' = "free"
    /\ UNCHANGED <<server, tab, timer, req, late, read, barrier, outside, faults>>

\* settle: the operation is over and the tab stays open.
SettleMutation ==
    /\ lock = "held"
    /\ lock' = "free"
    /\ timer' = IF tab.rev # tab.saved THEN Scheduled(tab, "free", barrier) ELSE timer
    /\ UNCHANGED <<server, tab, req, late, read, barrier, outside, faults>>

\* prepareHistoryCommit: store this revision, let the promise under way do it too.
PrepareHistoryCommit ==
    /\ barrier = None
    /\ timer' = FALSE
    /\ LET bar == [rev |-> tab.rev, raw |-> tab.raw, granted |-> FALSE, early |-> FALSE]
           s   == IF tab.saved < bar.rev THEN DoSave(tab, lock, bar)
                                         ELSE [tab |-> tab, req |-> req]
           waits == tab.saved < bar.rev /\ s.req # None /\ lock = "free" /\ ~Unresolved(tab)
       IN /\ tab' = s.tab /\ req' = s.req
          /\ barrier' = IF waits THEN bar
                        ELSE Granted(s.tab, [bar EXCEPT !.early = req # None])
    /\ author' = IF author = "read" THEN "tab" ELSE author
    /\ UNCHANGED <<disk, stamp, missed, late, read, lock, outside, faults>>

\* release: the commit is done, what was typed meanwhile is saved.
ReleaseHistoryCommit ==
    /\ barrier # None /\ barrier.granted
    /\ barrier' = None
    /\ LET s == IF tab.rev # tab.saved THEN DoSave(tab, lock, None)
                                       ELSE [tab |-> tab, req |-> req]
       IN tab' = s.tab /\ req' = s.req
    /\ UNCHANGED <<server, timer, late, read, lock, outside, faults>>

Next ==
    \/ Edit \/ Fire \/ SaveNow \/ Online \/ Answer \/ LoseAnswer
    \/ PutRequest \/ PutLate \/ RecordMetadata \/ MetadataFails \/ Outside
    \/ PollAsk \/ PollLook \/ GetStat \/ GetRead \/ PollApply \/ PollFails
    \/ \E choice \in {"disk", "local"} : ResolveModified(choice) \/ ResolveUnreadable(choice)
    \/ ResolveRead \/ ResolveFails
    \/ PrepareMutation \/ SettleMutation
    \/ PrepareHistoryCommit \/ ReleaseHistoryCommit

\* The browser runs its timers, the poll's interval and the answers it gets; the
\* server runs its handlers; an operation that took a barrier gives it back. A
\* timer that operations keep cancelling and setting again fires in the end.
Fairness ==
    /\ SF_vars(Fire)
    /\ WF_vars(Answer) /\ WF_vars(PutRequest) /\ WF_vars(PutLate) /\ WF_vars(RecordMetadata)
    /\ WF_vars(PollAsk) /\ WF_vars(PollLook) /\ WF_vars(GetStat) /\ WF_vars(GetRead)
    /\ WF_vars(PollApply) /\ WF_vars(ResolveRead)
    /\ WF_vars(SettleMutation) /\ WF_vars(ReleaseHistoryCommit)

Spec == Init /\ [][Next]_vars /\ Fairness

(***************************************************************************)
(* Properties.                                                             *)
(***************************************************************************)
\* The state of the tab, the requests and the barriers stays in its range: a
\* request goes with savingRevision, one handler at a time is between its
\* commit and its metadata, and no autosave is scheduled under a barrier.
TypeOK ==
    /\ disk \in Texts /\ stamp \in Nat /\ author \in {"tab", "other", "lost", "read"}
    /\ timer \in BOOLEAN /\ missed \in BOOLEAN
    /\ tab \in Tabs /\ tab.saved <= tab.rev /\ tab.mtime <= stamp
    /\ (req = None) = (tab.saving = None)
    /\ req # None => /\ req \in PutRequests /\ req.rev = tab.saving /\ req.base = tab.base
                     /\ req.mtime <= stamp /\ (req.at = "conflict" => req.raw # None)
    /\ late # None => late \in PutRequests /\ late.at \in {"sent", "written"}
    /\ ~(req # None /\ req.at = "written" /\ late # None /\ late.at = "written")
    /\ read # None =>
         /\ read \in [for : {"poll", "disk", "local"}, at : {"asked", "get", "stat", "done"},
                      seen : Nat, snap : {read.snap}, mtime : Nat, text : Texts \union {None}]
         /\ read.mtime <= stamp /\ (read.at = "done") = (read.text # None)
    /\ lock \in {"free", "waiting", "held"} /\ (lock = "waiting" => req # None)
    /\ barrier # None => barrier \in Barriers
    /\ timer => lock = "free" /\ barrier = None

\* A tab the browser lets the user leave without a question (handleBeforeUnload)
\* shows the text that is on disk, whatever was typed, undone, polled and saved in
\* between, unless another program wrote the file since the tab last heard of it, the
\* answer to a save was lost (what the tab cannot know), or a read took up a text that
\* a save wrote and rolled back when its metadata update failed.
CleanIsSaved == ~HasUnsaved(tab) /\ author \in {"tab", "read"} => disk = tab.raw

\* A tab whose serverMtime is the mtime of the file holds the text of the file as
\* its base or as the conflict it shows: a poll that finds the two mtimes equal
\* misses nothing. The exceptions are a save that returned the mtime of another
\* program's write (fs.stat after the commit), and a poll that loaded a tab and left
\* the text of an older conflict in it, which a later click takes for the disk.
StampTellsText ==
    tab.mtime = stamp /\ ~missed
        => disk \in {tab.base, tab.external}

\* While a history commit has its permission, the file holds the revision that the
\* commit asked for, although the user types on, unless another program or a save
\* whose answer was lost wrote the file. The one exception (early): the user typed the
\* stored text again while a save was on its way, and the commit did not wait for it.
HistoryHolds ==
    barrier # None /\ barrier.granted /\ ~barrier.early /\ author = "tab"
        => disk = barrier.raw

\* Once prepareDocumentMutation has returned no save of the document is under way
\* and none starts, whatever is typed, clicked or timed, until the operation settles.
QuietWhileHeld == lock = "held" => req = None

\* A tab with an open conflict has no request, and a click reads for such a tab only.
FlowSound ==
    /\ Unresolved(tab) => req = None
    /\ read # None /\ read.for # "poll" => tab.status = "external" /\ read.at # "asked"

\* A revision stands for one text: of the request, of the barrier, and a revision
\* that counts as stored for the base.
RevisionSound ==
    /\ req # None => req.rev <= tab.rev /\ (req.rev = tab.rev => req.text = tab.raw)
    /\ tab.rev = tab.saved /\ (req # None \/ author \in {"tab", "read"}) => tab.raw = tab.base
    /\ barrier # None =>
         /\ barrier.rev <= tab.rev /\ (barrier.rev = tab.rev => barrier.raw = tab.raw)
         /\ req # None /\ req.rev = barrier.rev => req.text = barrier.raw

\* A barrier that waits has a request to wait for; one that was granted has its
\* revision stored and none.
BarrierSound ==
    barrier # None =>
      /\ ~barrier.granted => req # None /\ req.rev <= barrier.rev
      /\ barrier.granted /\ ~barrier.early =>
           req = None /\ tab.saved >= barrier.rev /\ (author = "tab" => tab.base = barrier.raw)

\* The request whose text the file has, and the tab does not know it yet.
Ahead == req # None /\ req.at \in {"written", "ok"}

\* While the file has nothing that the tab has not written or seen, it has the base or the text of the request, and
\* whatever conflict is open shows the text on disk.
DiskSound ==
    author \in {"tab", "read"} =>
      /\ disk = IF Ahead THEN req.text ELSE tab.base
      /\ tab.external # None => disk = tab.external
      /\ req # None => req.at # "conflict"

\* A poll that was asked for this revision, stored revision and base.
Speaks ==
    read.snap[1] = tab.rev /\ read.snap[2] = tab.saved /\ read.snap[3] = tab.base

\* Then a poll that still speaks of this tab has read its base, unless a request is
\* ahead of it, and a click has read the disk. A tab of the revision that a poll has
\* seen has stored no less than then.
ReadSound ==
    read # None =>
      /\ read.for = "poll" /\ read.at # "asked" =>
           /\ read.snap[1] \in Nat /\ read.snap[2] \in Nat /\ read.snap[1] <= tab.rev
           /\ read.snap[1] = tab.rev =>
                read.snap[2] <= tab.saved /\ (req # None => tab.saved < req.rev)
      /\ author \in {"tab", "read"} /\ read.text # None =>
           IF read.for = "poll"
           THEN Speaks => read.text = tab.base \/ (Ahead /\ req.text # tab.base)
           ELSE read.text = disk

\* An mtime stands for a text, of the tab, of an answer and of a read.
StampSound ==
    /\ read # None /\ read.at = "done" /\ read.mtime = stamp => disk = read.text
    /\ ~missed =>
         /\ tab.mtime = stamp
              => disk = IF tab.external = None THEN tab.base ELSE tab.external
         /\ req # None /\ req.mtime = stamp
              => (req.at = "ok" => disk = req.text) /\ (req.at = "conflict" => disk = req.raw)

\* Tab, requests, barriers and file agree: mtimes stand for their texts, a held
\* document is quiet, and a history commit gets the text it asked for.
SaveInv ==
    /\ TypeOK /\ StampTellsText /\ QuietWhileHeld /\ HistoryHolds
    /\ FlowSound /\ RevisionSound /\ BarrierSound /\ DiskSound /\ ReadSound /\ StampSound

\* A text that another program wrote is replaced on disk only by a save that is
\* based on that very text, or by the rollback of a save that had written the same
\* text: neither a save with an old base nor the rollback after a failed metadata
\* update writes over a text that the tab has not seen.
OthersKept ==
    [][author = "other" /\ disk' # disk /\ author' # "other"
        => \E r \in {req, late} \ {None} :
              \/ r.at = "sent" /\ r.base = disk
              \/ r.at = "written" /\ r.text = disk]_vars

\* The text in the editor changes by typing, by the user's choice of the disk, or,
\* when nothing in it is unsaved, by a poll: no answer and no poll, however late,
\* takes an unsaved text away.
LocalKept ==
    [][tab'.raw # tab.raw
        => \/ tab.raw = tab.base /\ tab.rev = tab.saved /\ tab.saving = None
           \/ tab'.rev = tab.rev + 1 /\ (tab.status = "external" \/ Edit)]_vars

\* A revision that is not stored gets stored, or the tab shows a conflict or an
\* error: no order of timers, answers, barriers and polls leaves it behind.
SaveSettles ==
    tab.rev # tab.saved
        ~> tab.rev = tab.saved \/ Unresolved(tab) \/ tab.status \in Failed

\* A text on disk that is not the tab's base reaches the tab: as its text or as a
\* conflict, also after lost answers and failed reads, unless a save or a conflict
\* left in a loaded tab gave it the mtime of another text (missed).
ChangeSurfaces == disk # tab.base ~> disk = tab.base \/ Unresolved(tab) \/ missed
=============================================================================
