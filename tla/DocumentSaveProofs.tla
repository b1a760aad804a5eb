--------------------------- MODULE DocumentSaveProofs ---------------------------
(***************************************************************************)
(* Proofs about DocumentSave for every set of texts and every bound on     *)
(* what the user, the other programs and the faults do.  SaveInv is        *)
(* inductive but for two parts that follow from the others.                *)
(***************************************************************************)
EXTENDS DocumentSave, TLAPS

(* The parts of SaveInv that carry the induction.                          *)
Ind ==
  /\ TypeOK /\ QuietWhileHeld
  /\ FlowSound /\ RevisionSound /\ BarrierSound /\ DiskSound /\ ReadSound /\ StampSound

LEMMA IndIsEnough == Ind => SaveInv
<1> SUFFICES ASSUME Ind PROVE StampTellsText /\ HistoryHolds
  BY DEF Ind, SaveInv
<1>1. StampTellsText
  BY DEF Ind, StampTellsText, StampSound
<1>2. HistoryHolds
  <2> SUFFICES ASSUME barrier # None, barrier.granted, ~barrier.early, author = "tab"
               PROVE  disk = barrier.raw
    BY DEF HistoryHolds
  <2>1. req = None /\ tab.base = barrier.raw
    BY DEF Ind, BarrierSound
  <2>2. disk = tab.base
    BY <2>1 DEF Ind, DiskSound, Ahead
  <2> QED
    BY <2>1, <2>2
<1> QED
  BY <1>1, <1>2

LEMMA InitHolds == Init => Ind
<1> SUFFICES ASSUME Init PROVE Ind
  OBVIOUS
<1> USE TextAssumption
<1>1. /\ tab.raw = Opened /\ tab.base = Opened /\ tab.rev = 0 /\ tab.saved = 0
      /\ tab.saving = None /\ tab.status = "idle" /\ tab.external = None
      /\ tab.kind = None /\ tab.mtime = 0 /\ tab \in Tabs
  BY DEF Init, NewTab, Tabs, Status
<1>2. TypeOK
  <2>1. timer \in BOOLEAN /\ missed \in BOOLEAN
    BY DEF Init
  <2>2. /\ disk \in Texts /\ stamp \in Nat /\ tab.saved <= tab.rev /\ tab.mtime <= stamp
        /\ (req = None) = (tab.saving = None)
    BY <1>1 DEF Init
  <2> QED
    BY <1>1, <2>1, <2>2 DEF Init, TypeOK
<1>3. QuietWhileHeld /\ FlowSound /\ RevisionSound /\ BarrierSound
  BY <1>1 DEF Init, QuietWhileHeld, FlowSound, Unresolved, RevisionSound, BarrierSound
<1>4. DiskSound /\ ReadSound /\ StampSound
  BY <1>1 DEF Init, DiskSound, Ahead, ReadSound, StampSound
<1> QED
  BY <1>2, <1>3, <1>4 DEF Ind

(***************************************************************************)
(* The pure operators on a tab.                                            *)
(***************************************************************************)
(* saveLatest leaves the texts and the revisions of the tab alone; with a  *)
(* revision to store it sends what the barrier, or else the editor, holds. *)
LEMMA SaveLatestFields ==
  ASSUME NEW t \in Tabs, NEW bar, bar # None => bar \in Barriers,
         NEW s, s = SaveLatest(t, bar)
  PROVE  /\ s.tab \in Tabs
         /\ s.tab.raw = t.raw /\ s.tab.base = t.base /\ s.tab.rev = t.rev
         /\ s.tab.saved = t.saved /\ s.tab.external = t.external
         /\ s.tab.kind = t.kind /\ s.tab.mtime = t.mtime
         /\ NothingToSend(t, bar) =>
              /\ s.req = None /\ s.tab.saving = t.saving /\ s.tab.status \in {"idle", "dirty"}
         /\ ~NothingToSend(t, bar) =>
              /\ s.req \in PutRequests /\ s.req # None
              /\ s.req.rev = Wanted(t, bar).rev /\ s.req.text = Wanted(t, bar).text
              /\ s.req.base = t.base /\ s.req.at = "sent" /\ s.req.mtime = 0
              /\ s.tab.saving = s.req.rev /\ s.tab.status = "saving"
<1>1. CASE NothingToSend(t, bar)
  <2>1. s = [tab |-> [t EXCEPT !.status = AtRest(t)], req |-> None]
    BY <1>1 DEF SaveLatest
  <2>2. AtRest(t) \in {"idle", "dirty"}
    BY DEF AtRest
  <2> QED
    BY <1>1, <2>1, <2>2 DEF Tabs, Status
<1>2. CASE ~NothingToSend(t, bar)
  <2>1. s = [tab |-> [t EXCEPT !.saving = Wanted(t, bar).rev, !.status = "saving"],
             req |-> Request(t, bar)]
    BY <1>2 DEF SaveLatest
  <2>2. Wanted(t, bar).rev \in Nat /\ Wanted(t, bar).text \in Texts
    BY DEF Wanted, Tabs, Barriers
  <2>3. Request(t, bar) \in PutRequests
    BY <2>2 DEF Request, PutRequests, Tabs
  <2>4. /\ s.req = Request(t, bar) /\ s.req # None
        /\ s.tab = [t EXCEPT !.saving = Wanted(t, bar).rev, !.status = "saving"]
    BY <2>1, <2>3, RecordsAssumption
  <2>5. /\ s.req.rev = Wanted(t, bar).rev /\ s.req.text = Wanted(t, bar).text
        /\ s.req.base = t.base /\ s.req.at = "sent" /\ s.req.mtime = 0
    BY <2>4 DEF Request
  <2>6. s.tab \in Tabs
    BY <2>2, <2>4 DEF Tabs, Status
  <2> QED
    BY <1>2, <2>2, <2>3, <2>4, <2>5, <2>6 DEF Tabs
<1> QED
  BY <1>1, <1>2

(* doSave does nothing, or finds nothing to send, or sends.                *)
SameTexts(t) ==
  /\ t \in Tabs
  /\ t.raw = tab.raw /\ t.base = tab.base /\ t.rev = tab.rev /\ t.saved = tab.saved
  /\ t.external = tab.external /\ t.kind = tab.kind /\ t.mtime = tab.mtime

Idles(t, r) ==
  req = None /\ r = None /\ t.saving = None /\ t.status \in {"idle", "dirty"}

Sends(t, r, bar) ==
  /\ req = None /\ r # None /\ r \in PutRequests
  /\ r.base = tab.base /\ r.at = "sent" /\ r.mtime = 0
  /\ t.saving = r.rev /\ t.status = "saving"
  /\ bar = None => tab.rev # tab.saved /\ r.rev = tab.rev /\ r.text = tab.raw
  /\ bar # None => tab.saved < bar.rev /\ r.rev = bar.rev /\ r.text = bar.raw

Outcome(t, r, bar) ==
  /\ SameTexts(t)
  /\ \/ t = tab /\ r = req
     \/ lock = "free" /\ ~Unresolved(tab) /\ (Idles(t, r) \/ Sends(t, r, bar))

LEMMA DoSaveOutcome ==
  ASSUME TypeOK, NEW bar, bar # None => bar \in Barriers,
         NEW s, s = DoSave(tab, lock, bar)
  PROVE  Outcome(s.tab, s.req, bar)
<1>0. tab \in Tabs /\ ((req = None) = (tab.saving = None))
  BY DEF TypeOK
<1>1. CASE lock # "free" \/ Unresolved(tab) \/ req # None
  <2>1. s.tab = tab /\ s.req = req
    BY <1>1 DEF DoSave
  <2> QED
    BY <1>0, <2>1 DEF Outcome, SameTexts
<1>2. CASE ~(lock # "free" \/ Unresolved(tab) \/ req # None)
  <2>1. s = SaveLatest(tab, bar)
    BY <1>2 DEF DoSave
  <2>2. SameTexts(s.tab)
    BY <1>0, <2>1, SaveLatestFields DEF SameTexts
  <2>3. CASE NothingToSend(tab, bar)
    <3>1. Idles(s.tab, s.req)
      BY <1>0, <1>2, <2>1, <2>3, SaveLatestFields DEF Idles
    <3> QED
      BY <1>2, <2>2, <3>1 DEF Outcome
  <2>4. CASE ~NothingToSend(tab, bar)
    <3>1. bar = None => tab.rev # tab.saved
      BY <2>4 DEF NothingToSend
    <3>2. bar # None => tab.saved < bar.rev
      BY <1>0, <2>4 DEF NothingToSend, Tabs, Barriers
    <3>3. /\ bar = None => Wanted(tab, bar).rev = tab.rev /\ Wanted(tab, bar).text = tab.raw
          /\ bar # None => Wanted(tab, bar).rev = bar.rev /\ Wanted(tab, bar).text = bar.raw
      BY DEF Wanted
    <3>4. /\ s.req # None /\ s.req \in PutRequests
          /\ s.req.base = tab.base /\ s.req.at = "sent" /\ s.req.mtime = 0
          /\ s.tab.saving = s.req.rev /\ s.tab.status = "saving"
          /\ s.req.rev = Wanted(tab, bar).rev /\ s.req.text = Wanted(tab, bar).text
      BY <1>0, <2>1, <2>4, SaveLatestFields
    <3>5. Sends(s.tab, s.req, bar)
      BY <1>2, <3>1, <3>2, <3>3, <3>4 DEF Sends
    <3> QED
      BY <1>2, <2>2, <3>5 DEF Outcome
  <2> QED
    BY <2>3, <2>4
<1> QED
  BY <1>1, <1>2

(* What a barrier, old or new, has to fit.                                 *)
Fits(bar) ==
  bar # None =>
    /\ bar \in Barriers /\ bar.rev <= tab.rev /\ (bar.rev = tab.rev => bar.raw = tab.raw)
    /\ req # None /\ req.rev = bar.rev => req.text = bar.raw

(* doSave, from wherever it is called, keeps all but what is about the     *)
(* permission of the barrier.                                              *)
LEMMA DoSaveKeeps ==
  ASSUME Ind, NEW bar, Fits(bar), Outcome(tab', req', bar),
         author' = author \/ (author = "read" /\ author' = "tab"),
         UNCHANGED <<disk, stamp, missed, late, read, lock>>,
         timer' \in BOOLEAN, timer' => lock = "free" /\ barrier' = None,
         barrier' # None => /\ bar # None /\ barrier' \in Barriers
                            /\ barrier'.rev = bar.rev /\ barrier'.raw = bar.raw
  PROVE  /\ TypeOK' /\ QuietWhileHeld' /\ FlowSound' /\ RevisionSound'
         /\ DiskSound' /\ ReadSound' /\ StampSound'
<1> DEFINE still == tab' = tab /\ req' = req
           idles == ~Unresolved(tab) /\ lock = "free" /\ Idles(tab', req')
           sends == ~Unresolved(tab) /\ lock = "free" /\ Sends(tab', req', bar)
<1>0. SameTexts(tab') /\ (still \/ idles \/ sends)
  BY DEF Outcome
<1>1. /\ tab \in Tabs /\ tab' \in Tabs
      /\ tab.rev \in Nat /\ tab.saved \in Nat /\ tab.mtime \in Nat /\ stamp \in Nat
      /\ tab'.raw = tab.raw /\ tab'.base = tab.base /\ tab'.rev = tab.rev
      /\ tab'.saved = tab.saved /\ tab'.external = tab.external
      /\ tab'.kind = tab.kind /\ tab'.mtime = tab.mtime
  BY <1>0 DEF SameTexts, Ind, TypeOK, Tabs
<1>2. sends => /\ req' \in PutRequests /\ req'.rev \in Nat /\ req'.rev <= tab.rev
               /\ tab.saved < req'.rev /\ (req'.rev = tab.rev => req'.text = tab.raw)
               /\ (bar # None => req'.text = bar.raw)
  <2>1. tab.saved <= tab.rev
    BY DEF Ind, TypeOK
  <2>2. ASSUME bar = None, sends
        PROVE  /\ req' \in PutRequests /\ req'.rev \in Nat /\ req'.rev <= tab.rev
               /\ tab.saved < req'.rev /\ (req'.rev = tab.rev => req'.text = tab.raw)
    BY <1>1, <2>1, <2>2 DEF Sends, PutRequests
  <2>3. ASSUME bar # None, sends
        PROVE  /\ req' \in PutRequests /\ req'.rev \in Nat /\ req'.rev <= tab.rev
               /\ tab.saved < req'.rev /\ (req'.rev = tab.rev => req'.text = tab.raw)
               /\ req'.text = bar.raw
    BY <1>1, <2>3 DEF Sends, PutRequests, Fits, Barriers
  <2> QED
    BY <2>2, <2>3
<1>3. Unresolved(tab) => still /\ tab'.status = tab.status
  BY <1>0
<1>4. ~Unresolved(tab) => ~Unresolved(tab')
  BY <1>0, <1>1 DEF Unresolved, Idles, Sends
<1>5. TypeOK'
  <2>1. /\ disk' \in Texts /\ stamp' \in Nat /\ author' \in {"tab", "other", "lost", "read"}
        /\ timer' \in BOOLEAN /\ missed' \in BOOLEAN
    BY DEF Ind, TypeOK
  <2>2. tab' \in Tabs /\ tab'.saved <= tab'.rev /\ tab'.mtime <= stamp'
    BY <1>1 DEF Ind, TypeOK
  <2>3. (req' = None) = (tab'.saving = None)
    <3>1. CASE still
      BY <3>1 DEF Ind, TypeOK
    <3>2. CASE idles
      BY <3>2 DEF Idles
    <3>3. CASE sends
      BY <3>3, <1>2, TextAssumption DEF Sends
    <3> QED
      BY <1>0, <3>1, <3>2, <3>3
  <2>4. req' # None => /\ req' \in PutRequests /\ req'.rev = tab'.saving
                       /\ req'.base = tab'.base /\ req'.mtime <= stamp'
                       /\ (req'.at = "conflict" => req'.raw # None)
    <3>1. CASE still
      BY <3>1 DEF Ind, TypeOK
    <3>2. CASE idles
      BY <3>2 DEF Idles
    <3>3. CASE sends
      BY <3>3, <1>1 DEF Sends
    <3> QED
      BY <1>0, <3>1, <3>2, <3>3
  <2>5. /\ late' # None => late' \in PutRequests /\ late'.at \in {"sent", "written"}
        /\ ~(req' # None /\ req'.at = "written" /\ late' # None /\ late'.at = "written")
    BY <1>0 DEF Ind, TypeOK, Idles, Sends
  <2>6. lock' \in {"free", "waiting", "held"} /\ (lock' = "waiting" => req' # None)
    BY <1>0 DEF Ind, TypeOK
  <2>7. /\ barrier' # None => barrier' \in Barriers
        /\ timer' => lock' = "free" /\ barrier' = None
    OBVIOUS
  <2>8. read' # None =>
         /\ read' \in [for : {"poll", "disk", "local"}, at : {"asked", "get", "stat", "done"},
                      seen : Nat, snap : {read'.snap}, mtime : Nat, text : Texts \union {None}]
         /\ read'.mtime <= stamp' /\ (read'.at = "done") = (read'.text # None)
    BY DEF Ind, TypeOK
  <2> QED
    BY <2>1, <2>2, <2>3, <2>4, <2>5, <2>6, <2>7, <2>8 DEF TypeOK
<1>6. QuietWhileHeld'
  BY <1>0 DEF Ind, QuietWhileHeld
<1>7. FlowSound'
  BY <1>3, <1>4 DEF Ind, FlowSound, Unresolved
<1>8. RevisionSound'
  <2>1. req' # None => req'.rev <= tab'.rev /\ (req'.rev = tab'.rev => req'.text = tab'.raw)
    BY <1>0, <1>1, <1>2 DEF Ind, RevisionSound, Idles
  <2>2. tab'.rev = tab'.saved /\ (req' # None \/ author' \in {"tab", "read"})
          => tab'.raw = tab'.base
    BY <1>0, <1>1, <1>2 DEF Ind, RevisionSound, Idles
  <2>3. barrier' # None =>
         /\ barrier'.rev <= tab'.rev /\ (barrier'.rev = tab'.rev => barrier'.raw = tab'.raw)
         /\ req' # None /\ req'.rev = barrier'.rev => req'.text = barrier'.raw
    BY <1>0, <1>1, <1>2 DEF Fits, Idles
  <2> QED
    BY <2>1, <2>2, <2>3 DEF RevisionSound
<1>9. Ahead' = Ahead /\ (Ahead => req' = req)
  BY <1>0 DEF Ahead, Idles, Sends
<1>10. DiskSound'
  <2>1. req' # None => req'.at = "sent" \/ (req # None /\ req'.at = req.at)
    BY <1>0 DEF Idles, Sends
  <2> QED
    BY <1>1, <1>9, <2>1 DEF Ind, DiskSound
<1>11. ReadSound'
  <2>1. Speaks' = Speaks
    BY <1>1 DEF Speaks
  <2>2. req' # None => tab.saved < req'.rev \/ (req # None /\ req'.rev = req.rev)
    BY <1>0, <1>2 DEF Idles
  <2> QED
    BY <1>1, <1>9, <2>1, <2>2 DEF Ind, ReadSound
<1>12. StampSound'
  <2>1. req' # None => req'.at = "sent" \/ (req # None /\ req' = req)
    BY <1>0 DEF Idles, Sends
  <2> QED
    BY <1>1, <2>1 DEF Ind, StampSound
<1> QED
  BY <1>5, <1>6, <1>7, <1>8, <1>10, <1>11, <1>12

LEMMA FitsNow == Ind => Fits(barrier) /\ Fits(None)
  BY DEF Ind, Fits, RevisionSound, TypeOK

(* The steps that call doSave and leave the barrier alone: the timer, the  *)
(* user's own save, and the browser that is online again.                  *)
LEMMA SaveSteps ==
  ASSUME Ind, Save(tab), UNCHANGED <<server, late, read, lock, barrier>>,
         timer' = FALSE \/ timer' = timer
  PROVE  Ind'
<1>1. Outcome(tab', req', barrier)
  BY DoSaveOutcome DEF Save, Ind, TypeOK
<1>2. /\ Fits(barrier)
      /\ timer' \in BOOLEAN /\ (timer' => lock = "free" /\ barrier' = None)
  <2>1. timer \in BOOLEAN /\ (timer => lock = "free" /\ barrier = None)
    BY DEF Ind, TypeOK
  <2>2. CASE timer' = FALSE
    BY <2>2, FitsNow
  <2>3. CASE timer' = timer
    BY <2>1, <2>3, FitsNow
  <2> QED
    BY <2>2, <2>3
<1>3. barrier' # None => /\ barrier # None /\ barrier' \in Barriers
                         /\ barrier'.rev = barrier.rev /\ barrier'.raw = barrier.raw
  BY <1>2 DEF Fits
<1>4. /\ TypeOK' /\ QuietWhileHeld' /\ FlowSound' /\ RevisionSound'
      /\ DiskSound' /\ ReadSound' /\ StampSound'
  BY <1>1, <1>2, <1>3, DoSaveKeeps DEF server
<1>5. BarrierSound'
  <2> SUFFICES ASSUME barrier # None
               PROVE  /\ ~barrier.granted => req' # None /\ req'.rev <= barrier.rev
                      /\ barrier.granted /\ ~barrier.early =>
                           /\ req' = None /\ tab'.saved >= barrier.rev
                           /\ author = "tab" => tab'.base = barrier.raw
    BY DEF BarrierSound, server
  <2>1. /\ ~barrier.granted => req # None /\ req.rev <= barrier.rev
        /\ barrier.granted /\ ~barrier.early =>
             /\ req = None /\ tab.saved >= barrier.rev
             /\ author = "tab" => tab.base = barrier.raw
    BY DEF Ind, BarrierSound
  <2>2. tab'.base = tab.base /\ tab'.saved = tab.saved /\ tab.saved \in Nat /\ barrier.rev \in Nat
    BY <1>1 DEF Outcome, SameTexts, Ind, TypeOK, Tabs, Barriers
  <2>3. CASE req' = req
    BY <2>1, <2>2, <2>3
  <2>4. CASE req = None /\ req' # None
    <3>1. Sends(tab', req', barrier)
      BY <1>1, <2>4 DEF Outcome, Idles
    <3>2. tab.saved < barrier.rev
      BY <3>1 DEF Sends
    <3> QED
      BY <2>1, <2>2, <2>4, <3>2
  <2>5. req' = req \/ (req = None /\ req' # None)
    BY <1>1 DEF Outcome, Idles, Sends
  <2> QED
    BY <2>3, <2>4, <2>5
<1> QED
  BY <1>4, <1>5 DEF Ind

LEMMA FireHolds == Ind /\ Fire => Ind'
  BY SaveSteps DEF Fire

LEMMA SaveNowHolds == Ind /\ SaveNow => Ind'
  BY SaveSteps DEF SaveNow

LEMMA OnlineHolds == Ind /\ Online => Ind'
  BY SaveSteps DEF Online

LEMMA ReleaseHolds == Ind /\ ReleaseHistoryCommit => Ind'
<1> SUFFICES ASSUME Ind, ReleaseHistoryCommit PROVE Ind'
  OBVIOUS
<1>1. Outcome(tab', req', None)
  <2>1. CASE tab.rev # tab.saved
    BY <2>1, DoSaveOutcome DEF ReleaseHistoryCommit, Ind
  <2>2. CASE tab.rev = tab.saved
    <3>1. tab' = tab /\ req' = req
      BY <2>2 DEF ReleaseHistoryCommit
    <3> QED
      BY <3>1 DEF Outcome, SameTexts, Ind, TypeOK
  <2> QED
    BY <2>1, <2>2
<1>2. /\ barrier' = None /\ UNCHANGED <<server, timer, late, read, lock>>
      /\ timer' \in BOOLEAN /\ (timer' => lock = "free" /\ barrier' = None)
  BY DEF ReleaseHistoryCommit, Ind, TypeOK
<1>3. /\ TypeOK' /\ QuietWhileHeld' /\ FlowSound' /\ RevisionSound'
      /\ DiskSound' /\ ReadSound' /\ StampSound'
  BY <1>1, <1>2, FitsNow, DoSaveKeeps DEF server
<1>4. BarrierSound'
  BY <1>2 DEF BarrierSound
<1> QED
  BY <1>3, <1>4 DEF Ind

(* What a barrier becomes when the save it waited for has ended.           *)
LEMMA GrantedFields ==
  ASSUME NEW t, NEW bar \in Barriers
  PROVE  Granted(t, bar) # None =>
           /\ Granted(t, bar) \in Barriers
           /\ Granted(t, bar).rev = bar.rev /\ Granted(t, bar).raw = bar.raw
           /\ Granted(t, bar).granted /\ Granted(t, bar).early = bar.early
           /\ ~(t.saved < bar.rev) /\ t.status \notin Failed \union {"external"}
  BY DEF Granted, Barriers

LEMMA PrepareHistoryHolds == Ind /\ PrepareHistoryCommit => Ind'
<1> SUFFICES ASSUME Ind, PrepareHistoryCommit PROVE Ind'
  OBVIOUS
<1> DEFINE bar   == [rev |-> tab.rev, raw |-> tab.raw, granted |-> FALSE, early |-> FALSE]
           done  == [bar EXCEPT !.early = req # None]
           s     == IF tab.saved < bar.rev THEN DoSave(tab, lock, bar)
                                           ELSE [tab |-> tab, req |-> req]
           waits == tab.saved < bar.rev /\ s.req # None /\ lock = "free" /\ ~Unresolved(tab)
<1>1. /\ tab \in Tabs /\ tab.rev \in Nat /\ tab.saved \in Nat /\ tab.raw \in Texts
      /\ tab.saved <= tab.rev
  BY DEF Ind, TypeOK, Tabs
<1>2. /\ bar \in Barriers /\ bar.rev = tab.rev /\ bar.raw = tab.raw /\ ~bar.granted /\ ~bar.early
      /\ done \in Barriers /\ done.rev = tab.rev /\ done.raw = tab.raw /\ ~done.granted
      /\ done.early = (req # None)
  BY <1>1 DEF Barriers
<1>3. /\ tab' = s.tab /\ req' = s.req /\ timer' = FALSE /\ barrier = None
      /\ barrier' = IF waits THEN bar ELSE Granted(s.tab, done)
      /\ author' = IF author = "read" THEN "tab" ELSE author
      /\ UNCHANGED <<disk, stamp, missed, late, read, lock>>
  BY DEF PrepareHistoryCommit
<1>4. Fits(bar)
  BY <1>1, <1>2 DEF Fits, Ind, RevisionSound
<1>5. Outcome(s.tab, s.req, bar)
  <2>1. CASE tab.saved < bar.rev
    BY <1>2, <2>1, DoSaveOutcome DEF Ind
  <2>2. CASE ~(tab.saved < bar.rev)
    BY <1>1, <2>2 DEF Outcome, SameTexts
  <2> QED
    BY <2>1, <2>2
<1>6. SameTexts(s.tab)
  BY <1>5 DEF Outcome
<1> HIDE DEF bar, done, s
<1>7. barrier' # None => /\ bar # None /\ barrier' \in Barriers
                         /\ barrier'.rev = bar.rev /\ barrier'.raw = bar.raw
  <2>1. CASE waits
    BY <1>2, <1>3, <2>1
  <2>2. CASE ~waits
    <3>1. barrier' = Granted(s.tab, done)
      BY <1>3, <2>2
    <3>2. barrier' # None => barrier' \in Barriers /\ barrier'.rev = tab.rev /\ barrier'.raw = tab.raw
      BY <1>2, <3>1, GrantedFields
    <3>3. bar # None
      BY <1>2, RecordsAssumption
    <3> QED
      BY <1>2, <3>2, <3>3
  <2> QED
    BY <2>1, <2>2
<1>8. /\ TypeOK' /\ QuietWhileHeld' /\ FlowSound' /\ RevisionSound'
      /\ DiskSound' /\ ReadSound' /\ StampSound'
  <2>1. Outcome(tab', req', bar)
    BY <1>3, <1>5
  <2>2. timer' \in BOOLEAN /\ (timer' => lock = "free" /\ barrier' = None)
    BY <1>3
  <2>3. author' = author \/ (author = "read" /\ author' = "tab")
    BY <1>3
  <2> QED
    BY <1>3, <1>4, <1>7, <2>1, <2>2, <2>3, DoSaveKeeps
<1>9. BarrierSound'
  <2>1. CASE waits
    <3>1. /\ barrier' = bar /\ req' # None
      BY <1>3, <2>1
    <3>2. req'.rev <= tab'.rev /\ tab'.rev = tab.rev
      BY <1>3, <1>6, <1>8, <3>1 DEF RevisionSound, SameTexts
    <3> QED
      BY <1>2, <3>1, <3>2 DEF BarrierSound
  <2>2. CASE ~waits
    <3> SUFFICES ASSUME barrier' # None PROVE BarrierSound'
      BY DEF BarrierSound
    <3>1. barrier' = Granted(s.tab, done)
      BY <1>3, <2>2
    <3>2. /\ barrier'.granted /\ barrier'.early = (req # None)
          /\ barrier'.rev = tab.rev /\ barrier'.raw = tab.raw /\ ~(s.tab.saved < tab.rev)
      BY <1>2, <3>1, GrantedFields
    <3>3. s.tab.saved = tab.saved /\ tab'.base = tab.base /\ tab'.saved = tab.saved
      BY <1>3, <1>6 DEF SameTexts
    <3>4. tab.saved = tab.rev
      BY <1>1, <3>2, <3>3
    <3>5. req' = req
      BY <1>1, <1>2, <1>3, <3>4 DEF s
    <3>6. ASSUME ~barrier'.early
          PROVE  /\ req' = None /\ tab'.saved >= barrier'.rev
                 /\ author' = "tab" => tab'.base = barrier'.raw
      <4>1. req = None
        BY <3>2, <3>6
      <4>2. author' = "tab" => author \in {"tab", "read"}
        BY <1>3
      <4>3. author \in {"tab", "read"} => tab.raw = tab.base
        BY <3>4 DEF Ind, RevisionSound
      <4> QED
        BY <1>1, <3>2, <3>3, <3>4, <3>5, <4>1, <4>2, <4>3
    <3> QED
      BY <3>2, <3>6 DEF BarrierSound
  <2> QED
    BY <2>1, <2>2
<1> QED
  BY <1>8, <1>9 DEF Ind

(***************************************************************************)
(* The end of a request.                                                   *)
(***************************************************************************)
(* What an answer, or its loss, has to have made of the tab.               *)
Settled(t) ==
  /\ t \in Tabs /\ t.raw = tab.raw /\ t.rev = tab.rev /\ t.saving = None
  /\ t.saved <= t.rev /\ t.mtime <= stamp
  /\ t.rev = t.saved /\ author' \in {"tab", "read"} => t.raw = t.base
  /\ author' \in {"tab", "read"} =>
       disk = t.base /\ (t.external # None => disk = t.external)
  /\ t.mtime = stamp /\ ~missed => disk = IF t.external = None THEN t.base ELSE t.external
  /\ barrier # None /\ ~barrier.granted /\ ~(t.saved < barrier.rev)
     /\ t.status \notin Failed \union {"external"}
       => t.base = barrier.raw

SettledRead(t) ==
  read # None /\ read.at # "asked" /\ read.snap[1] = tab.rev =>
    /\ read.snap[2] <= t.saved
    /\ /\ author' \in {"tab", "read"} /\ read.text # None
       /\ read.snap[2] = t.saved /\ read.snap[3] = t.base
       => read.text = t.base

Ends(t) == LoopEnds(t, barrier) /\ tab' = t /\ req' = None

GoesOn(t) ==
  /\ lock = "free" /\ ~Unresolved(t) /\ t.rev # t.saved
  /\ req' # None /\ req' \in PutRequests
  /\ req'.base = t.base /\ req'.at = "sent" /\ req'.mtime = 0
  /\ tab'.saving = req'.rev /\ tab'.status = "saving"
  /\ barrier = None => req'.rev = t.rev /\ req'.text = t.raw
  /\ barrier # None => t.saved < barrier.rev /\ req'.rev = barrier.rev /\ req'.text = barrier.raw

LEMMA ContinueOutcome ==
  ASSUME Ind, NEW t, t \in Tabs, t.saving = None, Continue(t)
  PROVE  /\ tab' \in Tabs /\ tab'.raw = t.raw /\ tab'.base = t.base /\ tab'.rev = t.rev
         /\ tab'.saved = t.saved /\ tab'.external = t.external
         /\ tab'.kind = t.kind /\ tab'.mtime = t.mtime
         /\ Ends(t) \/ GoesOn(t)
         /\ lock' = IF req' = None /\ lock = "waiting" THEN "held" ELSE lock
         /\ barrier' = IF req' = None /\ barrier # None /\ ~barrier.granted
                       THEN Granted(tab', barrier) ELSE barrier
<1> DEFINE s == IF LoopEnds(t, barrier) THEN [tab |-> t, req |-> None] ELSE SaveLatest(t, barrier)
<1>1. /\ tab' = s.tab /\ req' = s.req
      /\ lock' = IF s.req = None /\ lock = "waiting" THEN "held" ELSE lock
      /\ barrier' = IF s.req = None /\ barrier # None /\ ~barrier.granted
                    THEN Granted(s.tab, barrier) ELSE barrier
  BY DEF Continue
<1>2. barrier # None => barrier \in Barriers
  BY DEF Ind, TypeOK
<1>3. CASE LoopEnds(t, barrier)
  <2>1. tab' = t /\ req' = None
    BY <1>1, <1>3
  <2> QED
    BY <1>1, <1>3, <2>1 DEF Ends
<1>4. CASE ~LoopEnds(t, barrier)
  <2>1. s = SaveLatest(t, barrier)
    BY <1>4
  <2>2. /\ lock = "free" /\ ~Unresolved(t) /\ t.rev # t.saved
        /\ barrier # None => ~(t.saved >= barrier.rev)
    BY <1>4 DEF LoopEnds
  <2>3. ~NothingToSend(t, barrier)
    BY <2>2 DEF NothingToSend
  <2>4. barrier # None => t.saved < barrier.rev
    BY <1>2, <2>2 DEF Tabs, Barriers
  <2>5. /\ barrier = None => Wanted(t, barrier).rev = t.rev /\ Wanted(t, barrier).text = t.raw
        /\ barrier # None => /\ Wanted(t, barrier).rev = barrier.rev
                             /\ Wanted(t, barrier).text = barrier.raw
    BY DEF Wanted
  <2> HIDE DEF s
  <2>6. /\ s.tab \in Tabs
        /\ s.tab.raw = t.raw /\ s.tab.base = t.base /\ s.tab.rev = t.rev
        /\ s.tab.saved = t.saved /\ s.tab.external = t.external
        /\ s.tab.kind = t.kind /\ s.tab.mtime = t.mtime
        /\ s.req \in PutRequests /\ s.req # None
        /\ s.req.rev = Wanted(t, barrier).rev /\ s.req.text = Wanted(t, barrier).text
        /\ s.req.base = t.base /\ s.req.at = "sent" /\ s.req.mtime = 0
        /\ s.tab.saving = s.req.rev /\ s.tab.status = "saving"
    BY <1>2, <2>1, <2>3, SaveLatestFields
  <2>7. GoesOn(t)
    BY <1>1, <2>2, <2>4, <2>5, <2>6 DEF GoesOn
  <2> QED
    BY <1>1, <2>6, <2>7
<1> QED
  BY <1>3, <1>4

LEMMA SettledHolds ==
  ASSUME Ind, req # None, NEW t, Settled(t), SettledRead(t), Continue(t),
         author' \in {"tab", "other", "lost", "read"},
         late' = late \/ (late' = req /\ req.at \in {"sent", "written"}),
         UNCHANGED <<disk, stamp, missed, timer, read>>
  PROVE  Ind'
<1>1. /\ t \in Tabs /\ t.rev \in Nat /\ t.saved \in Nat /\ t.raw = tab.raw /\ t.rev = tab.rev
      /\ t.saving = None /\ t.saved <= t.rev
  BY DEF Settled, Tabs
<1>2. /\ tab' \in Tabs /\ tab'.raw = t.raw /\ tab'.base = t.base /\ tab'.rev = t.rev
      /\ tab'.saved = t.saved /\ tab'.external = t.external
      /\ tab'.kind = t.kind /\ tab'.mtime = t.mtime
      /\ Ends(t) \/ GoesOn(t)
      /\ lock' = IF req' = None /\ lock = "waiting" THEN "held" ELSE lock
      /\ barrier' = IF req' = None /\ barrier # None /\ ~barrier.granted
                    THEN Granted(tab', barrier) ELSE barrier
  BY <1>1, ContinueOutcome
<1>3. Fits(barrier)
  BY FitsNow
<1>4. GoesOn(t) => /\ req'.rev \in Nat /\ req'.rev <= t.rev /\ t.saved < req'.rev
                   /\ req'.rev = t.rev => req'.text = t.raw
  <2>1. ASSUME GoesOn(t), barrier = None
        PROVE  /\ req'.rev \in Nat /\ req'.rev <= t.rev /\ t.saved < req'.rev
               /\ req'.rev = t.rev => req'.text = t.raw
    BY <1>1, <2>1 DEF GoesOn, PutRequests
  <2>2. ASSUME GoesOn(t), barrier # None
        PROVE  /\ req'.rev \in Nat /\ req'.rev <= t.rev /\ t.saved < req'.rev
               /\ req'.rev = t.rev => req'.text = t.raw
    BY <1>1, <1>3, <2>2 DEF GoesOn, PutRequests, Fits
  <2> QED
    BY <2>1, <2>2
<1>5. barrier' # None => /\ barrier # None /\ barrier' \in Barriers
                         /\ barrier'.rev = barrier.rev /\ barrier'.raw = barrier.raw
                         /\ barrier'.early = barrier.early
  <2>1. CASE req' = None /\ barrier # None /\ ~barrier.granted
    BY <1>2, <1>3, <2>1, GrantedFields DEF Fits
  <2>2. CASE ~(req' = None /\ barrier # None /\ ~barrier.granted)
    BY <1>2, <1>3, <2>2 DEF Fits
  <2> QED
    BY <2>1, <2>2
<1>6. TypeOK'
  <2>1. /\ disk' \in Texts /\ stamp' \in Nat /\ author' \in {"tab", "other", "lost", "read"}
        /\ timer' \in BOOLEAN /\ missed' \in BOOLEAN
    BY DEF Ind, TypeOK
  <2>2. tab' \in Tabs /\ tab'.saved <= tab'.rev /\ tab'.mtime <= stamp'
    BY <1>1, <1>2 DEF Settled
  <2>3. /\ (req' = None) = (tab'.saving = None)
        /\ req' # None => /\ req' \in PutRequests /\ req'.rev = tab'.saving
                          /\ req'.base = tab'.base /\ req'.mtime <= stamp'
                          /\ (req'.at = "conflict" => req'.raw # None)
    <3>1. CASE Ends(t)
      BY <1>1, <3>1 DEF Ends
    <3>2. CASE GoesOn(t)
      <4>1. 0 <= stamp
        BY DEF Ind, TypeOK
      <4>2. tab'.saving # None
        BY <1>4, <3>2, TextAssumption DEF GoesOn
      <4> QED
        BY <1>2, <3>2, <4>1, <4>2 DEF GoesOn
    <3> QED
      BY <1>2, <3>1, <3>2
  <2>4. /\ late' # None => late' \in PutRequests /\ late'.at \in {"sent", "written"}
        /\ ~(req' # None /\ req'.at = "written" /\ late' # None /\ late'.at = "written")
    BY <1>2 DEF Ind, TypeOK, Ends, GoesOn
  <2>5. lock' \in {"free", "waiting", "held"} /\ (lock' = "waiting" => req' # None)
    BY <1>2 DEF Ind, TypeOK
  <2>6. /\ barrier' # None => barrier' \in Barriers
        /\ timer' => lock' = "free" /\ barrier' = None
    <3>1. timer => lock = "free" /\ barrier = None
      BY DEF Ind, TypeOK
    <3>2. lock = "free" /\ barrier = None => lock' = "free" /\ barrier' = None
      BY <1>2
    <3> QED
      BY <1>5, <3>1, <3>2
  <2>7. read' # None =>
         /\ read' \in [for : {"poll", "disk", "local"}, at : {"asked", "get", "stat", "done"},
                      seen : Nat, snap : {read'.snap}, mtime : Nat, text : Texts \union {None}]
         /\ read'.mtime <= stamp' /\ (read'.at = "done") = (read'.text # None)
    BY DEF Ind, TypeOK
  <2> QED
    BY <2>1, <2>2, <2>3, <2>4, <2>5, <2>6, <2>7 DEF TypeOK
<1>7. QuietWhileHeld'
  BY <1>2 DEF Ind, QuietWhileHeld, GoesOn
<1>8. ~Unresolved(tab) /\ (read # None => read.for = "poll")
  BY DEF Ind, FlowSound, Unresolved
<1>9. FlowSound'
  <2>1. Unresolved(tab') => req' = None
    BY <1>2 DEF Unresolved, Ends, GoesOn
  <2> QED
    BY <1>8, <2>1 DEF FlowSound
<1>10. RevisionSound'
  <2>1. req' # None => req'.rev <= tab'.rev /\ (req'.rev = tab'.rev => req'.text = tab'.raw)
    BY <1>2, <1>4 DEF Ends
  <2>2. tab'.rev = tab'.saved /\ (req' # None \/ author' \in {"tab", "read"})
          => tab'.raw = tab'.base
    BY <1>2 DEF Ends, GoesOn, Settled
  <2>3. barrier' # None =>
         /\ barrier'.rev <= tab'.rev /\ (barrier'.rev = tab'.rev => barrier'.raw = tab'.raw)
         /\ req' # None /\ req'.rev = barrier'.rev => req'.text = barrier'.raw
    BY <1>1, <1>2, <1>3, <1>5 DEF Fits, Ends, GoesOn
  <2> QED
    BY <2>1, <2>2, <2>3 DEF RevisionSound
<1>11. BarrierSound'
  <2> SUFFICES ASSUME barrier' # None PROVE BarrierSound'
    BY DEF BarrierSound
  <2>1. barrier # None /\ barrier.rev \in Nat /\ (barrier.granted => barrier.early)
    BY <1>3, <1>5 DEF Fits, Barriers, Ind, BarrierSound
  <2>2. CASE req' # None
    <3>1. barrier' = barrier
      BY <1>2, <2>2
    <3>2. req'.rev = barrier.rev
      BY <1>2, <2>1, <2>2 DEF Ends, GoesOn
    <3> QED
      BY <2>1, <2>2, <3>1, <3>2 DEF BarrierSound
  <2>3. CASE req' = None /\ barrier.granted
    <3>1. barrier' = barrier
      BY <1>2, <2>3
    <3> QED
      BY <2>1, <2>3, <3>1 DEF BarrierSound
  <2>4. CASE req' = None /\ ~barrier.granted
    <3>1. barrier' = Granted(tab', barrier)
      BY <1>2, <2>1, <2>4
    <3>2. /\ barrier'.granted /\ barrier'.rev = barrier.rev /\ barrier'.raw = barrier.raw
          /\ ~(tab'.saved < barrier.rev) /\ tab'.status \notin Failed \union {"external"}
      BY <1>3, <2>1, <3>1, GrantedFields DEF Fits
    <3>3. tab' = t
      BY <1>2, <2>4 DEF Ends, GoesOn
    <3>4. tab'.base = barrier.raw
      BY <2>1, <2>4, <3>2, <3>3 DEF Settled
    <3>5. tab'.saved >= barrier.rev
      BY <1>1, <1>2, <2>1, <3>2
    <3> QED
      BY <2>4, <3>2, <3>4, <3>5 DEF BarrierSound
  <2> QED
    BY <2>2, <2>3, <2>4
<1>12. ~Ahead' /\ (req' # None => req'.at = "sent")
  BY <1>2 DEF Ahead, Ends, GoesOn
<1>13. DiskSound'
  BY <1>2, <1>12 DEF DiskSound, Settled
<1>14. ReadSound'
  <2> SUFFICES ASSUME read # None PROVE ReadSound'
    BY DEF ReadSound
  <2>1. read.for = "poll" /\ (read.at = "done") = (read.text # None)
    BY <1>8 DEF Ind, TypeOK
  <2>2. read.at # "asked" => /\ read.snap[1] \in Nat /\ read.snap[2] \in Nat
                             /\ read.snap[1] <= tab.rev
    BY <2>1 DEF Ind, ReadSound
  <2>3. read.at # "asked" /\ read.snap[1] = tab'.rev
          => read.snap[2] <= tab'.saved /\ (req' # None => tab'.saved < req'.rev)
    BY <1>1, <1>2, <1>4 DEF SettledRead, Ends
  <2>4. author' \in {"tab", "read"} /\ read.text # None /\ Speaks' => read.text = tab'.base
    BY <1>1, <1>2, <2>1 DEF SettledRead, Speaks
  <2> QED
    BY <1>1, <1>2, <1>12, <2>1, <2>2, <2>3, <2>4 DEF ReadSound
<1>15. StampSound'
  BY <1>2, <1>12 DEF Ind, StampSound, Settled
<1> QED
  BY <1>6, <1>7, <1>9, <1>10, <1>11, <1>13, <1>14, <1>15 DEF Ind

(* What is known of the tab while it waits for an answer.                  *)
LEMMA WaitingTab ==
  ASSUME Ind, req # None
  PROVE  /\ tab \in Tabs /\ req \in PutRequests /\ tab.saved <= tab.rev /\ tab.mtime <= stamp
         /\ tab.rev \in Nat /\ tab.saved \in Nat /\ req.rev \in Nat /\ stamp \in Nat
         /\ ~Unresolved(tab) /\ tab.external = None
         /\ tab.rev = tab.saved => tab.raw = tab.base
         /\ req.rev <= tab.rev /\ (req.rev = tab.rev => req.text = tab.raw)
         /\ read # None => read.for = "poll"
         /\ read # None /\ read.at # "asked" /\ read.snap[1] = tab.rev =>
              read.snap[2] \in Nat /\ read.snap[2] <= tab.saved /\ tab.saved < req.rev
  BY DEF Ind, TypeOK, Tabs, PutRequests, FlowSound, Unresolved, RevisionSound, ReadSound

LEMMA AnswerHolds == Ind /\ Answer => Ind'
<1> SUFFICES ASSUME Ind, Answer PROVE Ind'
  OBVIOUS
<1> DEFINE t == Answered(tab)
<1>1. /\ req # None /\ req.at \in {"ok", "conflict", "failed"}
      /\ Continue(t) /\ author' = Told(t)
      /\ UNCHANGED <<disk, stamp, missed, timer, late, read>>
  BY DEF Answer
<1>2. author' \in {"tab", "other", "lost", "read"}
  BY <1>1 DEF Told, Ind, TypeOK
<1>3. CASE req.at = "ok"
  <2>1. t = [tab EXCEPT !.base = req.text, !.saved = req.rev, !.saving = None,
                        !.status = IF tab.rev = req.rev THEN "saved" ELSE "dirty",
                        !.mtime = req.mtime, !.kind = None]
    BY <1>1, <1>3, WaitingTab DEF Answered, Stored
  <2>2. req.text \in Texts /\ req.mtime \in Nat /\ req.mtime <= stamp
    BY <1>1 DEF Ind, TypeOK, PutRequests
  <2>3. /\ t \in Tabs /\ t.raw = tab.raw /\ t.rev = tab.rev /\ t.saving = None
        /\ t.base = req.text /\ t.saved = req.rev /\ t.mtime = req.mtime
        /\ t.external = None /\ t.status \in {"saved", "dirty"}
    BY <1>1, <2>1, <2>2, WaitingTab DEF Tabs, Status
  <2> HIDE DEF t
  <2>4. author' \in {"tab", "read"} => disk = t.base
    BY <1>1, <1>3, <2>3 DEF Told, Ind, TypeOK, DiskSound, Ahead
  <2>5. t.mtime = stamp /\ ~missed => disk = t.base
    BY <1>1, <1>3, <2>3 DEF Ind, StampSound
  <2>6. barrier # None /\ ~barrier.granted /\ ~(t.saved < barrier.rev) => t.base = barrier.raw
    <3> SUFFICES ASSUME barrier # None, ~barrier.granted, ~(t.saved < barrier.rev)
                 PROVE  t.base = barrier.raw
      OBVIOUS
    <3>1. barrier.rev \in Nat /\ req.rev <= barrier.rev
      BY DEF Ind, TypeOK, Barriers, BarrierSound
    <3>2. req.rev = barrier.rev
      BY <1>1, <2>3, <3>1, WaitingTab
    <3> QED
      BY <1>1, <2>3, <3>2 DEF Ind, RevisionSound
  <2>7. Settled(t)
    BY <1>1, <2>2, <2>3, <2>4, <2>5, <2>6, WaitingTab DEF Settled
  <2>8. SettledRead(t)
    BY <1>1, <2>3, WaitingTab DEF SettledRead
  <2> QED
    BY <1>1, <1>2, <2>7, <2>8, SettledHolds
<1>4. CASE req.at = "conflict"
  <2>1. t = [tab EXCEPT !.external = req.raw, !.kind = "modified", !.mtime = req.mtime,
                        !.status = "external", !.saving = None]
    BY <1>4 DEF Answered, Refused
  <2>2. req.raw \in Texts /\ req.raw # None /\ req.mtime \in Nat /\ req.mtime <= stamp
    BY <1>1, <1>4 DEF Ind, TypeOK, PutRequests
  <2>3. /\ t \in Tabs /\ t.raw = tab.raw /\ t.rev = tab.rev /\ t.saving = None
        /\ t.base = tab.base /\ t.saved = tab.saved /\ t.mtime = req.mtime
        /\ t.external = req.raw /\ t.status = "external"
    BY <1>1, <2>1, <2>2, WaitingTab DEF Tabs, Status
  <2> HIDE DEF t
  <2>4. author' \notin {"tab", "read"}
    <3>1. author \notin {"tab", "read"}
      BY <1>1, <1>4 DEF Ind, DiskSound
    <3> QED
      BY <1>1, <2>3, <3>1 DEF Told, Unresolved
  <2>5. t.mtime = stamp /\ ~missed => disk = t.external
    BY <1>1, <1>4, <2>3 DEF Ind, StampSound
  <2>6. Settled(t)
    BY <1>1, <2>2, <2>3, <2>4, <2>5, WaitingTab DEF Settled
  <2>7. SettledRead(t)
    BY <1>1, <2>3, <2>4, WaitingTab DEF SettledRead
  <2> QED
    BY <1>1, <1>2, <2>6, <2>7, SettledHolds
<1>5. CASE req.at = "failed"
  <2>1. t = [tab EXCEPT !.status = "error", !.saving = None]
    BY <1>5 DEF Answered
  <2>2. /\ t \in Tabs /\ t.raw = tab.raw /\ t.rev = tab.rev /\ t.saving = None
        /\ t.base = tab.base /\ t.saved = tab.saved /\ t.mtime = tab.mtime
        /\ t.external = None /\ t.status = "error"
    BY <1>1, <2>1, WaitingTab DEF Tabs, Status
  <2> HIDE DEF t
  <2>3. ~Ahead
    BY <1>5 DEF Ahead
  <2>4. author' \in {"tab", "read"} => disk = t.base
    BY <1>1, <2>2, <2>3 DEF Told, Ind, TypeOK, DiskSound
  <2>5. t.mtime = stamp /\ ~missed => disk = t.base
    BY <1>1, <2>2, WaitingTab DEF Ind, StampSound
  <2>6. Settled(t)
    BY <1>1, <2>2, <2>4, <2>5, WaitingTab DEF Settled, Failed
  <2>7. ASSUME author' \in {"tab", "read"}, read # None, read.text # None, read.at # "asked",
               read.snap[1] = tab.rev, read.snap[2] = t.saved, read.snap[3] = t.base
        PROVE  read.text = t.base
    <3>1. CASE author \in {"tab", "read"}
      <4>1. Speaks
        BY <2>2, <2>7 DEF Speaks
      <4> QED
        BY <1>1, <2>2, <2>3, <2>7, <3>1, <4>1, WaitingTab DEF Ind, ReadSound
    <3>2. CASE author \notin {"tab", "read"}
      BY <1>1, <2>4, <2>7, <3>2 DEF Told
    <3> QED
      BY <3>1, <3>2
  <2>8. SettledRead(t)
    BY <1>1, <2>2, <2>7, WaitingTab DEF SettledRead
  <2> QED
    BY <1>1, <1>2, <2>6, <2>8, SettledHolds
<1> QED
  BY <1>1, <1>3, <1>4, <1>5

LEMMA LoseAnswerHolds == Ind /\ LoseAnswer => Ind'
<1> SUFFICES ASSUME Ind, LoseAnswer PROVE Ind'
  OBVIOUS
<1>1. PICK f \in Failed : Continue([tab EXCEPT !.status = f, !.saving = None])
  BY DEF LoseAnswer
<1> DEFINE t == [tab EXCEPT !.status = f, !.saving = None]
<1>2. /\ req # None
      /\ late' = late \/ (late' = req /\ req.at \in {"sent", "written"})
      /\ author' = IF disk # tab.base /\ author \in {"tab", "read"} THEN "lost" ELSE author
      /\ UNCHANGED <<disk, stamp, missed, timer, read>>
  BY DEF LoseAnswer
<1>3. /\ t \in Tabs /\ t.raw = tab.raw /\ t.rev = tab.rev /\ t.saving = None
      /\ t.base = tab.base /\ t.saved = tab.saved /\ t.mtime = tab.mtime
      /\ t.external = None /\ t.status = f
  BY <1>2, WaitingTab DEF Tabs, Status, Failed
<1>4. Continue(t)
  BY <1>1
<1> HIDE DEF t
<1>5. author' \in {"tab", "other", "lost", "read"}
  BY <1>2 DEF Ind, TypeOK
<1>6. author' \in {"tab", "read"} => disk = tab.base /\ author \in {"tab", "read"}
  BY <1>2
<1>7. tab.mtime = stamp /\ ~missed => disk = tab.base
  BY <1>2, WaitingTab DEF Ind, StampSound
<1>8. Settled(t)
  BY <1>2, <1>3, <1>6, <1>7, WaitingTab DEF Settled
<1>9. ASSUME author' \in {"tab", "read"}, read # None, read.text # None, read.at # "asked",
             read.snap[1] = tab.rev, read.snap[2] = t.saved, read.snap[3] = t.base
      PROVE  read.text = t.base
  <2>1. Speaks
    BY <1>3, <1>9 DEF Speaks
  <2>2. read.text = tab.base \/ (Ahead /\ req.text # tab.base)
    BY <1>2, <1>6, <1>9, <2>1, WaitingTab DEF Ind, ReadSound
  <2>3. Ahead => disk = req.text
    BY <1>6, <1>9 DEF Ind, DiskSound
  <2> QED
    BY <1>3, <1>6, <1>9, <2>2, <2>3
<1>10. SettledRead(t)
  BY <1>2, <1>3, <1>9, WaitingTab DEF SettledRead
<1> QED
  BY <1>2, <1>4, <1>5, <1>8, <1>10, SettledHolds

(***************************************************************************)
(* The server and the other programs.                                      *)
(***************************************************************************)
SameRequest ==
  /\ (req' = None) = (req = None)
  /\ req # None => /\ req' \in PutRequests /\ req'.rev = req.rev /\ req'.text = req.text
                   /\ req'.base = req.base /\ req'.mtime <= stamp'
                   /\ (req'.at = "conflict" => req'.raw # None)

LateStays ==
  /\ late' # None => late' \in PutRequests /\ late'.at \in {"sent", "written"}
  /\ ~(req' # None /\ req'.at = "written" /\ late' # None /\ late'.at = "written")

(* A step on the server leaves all that the browser keeps alone.           *)
LEMMA ServerKeeps ==
  ASSUME Ind, SameRequest, LateStays, UNCHANGED <<tab, timer, read, lock, barrier>>,
         disk' \in Texts, stamp' \in Nat, stamp <= stamp', missed' \in BOOLEAN,
         author' \in {"tab", "other", "lost", "read"},
         author' \in {"tab", "read"} => author' = author \/ req # None
  PROVE  TypeOK' /\ QuietWhileHeld' /\ FlowSound' /\ RevisionSound' /\ BarrierSound'
<1>1. TypeOK'
  <2>1. /\ timer' \in BOOLEAN
        /\ tab' \in Tabs /\ tab'.saved <= tab'.rev
        /\ lock' \in {"free", "waiting", "held"} /\ (lock' = "waiting" => req' # None)
        /\ barrier' # None => barrier' \in Barriers
        /\ timer' => lock' = "free" /\ barrier' = None
    BY DEF Ind, TypeOK, SameRequest
  <2>2. tab'.mtime <= stamp'
    <3>1. tab.mtime \in Nat /\ stamp \in Nat /\ tab.mtime <= stamp
      BY DEF Ind, TypeOK, Tabs
    <3> QED
      BY <3>1
  <2>3. /\ (req' = None) = (tab'.saving = None)
        /\ req' # None => /\ req' \in PutRequests /\ req'.rev = tab'.saving
                          /\ req'.base = tab'.base /\ req'.mtime <= stamp'
                          /\ (req'.at = "conflict" => req'.raw # None)
    BY DEF Ind, TypeOK, SameRequest
  <2>4. read' # None =>
         /\ read' \in [for : {"poll", "disk", "local"}, at : {"asked", "get", "stat", "done"},
                      seen : Nat, snap : {read'.snap}, mtime : Nat, text : Texts \union {None}]
         /\ read'.mtime <= stamp' /\ (read'.at = "done") = (read'.text # None)
    <3>1. read # None => read.mtime \in Nat /\ stamp \in Nat /\ read.mtime <= stamp
      BY DEF Ind, TypeOK
    <3>2. read' # None => read'.mtime <= stamp'
      BY <3>1
    <3> QED
      BY <3>2 DEF Ind, TypeOK
  <2> QED
    BY <2>1, <2>2, <2>3, <2>4 DEF TypeOK, LateStays
<1>2. QuietWhileHeld'
  BY DEF Ind, QuietWhileHeld, SameRequest
<1>3. FlowSound'
  BY DEF Ind, FlowSound, SameRequest
<1>4. RevisionSound'
  BY DEF Ind, RevisionSound, SameRequest
<1>5. BarrierSound'
  BY DEF Ind, BarrierSound, SameRequest
<1> QED
  BY <1>1, <1>2, <1>3, <1>4, <1>5

(* A write gives the file an mtime that nobody has.                        *)
LEMMA NewStamp ==
  ASSUME Ind, stamp' = stamp + 1, UNCHANGED <<tab, read>>,
         req' # None => req'.at \in {"sent", "written", "failed"} \/ (req # None /\ req'.mtime = req.mtime)
  PROVE  StampSound'
<1>1. stamp \in Nat /\ tab.mtime \in Nat /\ tab.mtime <= stamp /\ tab'.mtime # stamp'
  BY DEF Ind, TypeOK, Tabs
<1>2. read # None => read.mtime \in Nat /\ read.mtime <= stamp
  BY DEF Ind, TypeOK
<1>3. read' # None => read'.mtime # stamp'
  BY <1>1, <1>2
<1>4. req # None => req.mtime \in Nat /\ req.mtime <= stamp
  BY DEF Ind, TypeOK, PutRequests
<1>5. req # None /\ req'.mtime = req.mtime => req'.mtime # stamp'
  BY <1>1, <1>4
<1> QED
  BY <1>1, <1>3, <1>5 DEF StampSound

LEMMA ReplyCases ==
  ASSUME NEW r \in PutRequests, disk \in Texts, stamp \in Nat
  PROVE  /\ disk = r.text =>
              /\ Reply(r) = [r EXCEPT !.at = "ok", !.mtime = stamp]
              /\ Reply(r) \in PutRequests /\ Reply(r) # None
         /\ disk # r.text /\ disk # r.base =>
              /\ Reply(r) = [r EXCEPT !.at = "conflict", !.raw = disk, !.mtime = stamp]
              /\ Reply(r) \in PutRequests /\ Reply(r) # None
         /\ disk # r.text /\ disk = r.base => Reply(r) = None
<1>1. CASE disk = r.text
  <2>1. [r EXCEPT !.at = "ok", !.mtime = stamp] \in PutRequests
    BY DEF PutRequests
  <2> QED
    BY <1>1, <2>1, RecordsAssumption DEF Reply
<1>2. CASE disk # r.text /\ disk # r.base
  <2>1. [r EXCEPT !.at = "conflict", !.raw = disk, !.mtime = stamp] \in PutRequests
    BY DEF PutRequests
  <2> QED
    BY <1>2, <2>1, RecordsAssumption DEF Reply
<1>3. CASE disk # r.text /\ disk = r.base
  BY <1>3 DEF Reply
<1> QED
  BY <1>1, <1>2, <1>3

LEMMA PutRequestHolds == Ind /\ PutRequest => Ind'
<1> SUFFICES ASSUME Ind, PutRequest PROVE Ind'
  OBVIOUS
<1>1. /\ req # None /\ req.at = "sent" /\ LockFree /\ Put(req, "tab") /\ req' = After(req)
      /\ UNCHANGED <<tab, timer, late, read, lock, barrier>>
  BY DEF PutRequest
<1>2. /\ req \in PutRequests /\ req.base = tab.base /\ req.mtime <= stamp
      /\ disk \in Texts /\ stamp \in Nat /\ missed \in BOOLEAN
      /\ author \in {"tab", "other", "lost", "read"}
      /\ late # None => late \in PutRequests /\ late.at = "sent"
  BY <1>1 DEF Ind, TypeOK, LockFree
<1>3. tab.external = None /\ ~Ahead /\ (read # None => read.for = "poll")
  BY <1>1, WaitingTab DEF Ahead
<1>4. CASE disk = req.text
  <2>1. /\ req' = [req EXCEPT !.at = "ok", !.mtime = stamp] /\ req' \in PutRequests
        /\ req' # None /\ UNCHANGED server
    BY <1>1, <1>2, <1>4, ReplyCases DEF After, Put
  <2>2. /\ req'.at = "ok" /\ req'.mtime = stamp /\ req'.text = req.text
        /\ req'.rev = req.rev /\ req'.base = req.base
    BY <1>2, <2>1 DEF PutRequests
  <2>3. UNCHANGED <<disk, stamp, author, missed>>
    BY <2>1 DEF server
  <2>4. SameRequest /\ LateStays
    BY <1>1, <1>2, <2>1, <2>2, <2>3 DEF SameRequest, LateStays
  <2>5. TypeOK' /\ QuietWhileHeld' /\ FlowSound' /\ RevisionSound' /\ BarrierSound'
    BY <1>1, <1>2, <2>3, <2>4, ServerKeeps
  <2>6. DiskSound'
    BY <1>1, <1>3, <1>4, <2>1, <2>2, <2>3 DEF DiskSound, Ahead
  <2>7. ReadSound'
    <3>1. (Ahead /\ req.text # tab.base)' = (req.text # tab.base)
      BY <1>1, <2>1, <2>2 DEF Ahead
    <3>2. Speaks' = Speaks
      BY <1>1 DEF Speaks
    <3> QED
      BY <1>1, <1>3, <2>1, <2>2, <2>3, <3>1, <3>2 DEF Ind, ReadSound
  <2>8. StampSound'
    BY <1>1, <1>4, <2>2, <2>3 DEF Ind, StampSound
  <2> QED
    BY <2>5, <2>6, <2>7, <2>8 DEF Ind
<1>5. CASE disk # req.text /\ disk # req.base
  <2>1. /\ req' = [req EXCEPT !.at = "conflict", !.raw = disk, !.mtime = stamp]
        /\ req' \in PutRequests /\ req' # None /\ UNCHANGED server
    BY <1>1, <1>2, <1>5, ReplyCases DEF After, Put
  <2>2. /\ req'.at = "conflict" /\ req'.mtime = stamp /\ req'.text = req.text
        /\ req'.rev = req.rev /\ req'.base = req.base /\ req'.raw = disk
    BY <1>2, <2>1 DEF PutRequests
  <2>3. UNCHANGED <<disk, stamp, author, missed>>
    BY <2>1 DEF server
  <2>4. SameRequest /\ LateStays
    BY <1>1, <1>2, <2>1, <2>2, <2>3, TextAssumption DEF SameRequest, LateStays
  <2>5. TypeOK' /\ QuietWhileHeld' /\ FlowSound' /\ RevisionSound' /\ BarrierSound'
    BY <1>1, <1>2, <2>3, <2>4, ServerKeeps
  <2>6. author \notin {"tab", "read"}
    BY <1>2, <1>3, <1>5 DEF Ind, DiskSound
  <2>7. DiskSound'
    BY <2>3, <2>6 DEF DiskSound
  <2>8. ReadSound'
    BY <1>1, <2>1, <2>2, <2>3, <2>6 DEF Ind, ReadSound
  <2>9. StampSound'
    BY <1>1, <2>2, <2>3 DEF Ind, StampSound
  <2> QED
    BY <2>5, <2>7, <2>8, <2>9 DEF Ind
<1>6. CASE disk # req.text /\ disk = req.base
  <2>1. /\ req' = [req EXCEPT !.at = "written"]
        /\ disk' = req.text /\ stamp' = stamp + 1 /\ author' = "tab" /\ missed' = missed
    BY <1>1, <1>2, <1>6, ReplyCases DEF After, Put
  <2>2. /\ req'.at = "written" /\ req'.mtime = req.mtime /\ req'.text = req.text
        /\ req'.rev = req.rev /\ req'.base = req.base /\ req' \in PutRequests /\ req' # None
    BY <1>2, <2>1, RecordsAssumption DEF PutRequests
  <2>3. req'.mtime <= stamp' /\ disk' \in Texts /\ stamp' \in Nat /\ stamp <= stamp'
    BY <1>2, <2>1, <2>2 DEF PutRequests
  <2>4. SameRequest /\ LateStays
    BY <1>1, <1>2, <2>2, <2>3 DEF SameRequest, LateStays
  <2>5. TypeOK' /\ QuietWhileHeld' /\ FlowSound' /\ RevisionSound' /\ BarrierSound'
    BY <1>1, <1>2, <2>1, <2>3, <2>4, ServerKeeps
  <2>6. DiskSound'
    BY <1>1, <1>3, <2>1, <2>2 DEF DiskSound, Ahead
  <2>7. ReadSound'
    <3>1. (Ahead /\ req.text # tab.base)'
      BY <1>1, <1>2, <1>6, <2>2 DEF Ahead
    <3> QED
      BY <1>1, <1>3, <2>2, <3>1 DEF Ind, ReadSound
  <2>8. StampSound'
    BY <1>1, <2>1, <2>2, NewStamp
  <2> QED
    BY <2>5, <2>6, <2>7, <2>8 DEF Ind
<1> QED
  BY <1>4, <1>5, <1>6

(* A step of another writer, or of a request that nobody waits for.        *)
LEMMA OthersKeep ==
  ASSUME Ind, UNCHANGED <<tab, timer, req, read, lock, barrier>>, LateStays,
         disk' \in Texts, stamp' = stamp + 1, missed' = missed, author' \in {"other", "lost"}
  PROVE  Ind'
<1>1. /\ stamp \in Nat /\ stamp' \in Nat /\ stamp <= stamp' /\ missed' \in BOOLEAN
      /\ author' \notin {"tab", "read"} /\ author' \in {"tab", "other", "lost", "read"}
  BY DEF Ind, TypeOK
<1>2. SameRequest
  <2>1. req # None => req \in PutRequests /\ req.mtime \in Nat /\ req.mtime <= stamp
                      /\ (req.at = "conflict" => req.raw # None)
    BY DEF Ind, TypeOK, PutRequests
  <2> QED
    BY <1>1, <2>1 DEF SameRequest
<1>3. TypeOK' /\ QuietWhileHeld' /\ FlowSound' /\ RevisionSound' /\ BarrierSound'
  BY <1>1, <1>2, ServerKeeps
<1>4. DiskSound'
  BY <1>1 DEF DiskSound
<1>5. ReadSound'
  BY <1>1 DEF Ind, ReadSound
<1>6. StampSound'
  BY NewStamp
<1> QED
  BY <1>3, <1>4, <1>5, <1>6 DEF Ind

(* The late request gives an answer to nobody.                             *)
LEMMA LateEnds ==
  ASSUME Ind, UNCHANGED <<disk, stamp, author, missed, tab, timer, req, read, lock, barrier>>,
         LateStays
  PROVE  Ind'
<1>1. TypeOK'
  BY DEF Ind, TypeOK, LateStays
<1>2. /\ QuietWhileHeld' /\ FlowSound' /\ RevisionSound' /\ BarrierSound'
      /\ DiskSound' /\ ReadSound' /\ StampSound'
  BY DEF Ind, QuietWhileHeld, FlowSound, RevisionSound, BarrierSound, DiskSound, Ahead,
         ReadSound, Speaks, StampSound
<1> QED
  BY <1>1, <1>2 DEF Ind

LEMMA OutsideHolds == Ind /\ Outside => Ind'
<1> SUFFICES ASSUME Ind, Outside PROVE Ind'
  OBVIOUS
<1>1. /\ disk' \in Texts /\ stamp' = stamp + 1 /\ author' = "other" /\ missed' = missed
      /\ UNCHANGED <<tab, timer, req, late, read, lock, barrier>>
  BY DEF Outside
<1>2. LateStays
  BY <1>1 DEF LateStays, Ind, TypeOK
<1> QED
  BY <1>1, <1>2, OthersKeep

LEMMA PutLateHolds == Ind /\ PutLate => Ind'
<1> SUFFICES ASSUME Ind, PutLate PROVE Ind'
  OBVIOUS
<1>1. /\ late # None /\ late.at = "sent" /\ LockFree /\ Put(late, "lost")
      /\ late' = IF After(late).at = "written" THEN After(late) ELSE None
      /\ UNCHANGED <<tab, timer, req, read, lock, barrier>>
  BY DEF PutLate
<1>2. late \in PutRequests /\ disk \in Texts /\ stamp \in Nat
  BY <1>1 DEF Ind, TypeOK
<1>3. req # None => req.at # "written"
  BY <1>1 DEF LockFree
<1>4. CASE Reply(late) # None
  <2>1. UNCHANGED <<disk, stamp, author, missed>>
    BY <1>1, <1>4 DEF Put, server
  <2>2. Reply(late).at \in {"ok", "conflict"}
    BY <1>2, <1>4, ReplyCases DEF PutRequests
  <2>3. late' = None
    BY <1>1, <1>4, <2>2 DEF After
  <2>4. LateStays
    BY <2>3 DEF LateStays
  <2> QED
    BY <1>1, <2>1, <2>4, LateEnds
<1>5. CASE Reply(late) = None
  <2>1. /\ disk' = late.text /\ stamp' = stamp + 1 /\ author' = "lost" /\ missed' = missed
        /\ After(late) = [late EXCEPT !.at = "written"]
    BY <1>1, <1>5 DEF Put, After
  <2>2. [late EXCEPT !.at = "written"] \in PutRequests
    BY <1>2 DEF PutRequests
  <2>3. late' \in PutRequests /\ late'.at = "written" /\ disk' \in Texts
    BY <1>1, <1>2, <2>1, <2>2 DEF PutRequests
  <2>4. LateStays
    BY <1>1, <1>3, <2>3 DEF LateStays
  <2> QED
    BY <1>1, <2>1, <2>3, <2>4, OthersKeep
<1> QED
  BY <1>4, <1>5

LEMMA RecordHolds == Ind /\ RecordMetadata => Ind'
<1> SUFFICES ASSUME Ind, RecordMetadata PROVE Ind'
  OBVIOUS
<1>1. Record /\ UNCHANGED <<disk, stamp, author, tab, timer, read, lock, barrier>>
  BY DEF RecordMetadata
<1>2. CASE /\ req # None /\ req.at = "written"
           /\ req' = [req EXCEPT !.at = "ok", !.mtime = stamp]
           /\ missed' = (missed \/ disk # req.text)
           /\ UNCHANGED late
  <2>1. /\ req \in PutRequests /\ req.base = tab.base /\ disk \in Texts /\ stamp \in Nat
        /\ missed \in BOOLEAN /\ author \in {"tab", "other", "lost", "read"}
        /\ late # None => late \in PutRequests /\ late.at \in {"sent", "written"}
    BY <1>2 DEF Ind, TypeOK
  <2>2. /\ req' \in PutRequests /\ req'.at = "ok" /\ req'.mtime = stamp
        /\ req'.rev = req.rev /\ req'.text = req.text /\ req'.base = req.base
    BY <1>2, <2>1 DEF PutRequests
  <2>3. req' # None
    BY <2>2, RecordsAssumption
  <2>4. SameRequest /\ LateStays
    BY <1>1, <1>2, <2>1, <2>2, <2>3 DEF SameRequest, LateStays
  <2>5. missed' \in BOOLEAN
    BY <1>2
  <2>6. TypeOK' /\ QuietWhileHeld' /\ FlowSound' /\ RevisionSound' /\ BarrierSound'
    BY <1>1, <2>1, <2>4, <2>5, ServerKeeps
  <2>7. Ahead /\ Ahead'
    BY <1>2, <2>2, <2>3 DEF Ahead
  <2>8. DiskSound'
    BY <1>1, <2>2, <2>7 DEF Ind, DiskSound
  <2>9. ReadSound'
    <3>1. Speaks' = Speaks
      BY <1>1 DEF Speaks
    <3> QED
      BY <1>1, <1>2, <2>2, <2>7, <3>1 DEF Ind, ReadSound
  <2>10. StampSound'
    <3>1. ~missed' => ~missed /\ disk = req.text
      BY <1>2, <2>1
    <3> QED
      BY <1>1, <2>2, <3>1 DEF Ind, StampSound
  <2> QED
    BY <2>6, <2>8, <2>9, <2>10 DEF Ind
<1>3. CASE late' = None /\ UNCHANGED <<req, missed>>
  <2>1. LateStays
    BY <1>3 DEF LateStays
  <2> QED
    BY <1>1, <1>3, <2>1, LateEnds
<1> QED
  BY <1>1, <1>2, <1>3 DEF Record

LEMMA MetadataFailsHolds == Ind /\ MetadataFails => Ind'
<1> SUFFICES ASSUME Ind, MetadataFails PROVE Ind'
  OBVIOUS
<1>1. missed' = missed /\ UNCHANGED <<tab, timer, read, lock, barrier>>
  BY DEF MetadataFails
<1>2. CASE /\ req # None /\ req.at = "written" /\ PutBack(req, "tab")
           /\ req' = [req EXCEPT !.at = "failed"] /\ UNCHANGED late
  <2>1. /\ req \in PutRequests /\ req.base = tab.base /\ disk \in Texts /\ stamp \in Nat
        /\ missed \in BOOLEAN /\ author \in {"tab", "other", "lost", "read"}
        /\ req.mtime \in Nat /\ req.mtime <= stamp
        /\ late # None => late \in PutRequests /\ late.at \in {"sent", "written"}
    BY <1>2 DEF Ind, TypeOK, PutRequests
  <2>2. /\ req' \in PutRequests /\ req'.at = "failed" /\ req'.mtime = req.mtime
        /\ req'.rev = req.rev /\ req'.text = req.text /\ req'.base = req.base
    BY <1>2, <2>1 DEF PutRequests
  <2>3. req' # None /\ ~Ahead' /\ Ahead
    BY <1>2, <2>2, RecordsAssumption DEF Ahead
  <2>4. /\ disk' \in Texts /\ stamp' \in Nat /\ stamp <= stamp'
        /\ author' \in {"tab", "other", "lost", "read"}
    BY <1>2, <2>1 DEF PutBack, PutRequests
  <2>5. req'.mtime <= stamp'
    BY <2>1, <2>2, <2>4
  <2>6. SameRequest /\ LateStays
    BY <1>1, <1>2, <2>1, <2>2, <2>3, <2>5 DEF SameRequest, LateStays
  <2>7. TypeOK' /\ QuietWhileHeld' /\ FlowSound' /\ RevisionSound' /\ BarrierSound'
    BY <1>1, <1>2, <2>1, <2>4, <2>6, ServerKeeps
  <2>8. tab.external = None /\ (read # None => read.for = "poll")
    BY <1>2, WaitingTab
  <2>9. CASE disk = req.text
    <3>1. /\ disk' = req.base /\ stamp' = stamp + 1
          /\ author' = IF read # None /\ read.text \notin {None, req.base} THEN "lost" ELSE "tab"
      BY <1>2, <2>9 DEF PutBack
    <3>2. DiskSound'
      BY <1>1, <2>1, <2>2, <2>3, <2>8, <3>1 DEF DiskSound
    <3>3. ReadSound'
      BY <1>1, <1>2, <2>1, <2>2, <2>3, <2>8, <3>1 DEF Ind, ReadSound
    <3>4. StampSound'
      BY <1>1, <2>2, <3>1, NewStamp
    <3> QED
      BY <2>7, <3>2, <3>3, <3>4 DEF Ind
  <2>10. CASE disk # req.text
    <3>1. UNCHANGED <<disk, stamp, author>>
      BY <1>2, <2>10 DEF PutBack
    <3>2. author \notin {"tab", "read"}
      BY <2>3, <2>10 DEF Ind, DiskSound
    <3>3. DiskSound'
      BY <3>1, <3>2 DEF DiskSound
    <3>4. ReadSound'
      BY <1>1, <1>2, <2>2, <2>3, <3>1, <3>2 DEF Ind, ReadSound
    <3>5. StampSound'
      BY <1>1, <2>2, <3>1 DEF Ind, StampSound
    <3> QED
      BY <2>7, <3>3, <3>4, <3>5 DEF Ind
  <2> QED
    BY <2>9, <2>10
<1>3. CASE /\ late # None /\ late.at = "written" /\ PutBack(late, "lost")
           /\ late' = None /\ UNCHANGED req
  <2>1. late \in PutRequests
    BY <1>3 DEF Ind, TypeOK
  <2>2. LateStays
    BY <1>3 DEF LateStays
  <2>3. CASE disk = late.text
    <3>1. disk' = late.base /\ stamp' = stamp + 1 /\ author' = "lost"
      BY <1>3, <2>3 DEF PutBack
    <3>2. disk' \in Texts
      BY <2>1, <3>1 DEF PutRequests
    <3> QED
      BY <1>1, <1>3, <2>2, <3>1, <3>2, OthersKeep
  <2>4. CASE disk # late.text
    <3>1. UNCHANGED <<disk, stamp, author>>
      BY <1>3, <2>4 DEF PutBack
    <3> QED
      BY <1>1, <1>3, <2>2, <3>1, LateEnds
  <2> QED
    BY <2>3, <2>4
<1> QED
  BY <1>2, <1>3 DEF MetadataFails

(***************************************************************************)
(* The editor and the barriers of a file operation.                        *)
(***************************************************************************)
LEMMA ScheduledIsFree ==
  ASSUME NEW t, NEW held, NEW bar, timer \in BOOLEAN
  PROVE  /\ Scheduled(t, held, bar) \in BOOLEAN
         /\ Scheduled(t, held, bar) => timer \/ (held = "free" /\ bar = None)
<1>1. CASE held = "free" /\ bar = None /\ ~Unresolved(t)
  BY <1>1 DEF Scheduled
<1>2. CASE ~(held = "free" /\ bar = None /\ ~Unresolved(t))
  BY <1>2 DEF Scheduled
<1> QED
  BY <1>1, <1>2

LEMMA EditHolds == Ind /\ Edit => Ind'
<1> SUFFICES ASSUME Ind, Edit PROVE Ind'
  OBVIOUS
<1>1. PICK text \in Texts \ {tab.raw} : tab' = Edited(tab, text)
  BY DEF Edit
<1>2. /\ timer' = Scheduled(tab', lock, barrier)
      /\ UNCHANGED <<disk, stamp, author, missed, req, late, read, lock, barrier>>
  BY DEF Edit, server
<1>3. /\ tab \in Tabs /\ tab.rev \in Nat /\ tab.saved \in Nat /\ tab.saved <= tab.rev
      /\ tab.mtime <= stamp
  BY DEF Ind, TypeOK, Tabs
<1>4. /\ tab' \in Tabs /\ tab'.raw = text /\ tab'.base = tab.base /\ tab'.rev = tab.rev + 1
      /\ tab'.saving = tab.saving /\ tab'.external = tab.external /\ tab'.mtime = tab.mtime
      /\ Unresolved(tab) => tab'.status = "external" /\ tab'.saved = tab.saved
      /\ ~Unresolved(tab) =>
           /\ tab'.status \in {"idle", "dirty"}
           /\ tab'.saved = IF text = tab.base THEN tab.rev + 1 ELSE tab.saved
  <2>1. CASE Unresolved(tab)
    <3>1. tab' = [tab EXCEPT !.raw = text, !.rev = @ + 1, !.status = "external"]
      BY <1>1, <1>3, <2>1 DEF Edited, Unresolved, Tabs
    <3>2. tab.rev + 1 \in Nat /\ text \in Texts
      BY <1>1, <1>3
    <3>3. tab' \in Tabs
      BY <1>3, <3>1, <3>2 DEF Tabs, Status
    <3>4. /\ tab'.raw = text /\ tab'.base = tab.base /\ tab'.rev = tab.rev + 1
          /\ tab'.saving = tab.saving /\ tab'.external = tab.external
          /\ tab'.mtime = tab.mtime /\ tab'.status = "external" /\ tab'.saved = tab.saved
      BY <1>3, <3>1 DEF Tabs
    <3> QED
      BY <2>1, <3>3, <3>4
  <2>2. CASE ~Unresolved(tab)
    <3> DEFINE saved == IF text = tab.base THEN tab.rev + 1 ELSE tab.saved
           status == IF saved = tab.rev + 1 THEN "idle" ELSE "dirty"
    <3>1. /\ saved \in Nat /\ tab.rev + 1 \in Nat /\ text \in Texts
          /\ status \in {"idle", "dirty"} /\ status \in Status
      BY <1>1, <1>3 DEF Status
    <3>2. tab' = [tab EXCEPT !.raw = text, !.rev = @ + 1, !.saved = saved, !.status = status]
      BY <1>1, <1>3, <2>2 DEF Edited, Unresolved, Tabs
    <3>3. saved = IF text = tab.base THEN tab.rev + 1 ELSE tab.saved
      OBVIOUS
    <3> HIDE DEF saved, status
    <3>4. tab' \in Tabs
      BY <1>3, <3>1, <3>2 DEF Tabs
    <3>5. /\ tab'.raw = text /\ tab'.base = tab.base /\ tab'.rev = tab.rev + 1
          /\ tab'.saving = tab.saving /\ tab'.external = tab.external
          /\ tab'.mtime = tab.mtime /\ tab'.status = status /\ tab'.saved = saved
      BY <1>3, <3>2 DEF Tabs
    <3> QED
      BY <2>2, <3>1, <3>3, <3>4, <3>5
  <2> QED
    BY <2>1, <2>2
<1>5. Unresolved(tab') = Unresolved(tab)
  BY <1>4 DEF Unresolved
<1>6. /\ tab'.saved \in Nat /\ tab'.saved <= tab'.rev /\ tab'.saved >= tab.saved
      /\ tab'.rev = tab'.saved => tab'.raw = tab'.base
  BY <1>3, <1>4
<1>7. timer' \in BOOLEAN /\ (timer' => lock = "free" /\ barrier = None)
  BY <1>2, ScheduledIsFree DEF Ind, TypeOK
<1>8. req # None => req.rev \in Nat /\ req.rev <= tab.rev
  BY DEF Ind, TypeOK, PutRequests, RevisionSound
<1>9. TypeOK'
  BY <1>2, <1>3, <1>4, <1>6, <1>7 DEF Ind, TypeOK
<1>10. QuietWhileHeld' /\ FlowSound'
  <2>1. QuietWhileHeld'
    BY <1>2 DEF Ind, QuietWhileHeld
  <2>2. tab.status = "external" => tab'.status = "external"
    BY <1>4 DEF Unresolved
  <2> QED
    BY <1>2, <1>5, <2>1, <2>2 DEF Ind, FlowSound
<1>11. RevisionSound'
  <2>1. barrier # None => barrier.rev \in Nat /\ barrier.rev <= tab.rev
    BY DEF Ind, TypeOK, Barriers, RevisionSound
  <2>2. barrier # None /\ req # None /\ req.rev = barrier.rev => req.text = barrier.raw
    BY DEF Ind, RevisionSound
  <2> QED
    BY <1>2, <1>3, <1>4, <1>6, <1>8, <2>1, <2>2 DEF RevisionSound
<1>12. BarrierSound'
  <2>1. barrier # None => barrier.rev \in Nat
    BY DEF Ind, TypeOK, Barriers
  <2> QED
    BY <1>2, <1>3, <1>4, <1>6, <2>1 DEF Ind, BarrierSound
<1>13. DiskSound'
  BY <1>2, <1>4 DEF Ind, DiskSound, Ahead
<1>14. ReadSound'
  <2> SUFFICES ASSUME read # None PROVE ReadSound'
    BY <1>2 DEF ReadSound
  <2>1. read.for = "poll" /\ read.at # "asked" =>
          read.snap[1] \in Nat /\ read.snap[2] \in Nat /\ read.snap[1] <= tab.rev
    BY DEF Ind, ReadSound
  <2>2. read.text # None => read.at # "asked"
    BY DEF Ind, TypeOK
  <2>3. read.for = "poll" /\ read.at # "asked" => read.snap[1] # tab'.rev
    BY <1>3, <1>4, <2>1
  <2>4. author \in {"tab", "read"} /\ read.text # None /\ read.for # "poll" => read.text = disk
    BY DEF Ind, ReadSound
  <2> QED
    BY <1>2, <1>3, <1>4, <2>1, <2>2, <2>3, <2>4 DEF ReadSound, Speaks
<1>15. StampSound'
  BY <1>2, <1>4 DEF Ind, StampSound
<1> QED
  BY <1>9, <1>10, <1>11, <1>12, <1>13, <1>14, <1>15 DEF Ind

(* The barrier of a file operation goes up, or down.                       *)
LEMMA LockSteps ==
  ASSUME Ind, UNCHANGED <<server, tab, req, late, read, barrier>>,
         lock' \in {"free", "waiting", "held"}, lock' = "waiting" => req # None,
         lock' = "held" => req = None,
         timer' \in BOOLEAN, timer' => lock' = "free" /\ barrier = None
  PROVE  Ind'
<1>1. TypeOK'
  BY DEF Ind, TypeOK, server
<1>2. /\ QuietWhileHeld' /\ FlowSound' /\ RevisionSound' /\ BarrierSound'
      /\ DiskSound' /\ ReadSound' /\ StampSound'
  BY DEF Ind, QuietWhileHeld, FlowSound, RevisionSound, BarrierSound, DiskSound, Ahead,
         ReadSound, Speaks, StampSound, server
<1> QED
  BY <1>1, <1>2 DEF Ind

LEMMA PrepareMutationHolds == Ind /\ PrepareMutation => Ind'
<1> SUFFICES ASSUME Ind, PrepareMutation PROVE Ind'
  OBVIOUS
<1>1. /\ lock' = IF req = None THEN "held" ELSE "waiting"
      /\ timer' = FALSE /\ UNCHANGED <<server, tab, req, late, read, barrier>>
  BY DEF PrepareMutation
<1> QED
  BY <1>1, LockSteps

LEMMA SettleMutationHolds == Ind /\ SettleMutation => Ind'
<1> SUFFICES ASSUME Ind, SettleMutation PROVE Ind'
  OBVIOUS
<1>1. /\ lock = "held" /\ lock' = "free"
      /\ timer' = IF tab.rev # tab.saved THEN Scheduled(tab, "free", barrier) ELSE timer
      /\ UNCHANGED <<server, tab, req, late, read, barrier>>
  BY DEF SettleMutation
<1>2. timer \in BOOLEAN /\ ~timer
  BY <1>1 DEF Ind, TypeOK
<1>3. timer' \in BOOLEAN /\ (timer' => lock' = "free" /\ barrier = None)
  <2>1. CASE tab.rev # tab.saved
    BY <1>1, <1>2, <2>1, ScheduledIsFree
  <2>2. CASE tab.rev = tab.saved
    BY <1>1, <1>2, <2>2
  <2> QED
    BY <2>1, <2>2
<1> QED
  BY <1>1, <1>3, LockSteps

(***************************************************************************)
(* Reads of the disk.                                                      *)
(***************************************************************************)
ReadTyped(r) ==
  r # None =>
    /\ r \in [for : {"poll", "disk", "local"}, at : {"asked", "get", "stat", "done"},
              seen : Nat, snap : {r.snap}, mtime : Nat, text : Texts \union {None}]
    /\ r.mtime <= stamp /\ (r.at = "done") = (r.text # None)
    /\ r.for # "poll" => tab.status = "external" /\ r.at # "asked"
    /\ r.at = "done" /\ r.mtime = stamp => disk = r.text

LEMMA ReadTypedNow == Ind => ReadTyped(read)
  BY DEF Ind, TypeOK, FlowSound, StampSound, ReadTyped

LEMMA ReadSteps ==
  ASSUME Ind, UNCHANGED <<server, tab, timer, req, late, lock, barrier>>,
         ReadTyped(read'), ReadSound'
  PROVE  Ind'
<1>1. UNCHANGED <<disk, stamp, author, missed, tab, timer, req, late, lock, barrier>>
  BY DEF server
<1>2. TypeOK'
  BY <1>1 DEF Ind, TypeOK, ReadTyped
<1>3. QuietWhileHeld' /\ RevisionSound' /\ BarrierSound' /\ DiskSound'
  BY <1>1 DEF Ind, QuietWhileHeld, RevisionSound, BarrierSound, DiskSound, Ahead
<1>4. FlowSound' /\ StampSound'
  BY <1>1 DEF Ind, FlowSound, StampSound, ReadTyped
<1> QED
  BY <1>2, <1>3, <1>4 DEF Ind

LEMMA PollAskHolds == Ind /\ PollAsk => Ind'
<1> SUFFICES ASSUME Ind, PollAsk PROVE Ind'
  OBVIOUS
<1>1. /\ read' = [for |-> "poll", at |-> "asked", seen |-> stamp, snap |-> None,
                  mtime |-> 0, text |-> None]
      /\ UNCHANGED <<server, tab, timer, req, late, lock, barrier>>
  BY DEF PollAsk
<1>2. stamp \in Nat
  BY DEF Ind, TypeOK
<1>3. ReadTyped(read')
  BY <1>1, <1>2 DEF ReadTyped
<1>4. ReadSound'
  BY <1>1 DEF ReadSound
<1> QED
  BY <1>1, <1>3, <1>4, ReadSteps

LEMMA ReadDropped ==
  ASSUME Ind, read' = None, UNCHANGED <<server, tab, timer, req, late, lock, barrier>>
  PROVE  Ind'
  BY ReadSteps DEF ReadTyped, ReadSound

LEMMA PollLookHolds == Ind /\ PollLook => Ind'
<1> SUFFICES ASSUME Ind, PollLook PROVE Ind'
  OBVIOUS
<1> DEFINE skip == tab.saving # None \/ (tab.kind # "unreadable" /\ read.seen = tab.mtime)
<1>1. /\ read # None /\ read.at = "asked"
      /\ read' = IF skip THEN None ELSE [read EXCEPT !.at = "get", !.seen = 0, !.snap = Snapshot(tab)]
      /\ UNCHANGED <<server, tab, timer, req, late, lock, barrier>>
  BY DEF PollLook
<1>2. CASE skip
  BY <1>1, <1>2, ReadDropped
<1>3. CASE ~skip
  <2>1. ReadTyped(read) /\ read.for = "poll"
    BY <1>1, ReadTypedNow DEF ReadTyped
  <2>2. read' = [read EXCEPT !.at = "get", !.seen = 0, !.snap = Snapshot(tab)]
    BY <1>1, <1>3
  <2>3. /\ read'.for = "poll" /\ read'.at = "get" /\ read'.text = None
        /\ read'.snap = Snapshot(tab) /\ read'.mtime = read.mtime
        /\ read' \in [for : {"poll", "disk", "local"}, at : {"asked", "get", "stat", "done"},
                      seen : Nat, snap : {read'.snap}, mtime : Nat, text : Texts \union {None}]
    <3> DEFINE snap == Snapshot(tab)
    <3>1. /\ read \in [for : {"poll", "disk", "local"}, at : {"asked", "get", "stat", "done"},
                       seen : Nat, snap : {read.snap}, mtime : Nat, text : Texts \union {None}]
          /\ read.text = None
      BY <1>1, <2>1 DEF ReadTyped
    <3>2. read' = [read EXCEPT !.at = "get", !.seen = 0, !.snap = snap]
      BY <2>2
    <3> HIDE DEF snap
    <3>3. read' = [for |-> read.for, at |-> "get", seen |-> 0, snap |-> snap,
                   mtime |-> read.mtime, text |-> read.text]
      BY <3>1, <3>2
    <3>4. read'.snap = snap
      BY <3>3
    <3> QED
      BY <2>1, <3>1, <3>3, <3>4 DEF snap
  <2>4. ReadTyped(read')
    BY <1>1, <2>1, <2>3 DEF ReadTyped
  <2>5. ReadSound'
    <3>1. tab.rev \in Nat /\ tab.saved \in Nat /\ tab.saving = None /\ req = None
      BY <1>3 DEF Ind, TypeOK, Tabs
    <3>2. read'.snap[1] = tab.rev /\ read'.snap[2] = tab.saved
      BY <2>3 DEF Snapshot
    <3> QED
      BY <1>1, <2>3, <3>1, <3>2 DEF ReadSound
  <2> QED
    BY <1>1, <2>4, <2>5, ReadSteps
<1> QED
  BY <1>2, <1>3

LEMMA GetStatHolds == Ind /\ GetStat => Ind'
<1> SUFFICES ASSUME Ind, GetStat PROVE Ind'
  OBVIOUS
<1>1. /\ read # None /\ read.at = "get" /\ read' = [read EXCEPT !.at = "stat", !.mtime = stamp]
      /\ UNCHANGED <<server, tab, timer, req, late, lock, barrier>>
  BY DEF GetStat
<1>2. ReadTyped(read) /\ stamp \in Nat
  BY ReadTypedNow DEF Ind, TypeOK
<1>3. /\ read'.for = read.for /\ read'.at = "stat" /\ read'.text = None /\ read'.mtime = stamp
      /\ read'.snap = read.snap
      /\ read' \in [for : {"poll", "disk", "local"}, at : {"asked", "get", "stat", "done"},
                    seen : Nat, snap : {read'.snap}, mtime : Nat, text : Texts \union {None}]
  BY <1>1, <1>2 DEF ReadTyped
<1>4. ReadTyped(read')
  BY <1>1, <1>2, <1>3 DEF ReadTyped
<1>5. ReadSound'
  BY <1>1, <1>3 DEF Ind, ReadSound
<1> QED
  BY <1>1, <1>4, <1>5, ReadSteps

LEMMA GetReadHolds == Ind /\ GetRead => Ind'
<1> SUFFICES ASSUME Ind, GetRead PROVE Ind'
  OBVIOUS
<1>1. /\ read # None /\ read.at = "stat" /\ read' = [read EXCEPT !.at = "done", !.text = disk]
      /\ UNCHANGED <<server, tab, timer, req, late, lock, barrier>>
  BY DEF GetRead
<1>2. ReadTyped(read) /\ disk \in Texts /\ disk # None
  BY ReadTypedNow, TextAssumption DEF Ind, TypeOK
<1>3. /\ read'.for = read.for /\ read'.at = "done" /\ read'.text = disk /\ read'.mtime = read.mtime
      /\ read'.snap = read.snap
      /\ read' \in [for : {"poll", "disk", "local"}, at : {"asked", "get", "stat", "done"},
                    seen : Nat, snap : {read'.snap}, mtime : Nat, text : Texts \union {None}]
  BY <1>1, <1>2 DEF ReadTyped
<1>4. ReadTyped(read')
  BY <1>1, <1>2, <1>3 DEF ReadTyped
<1>5. ReadSound'
  <2>1. author \in {"tab", "read"} => disk = tab.base \/ (Ahead /\ disk = req.text)
    BY DEF Ind, DiskSound
  <2>2. Ahead' = Ahead /\ UNCHANGED <<author, disk, tab, req>>
    BY <1>1 DEF Ahead, server
  <2> QED
    BY <1>1, <1>3, <2>1, <2>2 DEF Ind, ReadSound
<1> QED
  BY <1>1, <1>4, <1>5, ReadSteps

LEMMA ResolveUnreadableHolds ==
  ASSUME Ind, NEW choice \in {"disk", "local"}, ResolveUnreadable(choice)
  PROVE  Ind'
<1>1. /\ tab.status = "external"
      /\ read' = [for |-> choice, at |-> "get", seen |-> 0, snap |-> tab.rev,
                  mtime |-> 0, text |-> None]
      /\ UNCHANGED <<server, tab, timer, req, late, lock, barrier>>
  BY DEF ResolveUnreadable
<1>2. stamp \in Nat
  BY DEF Ind, TypeOK
<1>3. ReadTyped(read')
  BY <1>1, <1>2 DEF ReadTyped
<1>4. ReadSound'
  BY <1>1 DEF ReadSound
<1> QED
  BY <1>1, <1>3, <1>4, ReadSteps

LEMMA ResolveFailsHolds == Ind /\ ResolveFails => Ind'
  BY ReadDropped DEF ResolveFails

(* A poll or a choice changes the tab, and the read is over.               *)
Taken(t) ==
  /\ t \in Tabs /\ t.saving = None /\ t.saved <= t.rev /\ t.mtime <= stamp
  /\ t.rev >= tab.rev /\ (t.rev = tab.rev => t.raw = tab.raw)
  /\ t.saved >= tab.saved
  /\ author' \in {"tab", "read"} =>
       /\ t.rev = t.saved => t.raw = t.base
       /\ disk = t.base /\ (t.external # None => disk = t.external)
  /\ t.mtime = stamp /\ ~missed' => disk = IF t.external = None THEN t.base ELSE t.external

LEMMA TakenHolds ==
  ASSUME Ind, req = None, read' = None, Taken(tab'),
         UNCHANGED <<disk, stamp, req, late, lock, barrier>>,
         author' = author \/ author' = "read", missed' \in BOOLEAN,
         timer' \in BOOLEAN, timer' => lock = "free" /\ barrier = None
  PROVE  Ind'
<1>1. /\ tab' \in Tabs /\ tab'.rev \in Nat /\ tab'.saved \in Nat
      /\ tab.rev \in Nat /\ tab.saved \in Nat
  BY DEF Taken, Ind, TypeOK, Tabs
<1>2. TypeOK'
  BY DEF Ind, TypeOK, Taken
<1>3. QuietWhileHeld' /\ FlowSound'
  BY DEF Ind, QuietWhileHeld, FlowSound
<1>4. barrier # None => barrier.rev \in Nat /\ barrier.rev <= tab.rev
  BY DEF Ind, TypeOK, Barriers, RevisionSound
<1>5. RevisionSound'
  <2>1. barrier # None => barrier.rev <= tab'.rev /\ (barrier.rev = tab'.rev => barrier.raw = tab'.raw)
    <3> SUFFICES ASSUME barrier # None
                 PROVE  barrier.rev <= tab'.rev /\ (barrier.rev = tab'.rev => barrier.raw = tab'.raw)
      OBVIOUS
    <3>1. barrier.rev = tab.rev => barrier.raw = tab.raw
      BY DEF Ind, RevisionSound
    <3>2. tab'.rev >= tab.rev /\ (tab'.rev = tab.rev => tab'.raw = tab.raw)
      BY DEF Taken
    <3>3. barrier.rev <= tab'.rev /\ (barrier.rev = tab'.rev => tab'.rev = tab.rev)
      BY <1>1, <1>4, <3>2
    <3> QED
      BY <3>1, <3>2, <3>3
  <2> QED
    BY <2>1 DEF RevisionSound, Taken
<1>6. BarrierSound'
  <2> SUFFICES ASSUME barrier # None, ~barrier.early
               PROVE  /\ barrier.granted /\ tab'.saved >= barrier.rev
                      /\ author' = "tab" => tab'.base = barrier.raw
    BY DEF Ind, BarrierSound
  <2>1. /\ barrier.granted /\ tab.saved >= barrier.rev
        /\ author = "tab" => tab.base = barrier.raw
    BY DEF Ind, BarrierSound
  <2>2. author' = "tab" => author = "tab" /\ tab'.base = disk
    BY DEF Taken
  <2>3. author = "tab" => disk = tab.base
    BY DEF Ind, DiskSound, Ahead
  <2>4. tab'.saved >= barrier.rev
    BY <1>1, <1>4, <2>1 DEF Taken
  <2> QED
    BY <2>1, <2>2, <2>3, <2>4
<1>7. DiskSound' /\ ReadSound' /\ StampSound'
  BY DEF DiskSound, Ahead, ReadSound, StampSound, Taken
<1> QED
  BY <1>2, <1>3, <1>5, <1>6, <1>7 DEF Ind

LEMMA ToldCases ==
  ASSUME NEW t
  PROVE  /\ Told(t) = author \/ Told(t) = "read"
         /\ Told(t) # author =>
              t.base = disk /\ ~Unresolved(t) /\ (t.rev = t.saved => t.raw = t.base)
  BY DEF Told, KeptUnsent

(* The tab that has no request.                                            *)
LEMMA FreeTab ==
  ASSUME Ind, req = None
  PROVE  /\ tab \in Tabs /\ tab.saving = None /\ tab.saved <= tab.rev /\ tab.mtime <= stamp
         /\ tab.rev \in Nat /\ tab.saved \in Nat /\ tab.rev + 1 \in Nat /\ ~Ahead
         /\ author \in {"tab", "read"} =>
              /\ tab.rev = tab.saved => tab.raw = tab.base
              /\ disk = tab.base /\ (tab.external # None => disk = tab.external)
         /\ tab.mtime = stamp /\ ~missed
              => disk = IF tab.external = None THEN tab.base ELSE tab.external
         /\ timer \in BOOLEAN /\ (timer => lock = "free" /\ barrier = None)
         /\ missed \in BOOLEAN
<1>1. /\ tab \in Tabs /\ tab.saving = None /\ tab.saved <= tab.rev /\ tab.mtime <= stamp
      /\ tab.rev \in Nat /\ tab.saved \in Nat /\ tab.rev + 1 \in Nat /\ ~Ahead
  BY DEF Ind, TypeOK, Tabs, Ahead
<1>2. timer \in BOOLEAN /\ (timer => lock = "free" /\ barrier = None) /\ missed \in BOOLEAN
  BY DEF Ind, TypeOK
<1>3. author \in {"tab", "read"} =>
        /\ tab.rev = tab.saved => tab.raw = tab.base
        /\ disk = tab.base /\ (tab.external # None => disk = tab.external)
  BY DEF Ind, RevisionSound, DiskSound, Ahead
<1>4. tab.mtime = stamp /\ ~missed
        => disk = IF tab.external = None THEN tab.base ELSE tab.external
  BY DEF Ind, StampSound
<1> QED
  BY <1>1, <1>2, <1>3, <1>4

LEMMA PollApplyHolds == Ind /\ PollApply => Ind'
<1> SUFFICES ASSUME Ind, PollApply PROVE Ind'
  OBVIOUS
<1>1. /\ read # None /\ read.for = "poll" /\ read.at = "done" /\ read' = None
      /\ UNCHANGED <<disk, stamp, timer, req, late, lock, barrier>>
  BY DEF PollApply
<1>2. CASE ~PollCurrent
  <2>1. UNCHANGED <<tab, author, missed>>
    BY <1>2 DEF PollApply
  <2> QED
    BY <1>1, <2>1, ReadDropped DEF server
<1>3. CASE PollCurrent
  <2>1. /\ tab' = IF Dirty(tab) THEN Refused(tab, read.text, read.mtime)
                  ELSE [Loaded(tab, read.text) EXCEPT !.mtime = read.mtime]
        /\ author' = Told(tab')
        /\ missed' = (missed \/ (~Dirty(tab) /\ tab.external # None))
    BY <1>3 DEF PollApply
  <2>2. req = None
    BY <1>3 DEF PollCurrent, Ind, TypeOK
  <2>3. /\ read.text \in Texts /\ read.text # None /\ read.mtime \in Nat /\ read.mtime <= stamp
        /\ read.mtime = stamp => disk = read.text
    BY <1>1, ReadTypedNow DEF ReadTyped
  <2>4. author \in {"tab", "read"} => read.text = disk
    <3>1. Speaks
      BY <1>3 DEF PollCurrent, Snapshot, Speaks
    <3> QED
      BY <1>1, <2>2, <2>3, <3>1, FreeTab DEF Ind, ReadSound
  <2>5. missed' \in BOOLEAN
    BY <2>1
  <2>6. CASE Dirty(tab)
    <3>1. tab' = [tab EXCEPT !.external = read.text, !.kind = "modified", !.mtime = read.mtime,
                             !.status = "external", !.saving = None]
      BY <2>1, <2>6 DEF Refused
    <3>2. /\ tab' \in Tabs /\ tab'.raw = tab.raw /\ tab'.base = tab.base /\ tab'.rev = tab.rev
          /\ tab'.saved = tab.saved /\ tab'.saving = None /\ tab'.external = read.text
          /\ tab'.mtime = read.mtime /\ tab'.status = "external"
      BY <2>2, <2>3, <3>1, FreeTab DEF Tabs, Status
    <3>3. author' = author
      BY <2>1, <3>2 DEF Told, Unresolved
    <3>4. Taken(tab')
      BY <2>2, <2>3, <2>4, <3>2, <3>3, FreeTab DEF Taken
    <3> QED
      BY <1>1, <2>2, <2>5, <3>3, <3>4, FreeTab, TakenHolds
  <2>7. CASE ~Dirty(tab)
    <3>1. tab' = [[tab EXCEPT !.raw = read.text, !.base = read.text, !.rev = @ + 1,
                              !.saved = tab.rev + 1, !.status = "idle", !.kind = None]
                    EXCEPT !.mtime = read.mtime]
      BY <2>1, <2>7 DEF Loaded
    <3>2. /\ tab'.raw = read.text /\ tab'.base = read.text /\ tab'.rev = tab.rev + 1
          /\ tab'.saved = tab.rev + 1 /\ tab'.saving = None /\ tab'.external = tab.external
          /\ tab'.mtime = read.mtime
      BY <2>2, <3>1, FreeTab DEF Tabs
    <3>3. tab' \in Tabs
      BY <2>2, <2>3, <3>1, FreeTab DEF Tabs, Status
    <3>4. author' = author \/ (author' = "read" /\ tab'.base = disk /\ tab'.external = None)
      BY <2>1, ToldCases DEF Unresolved
    <3>5. ~missed' => ~missed /\ tab.external = None
      BY <2>1, <2>2, <2>7, FreeTab
    <3>6. tab'.saved <= tab'.rev /\ tab'.rev >= tab.rev /\ tab'.rev # tab.rev /\ tab'.saved >= tab.saved
      BY <2>2, <3>2, FreeTab
    <3>7. Taken(tab')
      BY <2>2, <2>3, <2>4, <3>2, <3>3, <3>4, <3>5, <3>6, FreeTab DEF Taken
    <3> QED
      BY <1>1, <2>2, <2>5, <3>4, <3>7, FreeTab, TakenHolds
  <2> QED
    BY <2>6, <2>7
<1> QED
  BY <1>2, <1>3

LEMMA PollFailsHolds == Ind /\ PollFails => Ind'
<1> SUFFICES ASSUME Ind, PollFails PROVE Ind'
  OBVIOUS
<1>1. /\ read' = None /\ tab' = IF PollCurrent THEN Unreadable(tab) ELSE tab
      /\ UNCHANGED <<server, timer, req, late, lock, barrier>>
  BY DEF PollFails
<1>2. CASE ~PollCurrent
  BY <1>1, <1>2, ReadDropped
<1>3. CASE PollCurrent
  <2>1. req = None
    BY <1>3 DEF PollCurrent, Ind, TypeOK
  <2>2. tab' = [tab EXCEPT !.kind = "unreadable", !.status = "external"]
    BY <1>1, <1>3 DEF Unreadable
  <2>3. /\ tab' \in Tabs /\ tab'.raw = tab.raw /\ tab'.base = tab.base /\ tab'.rev = tab.rev
        /\ tab'.saved = tab.saved /\ tab'.saving = None /\ tab'.external = tab.external
        /\ tab'.mtime = tab.mtime
    BY <2>1, <2>2, FreeTab DEF Tabs, Status
  <2>4. UNCHANGED <<disk, stamp, author, missed>>
    BY <1>1 DEF server
  <2>5. Taken(tab')
    BY <2>1, <2>3, <2>4, FreeTab DEF Taken
  <2> QED
    BY <1>1, <2>1, <2>4, <2>5, FreeTab, TakenHolds
<1> QED
  BY <1>2, <1>3

(* The user's choice between the text of the editor and that of the disk.  *)
LEMMA ChoiceHolds ==
  ASSUME Ind, req = None, read' = None, NEW t, NEW choice, Resolved(t, choice),
         t \in Tabs, t.saving = None, t.external # None, t.mtime <= stamp,
         t.raw = tab.raw, t.base = tab.base, t.rev = tab.rev, t.saved = tab.saved,
         author \in {"tab", "read"} => disk = t.external,
         t.mtime = stamp /\ ~missed => disk = t.external,
         UNCHANGED <<disk, stamp, missed, req, late, lock, barrier>>
  PROVE  Ind'
<1> DEFINE r == Resolve(t, choice)
<1>1. /\ tab' = r /\ author' = Told(r)
      /\ timer' = IF r.status = "dirty" THEN Scheduled(r, lock, barrier) ELSE timer
  BY DEF Resolved
<1>2. /\ tab.rev \in Nat /\ tab.saved \in Nat /\ tab.saved <= tab.rev /\ tab.rev + 1 \in Nat
      /\ t.external \in Texts
  BY FreeTab DEF Tabs
<1>3. /\ r \in Tabs /\ r.saving = None /\ r.external = None /\ r.mtime = t.mtime
      /\ r.base = t.external
      /\ \/ r.raw = t.external /\ r.rev = tab.rev + 1 /\ r.saved = tab.rev + 1
         \/ r.raw = tab.raw /\ r.rev = tab.rev /\ r.raw = r.base /\ r.saved = tab.rev
         \/ r.raw = tab.raw /\ r.rev = tab.rev /\ r.raw # r.base /\ r.saved = tab.saved
  <2>1. CASE choice = "disk"
    <3>1. r = [[t EXCEPT !.raw = t.external, !.base = t.external, !.rev = @ + 1,
                         !.saved = t.rev + 1, !.status = "idle", !.kind = None]
                 EXCEPT !.external = None, !.saving = None]
      BY <2>1 DEF Resolve, UseDisk, Loaded
    <3> HIDE DEF r
    <3>2. r \in Tabs
      BY <1>2, <3>1 DEF Tabs, Status
    <3>3. /\ r.saving = None /\ r.external = None /\ r.mtime = t.mtime /\ r.base = t.external
          /\ r.raw = t.external /\ r.rev = tab.rev + 1 /\ r.saved = tab.rev + 1
      BY <3>1 DEF Tabs
    <3> QED
      BY <3>2, <3>3
  <2>2. CASE choice # "disk"
    <3> DEFINE k == [t EXCEPT !.base = t.external, !.external = None, !.kind = None]
    <3>1. r = IF k.raw = k.base THEN [k EXCEPT !.saved = k.rev, !.status = "idle"]
                                ELSE [k EXCEPT !.status = "dirty"]
      BY <2>2 DEF Resolve, KeepLocal
    <3>2. /\ k \in Tabs /\ k.raw = tab.raw /\ k.base = t.external /\ k.rev = tab.rev
          /\ k.saved = tab.saved /\ k.saving = None /\ k.external = None /\ k.mtime = t.mtime
      BY <1>2 DEF Tabs
    <3> HIDE DEF r, k
    <3>3. CASE k.raw = k.base
      <4>1. r = [k EXCEPT !.saved = k.rev, !.status = "idle"]
        BY <3>1, <3>3
      <4> QED
        BY <3>2, <3>3, <4>1 DEF Tabs, Status
    <3>4. CASE k.raw # k.base
      <4>1. r = [k EXCEPT !.status = "dirty"]
        BY <3>1, <3>4
      <4> QED
        BY <3>2, <3>4, <4>1 DEF Tabs, Status
    <3> QED
      BY <3>3, <3>4
  <2> QED
    BY <2>1, <2>2
<1> HIDE DEF r
<1>4. /\ author' = author \/ author' = "read"
      /\ author' # author => r.base = disk /\ (r.rev = r.saved => r.raw = r.base)
  BY <1>1, ToldCases
<1>5. /\ r.saved <= r.rev /\ r.rev >= tab.rev /\ (r.rev = tab.rev => r.raw = tab.raw)
      /\ r.saved >= tab.saved
  BY <1>2, <1>3
<1>6. author' \in {"tab", "read"} => disk = r.base /\ (r.rev = r.saved => r.raw = r.base)
  <2>1. CASE author' # author
    BY <1>4, <2>1
  <2>2. CASE author' = author
    <3> SUFFICES ASSUME author \in {"tab", "read"}
                 PROVE  disk = r.base /\ (r.rev = r.saved => r.raw = r.base)
      BY <2>2
    <3>1. disk = t.external /\ disk = tab.base /\ (tab.rev = tab.saved => tab.raw = tab.base)
      BY FreeTab
    <3> QED
      BY <1>3, <3>1
  <2> QED
    BY <2>1, <2>2
<1>7. Taken(r)
  BY <1>3, <1>5, <1>6 DEF Taken
<1>8. timer' \in BOOLEAN /\ (timer' => lock = "free" /\ barrier = None)
  <2>1. timer \in BOOLEAN /\ (timer => lock = "free" /\ barrier = None)
    BY FreeTab
  <2>2. CASE r.status = "dirty"
    BY <1>1, <2>1, <2>2, ScheduledIsFree
  <2>3. CASE r.status # "dirty"
    BY <1>1, <2>1, <2>3
  <2> QED
    BY <2>2, <2>3
<1> QED
  BY <1>1, <1>4, <1>7, <1>8, FreeTab, TakenHolds

LEMMA ResolveModifiedHolds ==
  ASSUME Ind, NEW choice \in {"disk", "local"}, ResolveModified(choice)
  PROVE  Ind'
<1>1. /\ tab.status = "external" /\ tab.external # None /\ Resolved(tab, choice) /\ read' = None
      /\ UNCHANGED <<disk, stamp, missed, req, late, lock, barrier>>
  BY DEF ResolveModified
<1>2. req = None
  BY <1>1 DEF Ind, FlowSound, Unresolved
<1> QED
  BY <1>1, <1>2, FreeTab, ChoiceHolds

LEMMA ResolveReadHolds == Ind /\ ResolveRead => Ind'
<1> SUFFICES ASSUME Ind, ResolveRead PROVE Ind'
  OBVIOUS
<1> DEFINE t == [tab EXCEPT !.external = read.text, !.kind = "modified", !.mtime = read.mtime]
<1>1. /\ read # None /\ read.for # "poll" /\ read.at = "done" /\ read' = None
      /\ IF tab.rev # read.snap /\ read.for = "disk"
         THEN tab' = t /\ UNCHANGED <<timer, author>>
         ELSE Resolved(t, read.for)
      /\ UNCHANGED <<disk, stamp, missed, req, late, lock, barrier>>
  BY DEF ResolveRead
<1>2. tab.status = "external" /\ req = None
  BY <1>1 DEF Ind, FlowSound, Unresolved
<1>3. /\ read.text \in Texts /\ read.text # None /\ read.mtime \in Nat /\ read.mtime <= stamp
      /\ read.mtime = stamp => disk = read.text
      /\ author \in {"tab", "read"} => read.text = disk
  <2>1. /\ read.text \in Texts /\ read.text # None /\ read.mtime \in Nat /\ read.mtime <= stamp
        /\ read.mtime = stamp => disk = read.text
    BY <1>1, ReadTypedNow DEF ReadTyped
  <2> QED
    BY <1>1, <2>1 DEF Ind, ReadSound
<1>4. /\ t \in Tabs /\ t.raw = tab.raw /\ t.base = tab.base /\ t.rev = tab.rev
      /\ t.saved = tab.saved /\ t.saving = None /\ t.external = read.text /\ t.mtime = read.mtime
  BY <1>2, <1>3, FreeTab DEF Tabs
<1> HIDE DEF t
<1>5. CASE tab.rev # read.snap /\ read.for = "disk"
  <2>1. tab' = t /\ UNCHANGED <<timer, author>>
    BY <1>1, <1>5
  <2>2. Taken(t)
    BY <1>2, <1>3, <1>4, <2>1, FreeTab DEF Taken
  <2> QED
    BY <1>1, <1>2, <2>1, <2>2, FreeTab, TakenHolds
<1>6. CASE ~(tab.rev # read.snap /\ read.for = "disk")
  BY <1>1, <1>2, <1>3, <1>4, <1>6, ChoiceHolds
<1> QED
  BY <1>5, <1>6

(***************************************************************************)
(* The theorems.                                                           *)
(***************************************************************************)
LEMMA NextHolds == Ind /\ [Next]_vars => Ind'
<1> SUFFICES ASSUME Ind, [Next]_vars PROVE Ind'
  OBVIOUS
<1>1. CASE UNCHANGED vars
  BY <1>1 DEF vars, Ind, TypeOK, QuietWhileHeld, FlowSound, Unresolved, RevisionSound,
              BarrierSound, DiskSound, Ahead, ReadSound, Speaks, StampSound
<1>2. CASE Edit \/ Fire \/ SaveNow \/ Online \/ Answer \/ LoseAnswer
  BY <1>2, EditHolds, FireHolds, SaveNowHolds, OnlineHolds, AnswerHolds, LoseAnswerHolds
<1>3. CASE PutRequest \/ PutLate \/ RecordMetadata \/ MetadataFails \/ Outside
  BY <1>3, PutRequestHolds, PutLateHolds, RecordHolds, MetadataFailsHolds, OutsideHolds
<1>4. CASE PollAsk \/ PollLook \/ GetStat \/ GetRead \/ PollApply \/ PollFails
  BY <1>4, PollAskHolds, PollLookHolds, GetStatHolds, GetReadHolds, PollApplyHolds, PollFailsHolds
<1>5. ASSUME NEW choice \in {"disk", "local"},
             ResolveModified(choice) \/ ResolveUnreadable(choice)
      PROVE  Ind'
  BY <1>5, ResolveModifiedHolds, ResolveUnreadableHolds
<1>6. CASE ResolveRead \/ ResolveFails
  BY <1>6, ResolveReadHolds, ResolveFailsHolds
<1>7. CASE PrepareMutation \/ SettleMutation \/ PrepareHistoryCommit \/ ReleaseHistoryCommit
  BY <1>7, PrepareMutationHolds, SettleMutationHolds, PrepareHistoryHolds, ReleaseHolds
<1> QED
  BY <1>1, <1>2, <1>3, <1>4, <1>5, <1>6, <1>7 DEF Next

LEMMA IndAlways == Spec => []Ind
  BY InitHolds, NextHolds, PTL DEF Spec

(* The tab, its requests, the reads, the barriers and the file agree       *)
(* however edits, timers, answers, polls, clicks and other programs        *)
(* interleave: SaveInv holds for any number of each.                       *)
THEOREM SaveInvariant == Spec => []SaveInv
  BY IndAlways, IndIsEnough, PTL

(* A tab that may be left without a question shows what is on disk.        *)
THEOREM CleanTabIsSaved == Spec => []CleanIsSaved
<1>1. Ind => CleanIsSaved
  <2> SUFFICES ASSUME Ind, ~HasUnsaved(tab), author \in {"tab", "read"} PROVE disk = tab.raw
    BY DEF CleanIsSaved
  <2>1. tab.raw = tab.base /\ tab.saving = None
    BY DEF HasUnsaved
  <2>2. req = None
    BY <2>1 DEF Ind, TypeOK
  <2> QED
    BY <2>1, <2>2, FreeTab
<1> QED
  BY <1>1, IndAlways, PTL

(* A put that writes is based on the text that is on disk.                 *)
LEMMA PutIsBased ==
  ASSUME TypeOK, NEW r \in PutRequests, NEW who, Put(r, who), disk' # disk
  PROVE  r.base = disk
<1>1. Reply(r) = None
  BY DEF Put, server
<1> QED
  BY <1>1, ReplyCases DEF TypeOK

(* What another program wrote is written over only by a save that has that *)
(* text as its base, or by the rollback of a save that wrote the same.     *)
THEOREM OthersAreKept == Spec => OthersKept
<1> DEFINE Step == author = "other" /\ disk' # disk /\ author' # "other"
           Known == \E r \in {req, late} \ {None} :
                       \/ r.at = "sent" /\ r.base = disk
                       \/ r.at = "written" /\ r.text = disk
<1>1. ASSUME Ind, [Next]_vars, Step PROVE Known
  <2>1. CASE PutRequest
    <3>1. req # None /\ req.at = "sent" /\ Put(req, "tab") /\ req \in PutRequests
      BY <1>1, <2>1 DEF PutRequest, Ind, TypeOK
    <3>2. req.base = disk
      BY <1>1, <3>1, PutIsBased DEF Ind
    <3> QED
      BY <3>1, <3>2
  <2>2. CASE PutLate
    <3>1. late # None /\ late.at = "sent" /\ Put(late, "lost") /\ late \in PutRequests
      BY <1>1, <2>2 DEF PutLate, Ind, TypeOK
    <3>2. late.base = disk
      BY <1>1, <3>1, PutIsBased DEF Ind
    <3> QED
      BY <3>1, <3>2
  <2>3. CASE MetadataFails
    <3>1. CASE req # None /\ req.at = "written" /\ PutBack(req, "tab")
      BY <1>1, <3>1 DEF PutBack
    <3>2. CASE late # None /\ late.at = "written" /\ PutBack(late, "lost")
      BY <1>1, <3>2 DEF PutBack
    <3> QED
      BY <2>3, <3>1, <3>2 DEF MetadataFails
  <2>4. disk' = disk \/ author' = "other" \/ PutRequest \/ PutLate \/ MetadataFails
    <3>1. CASE UNCHANGED vars
      BY <3>1 DEF vars
    <3>2. CASE Edit \/ Fire \/ SaveNow \/ Online \/ Answer \/ LoseAnswer
      BY <3>2 DEF Edit, Fire, SaveNow, Online, Answer, LoseAnswer, server
    <3>3. CASE RecordMetadata \/ Outside
      BY <3>3 DEF RecordMetadata, Outside
    <3>4. CASE PollAsk \/ PollLook \/ GetStat \/ GetRead \/ PollApply \/ PollFails
      BY <3>4 DEF PollAsk, PollLook, GetStat, GetRead, PollApply, PollFails, server
    <3>5. CASE \E choice \in {"disk", "local"} :
                  ResolveModified(choice) \/ ResolveUnreadable(choice)
      BY <3>5 DEF ResolveModified, ResolveUnreadable, server
    <3>6. CASE ResolveRead \/ ResolveFails
      BY <3>6 DEF ResolveRead, ResolveFails, server
    <3>7. CASE PrepareMutation \/ SettleMutation \/ PrepareHistoryCommit \/ ReleaseHistoryCommit
      BY <3>7 DEF PrepareMutation, SettleMutation, PrepareHistoryCommit,
                  ReleaseHistoryCommit, server
    <3> QED
      BY <1>1, <3>1, <3>2, <3>3, <3>4, <3>5, <3>6, <3>7 DEF Next
  <2> QED
    BY <1>1, <2>1, <2>2, <2>3, <2>4
<1>2. Ind /\ [Next]_vars => [Step => Known]_vars
  BY <1>1
<1> QED
  BY <1>2, IndAlways, PTL DEF Spec, OthersKept

(* No answer and no poll takes a text away that is not saved.              *)
THEOREM LocalTextIsKept == Spec => LocalKept
<1> DEFINE Clean == tab.raw = tab.base /\ tab.rev = tab.saved /\ tab.saving = None
           Asked == tab'.rev = tab.rev + 1 /\ (tab.status = "external" \/ Edit)
<1>1. ASSUME Ind, [Next]_vars, tab'.raw # tab.raw PROVE Clean \/ Asked
  <2>1. CASE UNCHANGED vars
    BY <1>1, <2>1 DEF vars
  <2>2. CASE Edit
    <3>1. PICK text \in Texts : tab' = Edited(tab, text)
      BY <2>2 DEF Edit
    <3>2. tab \in Tabs
      BY <1>1 DEF Ind, TypeOK
    <3>3. tab'.rev = tab.rev + 1
      BY <3>1, <3>2 DEF Edited, Tabs
    <3> QED
      BY <2>2, <3>3
  <2>3. CASE Fire \/ SaveNow \/ Online
    <3>1. Outcome(tab', req', barrier)
      BY <1>1, <2>3, DoSaveOutcome DEF Fire, SaveNow, Online, Save, Ind, TypeOK
    <3> QED
      BY <1>1, <3>1 DEF Outcome, SameTexts
  <2>4. CASE Answer
    <3>1. req # None /\ req.at \in {"ok", "conflict", "failed"} /\ Continue(Answered(tab))
      BY <2>4 DEF Answer
    <3>2. /\ Answered(tab) \in Tabs /\ Answered(tab).raw = tab.raw
          /\ Answered(tab).saving = None
      <4>1. /\ req \in PutRequests /\ req.rev \in Nat
            /\ req.text \in Texts /\ req.raw \in Texts \union {None} /\ req.mtime \in Nat
        BY <1>1, <3>1, WaitingTab DEF PutRequests
      <4>2. CASE req.at = "ok"
        BY <1>1, <3>1, <4>1, <4>2, WaitingTab DEF Answered, Stored, Tabs, Status
      <4>3. CASE req.at = "conflict"
        BY <1>1, <3>1, <4>1, <4>3, WaitingTab DEF Answered, Refused, Tabs, Status
      <4>4. CASE req.at = "failed"
        BY <1>1, <3>1, <4>4, WaitingTab DEF Answered, Tabs, Status
      <4> QED
        BY <3>1, <4>2, <4>3, <4>4
    <3>3. tab'.raw = tab.raw
      BY <1>1, <3>1, <3>2, ContinueOutcome
    <3> QED
      BY <1>1, <3>3
  <2>5. CASE LoseAnswer
    <3>1. PICK f \in Failed : Continue([tab EXCEPT !.status = f, !.saving = None])
      BY <2>5 DEF LoseAnswer
    <3> DEFINE t == [tab EXCEPT !.status = f, !.saving = None]
    <3>2. t \in Tabs /\ t.raw = tab.raw /\ t.saving = None
      BY <1>1 DEF Ind, TypeOK, Tabs, Status, Failed
    <3>3. Continue(t)
      BY <3>1
    <3> HIDE DEF t
    <3>4. tab'.raw = tab.raw
      BY <1>1, <3>2, <3>3, ContinueOutcome
    <3> QED
      BY <1>1, <3>4
  <2>6. CASE PollApply
    <3>1. CASE ~PollCurrent
      BY <1>1, <2>6, <3>1 DEF PollApply
    <3>2. CASE PollCurrent /\ Dirty(tab)
      BY <1>1, <2>6, <3>2 DEF PollApply, Refused, Ind, TypeOK, Tabs
    <3>3. CASE PollCurrent /\ ~Dirty(tab)
      BY <3>3 DEF PollCurrent, Dirty
    <3> QED
      BY <3>1, <3>2, <3>3
  <2>7. CASE PollFails
    BY <1>1, <2>7 DEF PollFails, Unreadable, Ind, TypeOK, Tabs
  <2>8. ASSUME NEW t \in Tabs, NEW choice, Resolved(t, choice), tab.status = "external",
               t.raw = tab.raw, t.rev = tab.rev
        PROVE  Asked
    <3>1. tab' = Resolve(t, choice)
      BY <2>8 DEF Resolved
    <3>2. CASE choice = "disk"
      BY <2>8, <3>1, <3>2 DEF Resolve, UseDisk, Loaded, Tabs
    <3>3. CASE choice # "disk"
      <4>1. tab'.raw = t.raw
        BY <2>8, <3>1, <3>3 DEF Resolve, KeepLocal, Tabs
      <4> QED
        BY <1>1, <2>8, <4>1
    <3> QED
      BY <3>2, <3>3
  <2>9. CASE \E choice \in {"disk", "local"} : ResolveModified(choice)
    BY <1>1, <2>8, <2>9 DEF ResolveModified, Ind, TypeOK
  <2>10. CASE ResolveRead
    <3> DEFINE t == [tab EXCEPT !.external = read.text, !.kind = "modified",
                                !.mtime = read.mtime]
    <3>1. tab.status = "external" /\ tab \in Tabs /\ read.text \in Texts /\ read.mtime \in Nat
      BY <1>1, <2>10, ReadTypedNow DEF ResolveRead, ReadTyped, Ind, TypeOK
    <3>2. t \in Tabs /\ t.raw = tab.raw /\ t.rev = tab.rev
      BY <3>1 DEF Tabs
    <3>3. tab' = t \/ Resolved(t, read.for)
      BY <2>10 DEF ResolveRead
    <3> HIDE DEF t
    <3> QED
      BY <1>1, <2>8, <3>1, <3>2, <3>3
  <2>11. CASE PrepareHistoryCommit \/ ReleaseHistoryCommit
    <3>1. ASSUME NEW bar, bar # None => bar \in Barriers
          PROVE  DoSave(tab, lock, bar).tab.raw = tab.raw
      BY <1>1, <3>1, DoSaveOutcome DEF Outcome, SameTexts, Ind
    <3>2. CASE PrepareHistoryCommit
      <4> DEFINE bar == [rev |-> tab.rev, raw |-> tab.raw, granted |-> FALSE, early |-> FALSE]
      <4>1. bar \in Barriers
        BY <1>1 DEF Ind, TypeOK, Tabs, Barriers
      <4>2. tab' = tab \/ tab' = DoSave(tab, lock, bar).tab
        BY <3>2 DEF PrepareHistoryCommit
      <4> QED
        BY <1>1, <3>1, <4>1, <4>2
    <3>3. CASE ReleaseHistoryCommit
      <4>1. tab' = tab \/ tab' = DoSave(tab, lock, None).tab
        BY <3>3 DEF ReleaseHistoryCommit
      <4> QED
        BY <1>1, <3>1, <4>1
    <3> QED
      BY <2>11, <3>2, <3>3
  <2>12. CASE PutRequest \/ PutLate \/ RecordMetadata \/ MetadataFails \/ Outside
    BY <1>1, <2>12 DEF PutRequest, PutLate, RecordMetadata, MetadataFails, Outside
  <2>13. CASE PollAsk \/ PollLook \/ GetStat \/ GetRead
    BY <1>1, <2>13 DEF PollAsk, PollLook, GetStat, GetRead
  <2>14. CASE \E choice \in {"disk", "local"} : ResolveUnreadable(choice)
    BY <1>1, <2>14 DEF ResolveUnreadable
  <2>15. CASE ResolveFails \/ PrepareMutation \/ SettleMutation
    BY <1>1, <2>15 DEF ResolveFails, PrepareMutation, SettleMutation
  <2> QED
    BY <1>1, <2>1, <2>2, <2>3, <2>4, <2>5, <2>6, <2>7, <2>9, <2>10, <2>11, <2>12, <2>13,
       <2>14, <2>15 DEF Next
<1>2. Ind /\ [Next]_vars => [tab'.raw # tab.raw => Clean \/ Asked]_vars
  BY <1>1
<1> QED
  BY <1>2, IndAlways, PTL DEF Spec, LocalKept
===============================================================================
