-------------------------- MODULE PublicationProofs --------------------------
(***************************************************************************)
(* The publisher's transaction, for any subscriptions, legacy files and    *)
(* contents, and whatever fails, is cancelled, killed or edited meanwhile. *)
(*                                                                         *)
(* One call at a time is at work (SingleFlight), and nothing of the        *)
(* operator's is in the publisher's files while it is (Own).  Progress     *)
(* says of each step of a call which files hold already what it rendered,  *)
(* so that a commit takes a whole publication; Undone says the same of a   *)
(* rollback's way back.                                                    *)
(***************************************************************************)
EXTENDS Publication, SequenceTheorems, TLAPS

-----------------------------------------------------------------------------
(* The inductive invariant.                                                *)

Trees == {t \in [Owned -> Contents] : IsTree(t)}

Unedited(t) == \A p \in Owned : t[p] # Manual

(* Every projection is rendered, and meta.json was computed from them.     *)
Whole(t) ==
  /\ \A s \in Subs : t[s] \in Values
  /\ t["meta"] \in Metas
  /\ t["meta"].counts = Counts(t)

Stages == {"idle", "check", "begin", "render", "remove", "write", "add", "diff", "commit",
           "ahead", "push", "rollback", "removeNew", "restore", "done",
           "unverified", "failed"}

Typed ==
  /\ listing \in [Subs -> Values] /\ cycle \in 0 .. MaxCycle
  /\ wt \in Trees /\ index \in Trees
  /\ head \in Trees \cup {NoHead} /\ remote \in Trees \cup {NoHead}
  /\ unpushed \in BOOLEAN /\ publishing \in BOOLEAN
  /\ pc \in [Callers -> Stages] /\ ctxDone \in SUBSET Callers
  /\ at \in [Callers -> 1 .. Len(targetFiles) + 1]
  /\ hasHEAD \in [Callers -> BOOLEAN] /\ existed \in [Callers -> SUBSET Owned]
  /\ rendered \in [Callers -> Trees] /\ rbErr \in [Callers -> BOOLEAN]

(* Service.publishing lets one call in.                                    *)
SingleFlight ==
  /\ \A c \in Callers : pc[c] # "idle" => publishing
  /\ \A c, d \in Callers : pc[c] # "idle" /\ pc[d] # "idle" => c = d

Working == \E c \in Callers : pc[c] \notin {"idle", "check", "done", "unverified", "failed"}

(* What the operator has edited is not published, and while a publication  *)
(* is at it there is nothing of his.                                       *)
Own ==
  /\ Unedited(index) /\ (head # NoHead => Unedited(head))
  /\ \A c \in Callers : Unedited(rendered[c])
  /\ Working => Unedited(wt)

(* How far a call has come, and what it has made of the files.             *)
Progress(c) ==
  /\ pc[c] \in {"idle", "check", "begin", "remove"} => at[c] = 1
  /\ pc[c] = "render" =>
       /\ at[c] \in 1 .. Len(SubOrder) + 1
       /\ \A i \in 1 .. at[c] - 1 : rendered[c][SubOrder[i]] \in Values
  /\ pc[c] \in {"remove", "write", "add", "diff", "commit"} => Whole(rendered[c])
  /\ pc[c] = "write" =>
       /\ at[c] \in 1 .. Len(targetFiles)
       /\ \A i \in 1 .. at[c] - 1 : wt[targetFiles[i]] = rendered[c][targetFiles[i]]
  /\ pc[c] = "add" => \A p \in Targets : wt[p] = rendered[c][p]
  /\ pc[c] \in {"diff", "commit"} => \A p \in Targets : index[p] = rendered[c][p]

(* What a rollback has put back, unless it met an error.                   *)
Undone(c) ==
  /\ hasHEAD[c] => head # NoHead
  /\ pc[c] \in {"removeNew", "restore"} /\ hasHEAD[c] /\ ~ rbErr[c] =>
       \A p \in toRemove(c) : index[p] = HeadAt(p)
  /\ pc[c] = "restore" /\ hasHEAD[c] /\ ~ rbErr[c] => \A p \in toRemove(c) : wt[p] = Absent

Pushed ==
  /\ ~ unpushed => remote = head
  /\ \A c \in Callers : pc[c] = "done" => ~ unpushed

IInv ==
  /\ Typed /\ SingleFlight /\ Own /\ Pushed
  /\ \A c \in Callers : Progress(c) /\ Undone(c)

-----------------------------------------------------------------------------
(* Files and trees.                                                        *)

LEMMA FileFacts ==
  /\ Subs \subseteq Owned /\ Targets \subseteq Owned /\ Legacy \subseteq Owned
  /\ "meta" \in Targets /\ "meta" \in Owned /\ "meta" \notin Subs /\ "meta" \notin Legacy
  /\ Subs \cap Legacy = {}
  /\ \A p \in Owned : p \in Subs \/ p \in Legacy \/ p = "meta"
  /\ \A p \in Targets : p \in Subs \/ p = "meta"
BY PublicationAssumption DEF Targets, Owned

(* The files are rendered and written in this order, meta.json at the end. *)
LEMMA OrderFacts ==
  /\ Len(SubOrder) \in Nat /\ DOMAIN SubOrder = 1 .. Len(SubOrder)
  /\ Len(targetFiles) = Len(SubOrder) + 1 /\ DOMAIN targetFiles = 1 .. Len(SubOrder) + 1
  /\ \A i \in 1 .. Len(SubOrder) : SubOrder[i] \in Subs /\ targetFiles[i] = SubOrder[i]
  /\ targetFiles[Len(SubOrder) + 1] = "meta"
  /\ \A i \in 1 .. Len(targetFiles) : targetFiles[i] \in Targets
  /\ \A s \in Subs : \E i \in 1 .. Len(SubOrder) : SubOrder[i] = s
  /\ \A p \in Targets : \E i \in 1 .. Len(targetFiles) : targetFiles[i] = p
<1>1. /\ Len(SubOrder) \in Nat /\ DOMAIN SubOrder = 1 .. Len(SubOrder)
      /\ \A i \in 1 .. Len(SubOrder) : SubOrder[i] \in Subs
  BY PublicationAssumption, LenProperties, ElementOfSeq
<1>2. SubOrder \in Seq(Targets) /\ "meta" \in Targets
  BY PublicationAssumption DEF Targets
<1>3. /\ targetFiles \in Seq(Targets)
      /\ Len(targetFiles) = Len(SubOrder) + 1
      /\ \A i \in 1 .. Len(SubOrder) : targetFiles[i] = SubOrder[i]
      /\ targetFiles[Len(SubOrder) + 1] = "meta"
  BY <1>2, AppendProperties DEF targetFiles
<1>4. DOMAIN targetFiles = 1 .. Len(targetFiles)
  BY <1>3, LenProperties
<1>5. \A s \in Subs : \E i \in 1 .. Len(SubOrder) : SubOrder[i] = s
  BY <1>1 DEF Subs
<1>6. ASSUME NEW p \in Targets
      PROVE  \E i \in 1 .. Len(SubOrder) + 1 : targetFiles[i] = p
  <2>1. CASE p = "meta"
    BY <1>1, <1>3, <2>1
  <2>2. CASE p \in Subs
    <3>1. PICK i \in 1 .. Len(SubOrder) : SubOrder[i] = p
      BY <1>5, <2>2
    <3>2. i \in 1 .. Len(SubOrder) + 1 /\ targetFiles[i] = p
      BY <1>1, <1>3, <3>1
    <3>3. QED
      BY <3>2
  <2>3. QED
    BY <2>1, <2>2, FileFacts
<1>7. \A i \in 1 .. Len(SubOrder) + 1 : targetFiles[i] \in Targets
  <2>1. \A i \in 1 .. Len(SubOrder) + 1 : i \in 1 .. Len(SubOrder) \/ i = Len(SubOrder) + 1
    BY <1>1
  <2>2. QED
    BY <1>1, <1>2, <1>3, <2>1 DEF Targets
<1>8. QED
  BY <1>1, <1>3, <1>4, <1>5, <1>6, <1>7

LEMMA TreeFacts ==
  ASSUME NEW t \in Trees
  PROVE  /\ \A s \in Subs : t[s] \in Values \cup {Manual, Absent}
         /\ \A l \in Legacy : t[l] \in {Old, Manual, Absent}
         /\ t["meta"] \in {Manual, Absent} \cup Metas
         /\ t # NoHead
BY PublicationAssumption DEF Trees, IsTree

(* What may be in a file may be put into a tree.                           *)
FileOf(p, v) ==
  /\ v \in Contents
  /\ p \in Subs => v \in Values \cup {Manual, Absent}
  /\ p \in Legacy => v \in {Old, Manual, Absent}
  /\ p = "meta" => v \in {Manual, Absent} \cup Metas

LEMMA FilesOfTree ==
  ASSUME NEW t
  PROVE  t \in Trees <=> /\ t \in [Owned -> Contents]
                         /\ \A p \in Owned : FileOf(p, t[p])
<1>1. ASSUME t \in Trees
      PROVE  t \in [Owned -> Contents] /\ \A p \in Owned : FileOf(p, t[p])
  BY <1>1, FileFacts DEF Trees, IsTree, FileOf
<1>2. ASSUME t \in [Owned -> Contents], \A p \in Owned : FileOf(p, t[p])
      PROVE  t \in Trees
  BY <1>2, FileFacts DEF Trees, IsTree, FileOf
<1>3. QED
  BY <1>1, <1>2

LEMMA EmptyTreeFacts == EmptyTree \in Trees /\ Unedited(EmptyTree)
<1>1. EmptyTree \in [Owned -> Contents] /\ \A p \in Owned : FileOf(p, EmptyTree[p])
  BY DEF EmptyTree, Contents, FileOf
<1>2. Unedited(EmptyTree)
  BY PublicationAssumption DEF EmptyTree, Unedited
<1>3. QED
  BY <1>1, <1>2, FilesOfTree

LEMMA WithFacts ==
  ASSUME NEW t \in Trees, NEW u \in Trees, NEW P
  PROVE  /\ With(t, P, u) \in Trees
         /\ \A p \in Owned : With(t, P, u)[p] = IF p \in P THEN u[p] ELSE t[p]
         /\ Unedited(t) /\ (\A p \in Owned \cap P : u[p] # Manual) => Unedited(With(t, P, u))
<1>1. \A p \in Owned : With(t, P, u)[p] = IF p \in P THEN u[p] ELSE t[p]
  BY DEF With
<1>2. With(t, P, u) \in [Owned -> Contents]
  BY FilesOfTree DEF With
<1>3. \A p \in Owned : FileOf(p, With(t, P, u)[p])
  BY <1>1, FilesOfTree
<1>4. With(t, P, u) \in Trees
  BY <1>2, <1>3, FilesOfTree
<1>5. QED
  BY <1>1, <1>4 DEF Unedited

LEMMA ExceptFacts ==
  ASSUME NEW t \in Trees, NEW p \in Owned, NEW v, FileOf(p, v)
  PROVE  /\ [t EXCEPT ![p] = v] \in Trees
         /\ Unedited(t) /\ v # Manual => Unedited([t EXCEPT ![p] = v])
<1> DEFINE u == [t EXCEPT ![p] = v]
<1>1. u \in [Owned -> Contents] /\ \A q \in Owned : u[q] = IF q = p THEN v ELSE t[q]
  BY FilesOfTree DEF FileOf
<1> HIDE DEF u
<1>2. \A q \in Owned : FileOf(q, u[q])
  BY <1>1, FilesOfTree
<1>3. u \in Trees /\ (Unedited(t) /\ v # Manual => Unedited(u))
  BY <1>1, <1>2, FilesOfTree DEF Unedited
<1>4. QED
  BY <1>3 DEF u

-----------------------------------------------------------------------------
LEMMA PublicationInitially == Init => IInv
<1> SUFFICES ASSUME Init
             PROVE  IInv
  OBVIOUS
<1>1. index \in Trees /\ wt \in Trees /\ Unedited(index) /\ Unedited(wt)
      /\ head \in Trees \cup {NoHead} /\ (head # NoHead => Unedited(head))
  <2>1. CASE head = NoHead
    BY <2>1, EmptyTreeFacts DEF Init
  <2>2. CASE head # NoHead
    <3>1. PICK L \in SUBSET Legacy : head = [p \in Owned |-> IF p \in L THEN Old ELSE Absent]
      BY <2>2 DEF Init
    <3>2. head \in [Owned -> Contents] /\ \A p \in Owned : FileOf(p, head[p])
      BY <3>1, FileFacts DEF Contents, FileOf
    <3>3. head \in Trees /\ Unedited(head)
      BY <3>1, <3>2, FilesOfTree, PublicationAssumption DEF Unedited
    <3>4. QED
      BY <2>2, <3>3 DEF Init
  <2>3. QED
    BY <2>1, <2>2
<1>2. Typed
  <2>1. at \in [Callers -> 1 .. Len(targetFiles) + 1]
    BY OrderFacts DEF Init
  <2>2. /\ pc \in [Callers -> Stages] /\ ctxDone \in SUBSET Callers
        /\ hasHEAD \in [Callers -> BOOLEAN] /\ existed \in [Callers -> SUBSET Owned]
        /\ rbErr \in [Callers -> BOOLEAN]
    BY DEF Init, Stages
  <2>3. rendered \in [Callers -> Trees]
    BY EmptyTreeFacts DEF Init
  <2>4. /\ listing \in [Subs -> Values]
        /\ unpushed \in BOOLEAN /\ publishing \in BOOLEAN
    BY DEF Init
  <2>5. remote \in Trees \cup {NoHead}
    BY <1>1 DEF Init
  <2>6. cycle \in 0 .. MaxCycle
    <3>1. MaxCycle \in Nat
      BY PublicationAssumption
    <3>2. QED
      BY <3>1 DEF Init
  <2>7. QED
    BY <1>1, <2>1, <2>2, <2>3, <2>4, <2>5, <2>6 DEF Typed
<1>3. SingleFlight
  BY DEF Init, SingleFlight
<1>4. Own
  BY <1>1, EmptyTreeFacts DEF Init, Own
<1>5. Pushed
  BY DEF Init, Pushed
<1>6. \A c \in Callers : Progress(c) /\ Undone(c)
  BY DEF Init, Progress, Undone
<1>7. QED
  BY <1>2, <1>3, <1>4, <1>5, <1>6 DEF IInv

(* While a call is made, the other caller's variables rest.                *)
Alone(c) ==
  \A d \in Callers : d # c =>
    /\ pc[d] = "idle" /\ pc'[d] = "idle"
    /\ at'[d] = at[d] /\ hasHEAD'[d] = hasHEAD[d] /\ rendered'[d] = rendered[d]

LEMMA StepIsAlone ==
  ASSUME IInv, NEW c \in Callers, Step(c)
  PROVE  Alone(c)
<1>1. \A d \in Callers : d # c => pc[d] = "idle"
  <2>1. CASE Enter(c)
    BY <2>1 DEF Enter, MayEnter, IInv, SingleFlight
  <2>2. CASE ~ Enter(c)
    <3>1. pc[c] # "idle"
      BY <2>2 DEF Step, Check, Begin, Render, RenderMeta, RemoveLegacy, Write, Add, Diff, Commit,
        Ahead, Push, Unstage, RemoveNew, Restore, Leave, Cancel
    <3>2. QED
      BY <3>1 DEF IInv, SingleFlight
  <2>3. QED
    BY <2>1, <2>2
<1>2. pc' = pc \/ \E to \in Stages : pc' = [pc EXCEPT ![c] = to]
  BY DEF Step, Enter, Check, Begin, Render, RenderMeta, RemoveLegacy, Write, Add, Diff, Commit,
    Ahead, NextIfAhead, Push, Unstage, RemoveNew, Restore, Leave, Cancel, Goto, Succeeds, Killed,
    Fails, Stages
<1>3. at' = at \/ \E n : at' = [at EXCEPT ![c] = n]
  BY DEF Step, Enter, Check, Begin, Render, RenderMeta, RemoveLegacy, Write, Add, Diff, Commit,
    Ahead, Push, Unstage, RemoveNew, Restore, Leave, Cancel, callVars
<1>4. hasHEAD' = hasHEAD \/ \E b \in BOOLEAN : hasHEAD' = [hasHEAD EXCEPT ![c] = b]
  <2>1. CASE Begin(c)
    BY <2>1 DEF Begin
  <2>2. CASE ~ Begin(c)
    BY <2>2 DEF Step, Enter, Check, Render, RenderMeta, RemoveLegacy, Write, Add, Diff, Commit,
      Ahead, Push, Unstage, RemoveNew, Restore, Leave, Cancel, callVars
  <2>3. QED
    BY <2>1, <2>2
<1>5. rendered' = rendered \/ \E t : rendered' = [rendered EXCEPT ![c] = t]
  BY DEF Step, Enter, Check, Begin, Render, RenderMeta, RemoveLegacy, Write, Add, Diff, Commit,
    Ahead, Push, Unstage, RemoveNew, Restore, Leave, Cancel, callVars
<1>6. QED
  BY <1>1, <1>2, <1>3, <1>4, <1>5 DEF Alone, IInv, Typed

(* What remains to be shown of a step of call c.                           *)
OwnPart(c) ==
  /\ Unedited(index) /\ (head # NoHead => Unedited(head))
  /\ Unedited(rendered[c])
  /\ pc[c] \notin {"idle", "check", "done", "unverified", "failed"} => Unedited(wt)

PushedPart(c) ==
  /\ ~ unpushed => remote = head
  /\ pc[c] = "done" => ~ unpushed

LEMMA CallStep ==
  ASSUME IInv, NEW c \in Callers, Alone(c),
         Typed', pc'[c] # "idle" => publishing', head # NoHead => head' # NoHead,
         OwnPart(c)', PushedPart(c)', Progress(c)', Undone(c)'
  PROVE  IInv'
<1>1. SingleFlight'
  BY DEF Alone, SingleFlight
<1>2. Own'
  BY DEF Alone, OwnPart, IInv, Own, Working
<1>3. Pushed'
  BY DEF Alone, PushedPart, Pushed
<1>4. ASSUME NEW d \in Callers
      PROVE  Progress(d)' /\ Undone(d)'
  <2>1. CASE d # c
    BY <2>1 DEF Alone, IInv, Progress, Undone
  <2>2. CASE d = c
    BY <2>2
  <2>3. QED
    BY <2>1, <2>2
<1>5. QED
  BY <1>1, <1>2, <1>3, <1>4 DEF IInv

LEMMA Here ==
  ASSUME IInv, NEW c \in Callers
  PROVE  Typed /\ OwnPart(c) /\ PushedPart(c) /\ Progress(c) /\ Undone(c)
BY DEF IInv, Own, Working, OwnPart, Pushed, PushedPart

-----------------------------------------------------------------------------
(* The steps of a call, in their order.                                    *)

LEMMA EnterKeeps ==
  ASSUME IInv, NEW c \in Callers, Enter(c)
  PROVE  IInv'
<1>1. Alone(c) /\ Typed /\ OwnPart(c) /\ PushedPart(c) /\ Progress(c) /\ Undone(c)
  BY StepIsAlone, Here DEF Step
<1>2. /\ pc' = [pc EXCEPT ![c] = "check"] /\ pc'[c] = "check" /\ publishing' = TRUE
      /\ pc[c] = "idle"
      /\ UNCHANGED <<storeVars, repoVars, ctxDone, callVars>>
  BY <1>1 DEF Enter, Goto, Typed
<1>3. Typed'
  BY <1>1, <1>2 DEF Typed, Stages, storeVars, repoVars, callVars
<1>4. OwnPart(c)' /\ PushedPart(c)'
  BY <1>1, <1>2 DEF OwnPart, PushedPart, repoVars, callVars
<1>5. Progress(c)' /\ Undone(c)'
  BY <1>1, <1>2 DEF Progress, Undone, repoVars, callVars
<1>6. QED
  BY <1>1, <1>2, <1>3, <1>4, <1>5, CallStep DEF repoVars

LEMMA LeaveKeeps ==
  ASSUME IInv, NEW c \in Callers, Leave(c)
  PROVE  IInv'
<1>1. Alone(c) /\ Typed /\ OwnPart(c) /\ PushedPart(c) /\ Progress(c) /\ Undone(c)
  BY StepIsAlone, Here DEF Step
<1>2. /\ pc' = [pc EXCEPT ![c] = "idle"] /\ pc'[c] = "idle" /\ publishing' = FALSE
      /\ at' = [at EXCEPT ![c] = 1] /\ at'[c] = 1
      /\ hasHEAD' = [hasHEAD EXCEPT ![c] = FALSE] /\ ~ hasHEAD'[c]
      /\ rendered' = [rendered EXCEPT ![c] = EmptyTree] /\ rendered'[c] = EmptyTree
      /\ UNCHANGED <<storeVars, repoVars>>
  BY <1>1 DEF Leave, Goto, Typed
<1>3. Typed'
  <2>1. at' \in [Callers -> 1 .. Len(targetFiles) + 1]
    BY <1>1, <1>2, OrderFacts DEF Typed
  <2>2. /\ rendered' \in [Callers -> Trees] /\ hasHEAD' \in [Callers -> BOOLEAN]
        /\ pc' \in [Callers -> Stages] /\ publishing' \in BOOLEAN
    BY <1>1, <1>2, EmptyTreeFacts DEF Typed, Stages
  <2>3. /\ existed' \in [Callers -> SUBSET Owned] /\ rbErr' \in [Callers -> BOOLEAN]
        /\ ctxDone' \in SUBSET Callers
    BY <1>1 DEF Leave, Typed
  <2>4. QED
    BY <1>1, <1>2, <2>1, <2>2, <2>3 DEF Typed, storeVars, repoVars
<1>4. OwnPart(c)' /\ PushedPart(c)'
  BY <1>1, <1>2, EmptyTreeFacts DEF OwnPart, PushedPart, repoVars
<1>5. Progress(c)' /\ Undone(c)'
  BY <1>1, <1>2 DEF Progress, Undone
<1>6. QED
  BY <1>1, <1>2, <1>3, <1>4, <1>5, CallStep DEF repoVars

(* What the check lets pass is nobody's but the publisher's.               *)
LEMMA SafeTreeIsOwn ==
  ASSUME Typed, Own, WorkingTreeSafe
  PROVE  Unedited(wt)
<1>1. \A p \in Owned : HeadAt(p) # Manual
  BY PublicationAssumption DEF Own, HeadAt, Unedited
<1>2. ASSUME NEW p \in Owned, wt[p] = Manual
      PROVE  FALSE
  <2>1. wt[p] # Absent
    BY <1>2, PublicationAssumption
  <2>2. wt[p] = HeadAt(p)
    BY <2>1 DEF WorkingTreeSafe, Modified, Owned
  <2>3. QED
    BY <1>1, <1>2, <2>2
<1>3. QED
  BY <1>2 DEF Unedited

LEMMA CheckKeeps ==
  ASSUME IInv, NEW c \in Callers, Check(c)
  PROVE  IInv'
<1>1. Alone(c) /\ Typed /\ OwnPart(c) /\ PushedPart(c) /\ Progress(c) /\ Undone(c)
  BY StepIsAlone, Here DEF Step
<1>2. /\ pc[c] = "check" /\ publishing' = publishing
      /\ UNCHANGED <<storeVars, repoVars, ctxDone, callVars>>
  BY DEF Check
<1>3. PICK to \in {"failed", "begin"} :
        pc' = [pc EXCEPT ![c] = to] /\ (to = "begin" => WorkingTreeSafe)
  BY DEF Check, Goto
<1>4. pc'[c] = to
  BY <1>1, <1>3 DEF Typed
<1>5. Typed'
  BY <1>1, <1>2, <1>3 DEF Typed, Stages, storeVars, repoVars, callVars
<1>6. OwnPart(c)'
  BY <1>1, <1>2, <1>3, <1>4, SafeTreeIsOwn DEF IInv, OwnPart, repoVars, callVars
<1>7. PushedPart(c)' /\ Progress(c)' /\ Undone(c)'
  BY <1>1, <1>2, <1>4 DEF PushedPart, Progress, Undone, repoVars, callVars
<1>8. publishing
  BY <1>2 DEF IInv, SingleFlight
<1>9. QED
  BY <1>1, <1>2, <1>5, <1>6, <1>7, <1>8, CallStep DEF repoVars

LEMMA BeginKeeps ==
  ASSUME IInv, NEW c \in Callers, Begin(c)
  PROVE  IInv'
<1>1. Alone(c) /\ Typed /\ OwnPart(c) /\ PushedPart(c) /\ Progress(c) /\ Undone(c)
  BY StepIsAlone, Here DEF Step
<1>2. /\ pc[c] = "begin" /\ pc' = [pc EXCEPT ![c] = "render"] /\ pc'[c] = "render"
      /\ publishing' = publishing
      /\ UNCHANGED <<storeVars, repoVars, ctxDone, at, rendered, rbErr>>
  BY <1>1 DEF Begin, Goto, Typed
<1>3. PICK b \in BOOLEAN : hasHEAD' = [hasHEAD EXCEPT ![c] = b] /\ (b => head # NoHead)
  BY DEF Begin
<1>4. hasHEAD'[c] => head # NoHead
  BY <1>1, <1>3 DEF Typed
<1>5. existed' \in [Callers -> SUBSET Owned]
  BY <1>1 DEF Begin, Typed
<1>6. Typed'
  BY <1>1, <1>2, <1>3, <1>5 DEF Typed, Stages, storeVars, repoVars
<1>7. OwnPart(c)' /\ PushedPart(c)'
  BY <1>1, <1>2 DEF OwnPart, PushedPart, repoVars
<1>8. Progress(c)' /\ Undone(c)'
  <2>1. at'[c] = 1 /\ 1 \in 1 .. Len(SubOrder) + 1 /\ ~ \E i \in 1 .. at'[c] - 1 : TRUE
    BY <1>1, <1>2, OrderFacts DEF Progress
  <2>2. QED
    BY <1>2, <1>4, <2>1 DEF Progress, Undone, repoVars
<1>9. publishing
  BY <1>2 DEF IInv, SingleFlight
<1>10. QED
  BY <1>1, <1>2, <1>6, <1>7, <1>8, <1>9, CallStep DEF repoVars

LEMMA RenderKeeps ==
  ASSUME IInv, NEW c \in Callers, Render(c)
  PROVE  IInv'
<1>1. Alone(c) /\ Typed /\ OwnPart(c) /\ PushedPart(c) /\ Progress(c) /\ Undone(c)
  BY StepIsAlone, Here DEF Step
<1>2. /\ pc[c] = "render" /\ pc' = pc /\ publishing' = publishing
      /\ UNCHANGED <<storeVars, repoVars, ctxDone, hasHEAD, existed, rbErr>>
  BY DEF Render
<1>3. PICK k : k = at[c]
  OBVIOUS
<1>4. PICK s \in Subs : s = SubOrder[k]
  BY <1>3, OrderFacts DEF Render
<1>5. PICK v \in Values : v = listing[s]
  BY <1>1 DEF Typed
<1>6. PICK t \in Trees : t = rendered[c]
  BY <1>1 DEF Typed
<1>7. /\ k \in 1 .. Len(SubOrder) /\ k + 1 \in 1 .. Len(SubOrder) + 1
      /\ k + 1 \in 1 .. Len(targetFiles) + 1
      /\ \A i \in 1 .. k + 1 - 1 : i = k \/ i \in 1 .. k - 1
  BY <1>3, OrderFacts DEF Render
<1>8. at' = [at EXCEPT ![c] = k + 1] /\ at'[c] = k + 1
  BY <1>1, <1>3 DEF Render, Typed
<1>9. rendered' = [rendered EXCEPT ![c] = [t EXCEPT ![s] = v]]
  BY <1>3, <1>4, <1>5, <1>6 DEF Render
<1>10. FileOf(s, v) /\ s \in Owned /\ v # Manual
  BY FileFacts, PublicationAssumption DEF FileOf, Contents
<1>11. /\ [t EXCEPT ![s] = v] \in Trees
       /\ Unedited(t) => Unedited([t EXCEPT ![s] = v])
  BY <1>10, ExceptFacts
<1>12. rendered' \in [Callers -> Trees] /\ rendered'[c] = [t EXCEPT ![s] = v]
  BY <1>1, <1>9, <1>11 DEF Typed
<1>13. \A p \in Owned : rendered'[c][p] = IF p = s THEN v ELSE t[p]
  BY <1>12, FilesOfTree
<1>14. Typed'
  BY <1>1, <1>2, <1>7, <1>8, <1>12 DEF Typed, storeVars, repoVars
<1>15. OwnPart(c)' /\ PushedPart(c)' /\ Undone(c)'
  BY <1>1, <1>2, <1>6, <1>11, <1>12 DEF OwnPart, PushedPart, Undone, repoVars
<1>16. Progress(c)'
  <2>1. ASSUME NEW i \in 1 .. k + 1 - 1
        PROVE  rendered'[c][SubOrder[i]] \in Values
    <3>1. i \in 1 .. Len(SubOrder) /\ SubOrder[i] \in Owned
      BY <1>7, OrderFacts, FileFacts
    <3>2. i = k \/ t[SubOrder[i]] \in Values
      BY <1>1, <1>2, <1>3, <1>6, <1>7 DEF Progress
    <3>3. QED
      BY <1>4, <1>13, <3>1, <3>2
  <2>2. /\ pc'[c] = "render" /\ at'[c] \in 1 .. Len(SubOrder) + 1
        /\ \A i \in 1 .. at'[c] - 1 : rendered'[c][SubOrder[i]] \in Values
    BY <1>2, <1>7, <1>8, <2>1, SMTT(30)
  <2>3. QED
    BY <2>2 DEF Progress
<1>17. publishing
  BY <1>2 DEF IInv, SingleFlight
<1>18. QED
  BY <1>1, <1>2, <1>14, <1>15, <1>16, <1>17, CallStep DEF repoVars

(* Whether the old meta.json stays or a new one is made, its counts are    *)
(* those of the projections that were rendered.                            *)
LEMMA MetaIsWhole ==
  ASSUME Typed, NEW t \in Trees, \A s \in Subs : t[s] \in Values, Unedited(wt),
         NEW m, m = IF KeepsMeta(t) THEN wt["meta"] ELSE [counts |-> Counts(t), cycle |-> cycle]
  PROVE  m \in Metas /\ m.counts = Counts(t)
<1>1. CASE KeepsMeta(t)
  <2>1. wt["meta"] \in Metas
    BY <1>1, TreeFacts, FileFacts DEF Typed, KeepsMeta, Unedited
  <2>2. QED
    BY <1>1, <2>1 DEF KeepsMeta
<1>2. CASE ~ KeepsMeta(t)
  <2>1. Counts(t) \in [Subs -> Values]
    BY DEF Counts
  <2>2. QED
    BY <1>2, <2>1 DEF Metas, Typed
<1>3. QED
  BY <1>1, <1>2

LEMMA RenderMetaKeeps ==
  ASSUME IInv, NEW c \in Callers, RenderMeta(c)
  PROVE  IInv'
<1>1. Alone(c) /\ Typed /\ OwnPart(c) /\ PushedPart(c) /\ Progress(c) /\ Undone(c)
  BY StepIsAlone, Here DEF Step
<1>2. /\ pc[c] = "render" /\ publishing' = publishing
      /\ at' = [at EXCEPT ![c] = 1] /\ at'[c] = 1
      /\ UNCHANGED <<storeVars, repoVars, ctxDone, hasHEAD, existed, rbErr>>
  BY <1>1 DEF RenderMeta, Typed
<1>3. PICK to \in {"remove", "rollback"} : pc' = [pc EXCEPT ![c] = to]
  BY DEF RenderMeta, Goto
<1>4. pc'[c] = to
  BY <1>1, <1>3 DEF Typed
<1>5. PICK t \in Trees : t = rendered[c]
  BY <1>1 DEF Typed
<1>6. PICK m : m = IF KeepsMeta(t) THEN wt["meta"] ELSE [counts |-> Counts(t), cycle |-> cycle]
  OBVIOUS
<1>7. rendered' = [rendered EXCEPT ![c] = [t EXCEPT !["meta"] = m]]
  BY <1>5, <1>6 DEF RenderMeta
<1>8. \A s \in Subs : t[s] \in Values
  <2>1. at[c] = Len(SubOrder) + 1
    BY <1>1, <1>2, OrderFacts DEF Progress, RenderMeta
  <2>2. at[c] - 1 = Len(SubOrder)
    BY <2>1, OrderFacts
  <2>3. QED
    BY <1>1, <1>2, <1>5, <2>2, OrderFacts DEF Progress
<1>9. m \in Metas /\ m.counts = Counts(t)
  BY <1>1, <1>2, <1>6, <1>8, MetaIsWhole DEF OwnPart
<1>10. FileOf("meta", m) /\ "meta" \in Owned /\ m # Manual
  BY <1>9, FileFacts, PublicationAssumption DEF FileOf, Contents
<1>11. /\ [t EXCEPT !["meta"] = m] \in Trees
       /\ Unedited(t) => Unedited([t EXCEPT !["meta"] = m])
  BY <1>10, ExceptFacts
<1>12. rendered' \in [Callers -> Trees] /\ rendered'[c] = [t EXCEPT !["meta"] = m]
  BY <1>1, <1>7, <1>11 DEF Typed
<1>13. \A p \in Owned : rendered'[c][p] = IF p = "meta" THEN m ELSE t[p]
  BY <1>12, FilesOfTree
<1>14. Typed'
  <2>1. at' \in [Callers -> 1 .. Len(targetFiles) + 1]
    BY <1>1, <1>2, OrderFacts DEF Typed
  <2>2. QED
    BY <1>1, <1>2, <1>3, <1>12, <2>1 DEF Typed, Stages, storeVars, repoVars
<1>15. OwnPart(c)' /\ PushedPart(c)' /\ Undone(c)'
  BY <1>1, <1>2, <1>4, <1>5, <1>11, <1>12 DEF OwnPart, PushedPart, Undone, repoVars
<1>16. Whole(rendered[c])'
  <2>1. \A s \in Subs : rendered'[c][s] = t[s]
    BY <1>13, FileFacts
  <2>2. Counts(rendered'[c]) = Counts(t)
    BY <2>1 DEF Counts
  <2>3. rendered'[c]["meta"] = m
    BY <1>13, FileFacts
  <2>4. QED
    BY <1>8, <1>9, <2>1, <2>2, <2>3 DEF Whole
<1>17. Progress(c)'
  BY <1>2, <1>4, <1>16 DEF Progress
<1>18. publishing
  BY <1>2 DEF IInv, SingleFlight
<1>19. QED
  BY <1>1, <1>2, <1>14, <1>15, <1>17, <1>18, CallStep DEF repoVars

LEMMA RemoveLegacyKeeps ==
  ASSUME IInv, NEW c \in Callers, RemoveLegacy(c)
  PROVE  IInv'
<1>1. Alone(c) /\ Typed /\ OwnPart(c) /\ PushedPart(c) /\ Progress(c) /\ Undone(c)
  BY StepIsAlone, Here DEF Step
<1>2. /\ pc[c] = "remove" /\ publishing' = publishing
      /\ UNCHANGED <<storeVars, index, head, remote, unpushed, ctxDone, callVars>>
  BY DEF RemoveLegacy
<1>3. PICK gone : wt' = With(wt, gone, EmptyTree)
  BY DEF RemoveLegacy
<1>4. PICK to \in {"rollback", "write"} : pc' = [pc EXCEPT ![c] = to]
  BY DEF RemoveLegacy, Goto
<1>5. pc'[c] = to
  BY <1>1, <1>4 DEF Typed
<1>6. wt' \in Trees /\ Unedited(wt')
  BY <1>1, <1>2, <1>3, WithFacts, EmptyTreeFacts, SMTT(30) DEF Typed, OwnPart, Unedited
<1>7. Typed'
  BY <1>1, <1>2, <1>4, <1>6 DEF Typed, Stages, storeVars, callVars
<1>8. OwnPart(c)' /\ PushedPart(c)' /\ Undone(c)'
  BY <1>1, <1>2, <1>5, <1>6 DEF OwnPart, PushedPart, Undone, callVars
<1>9. Progress(c)'
  <2>1. at'[c] = 1 /\ 1 \in 1 .. Len(targetFiles) /\ ~ \E i \in 1 .. at'[c] - 1 : TRUE
    BY <1>1, <1>2, OrderFacts DEF Progress, callVars
  <2>2. QED
    BY <1>1, <1>2, <1>5, <2>1 DEF Progress, callVars
<1>10. publishing
  BY <1>2 DEF IInv, SingleFlight
<1>11. QED
  BY <1>1, <1>2, <1>7, <1>8, <1>9, <1>10, CallStep

LEMMA WriteKeeps ==
  ASSUME IInv, NEW c \in Callers, Write(c)
  PROVE  IInv'
<1>1. Alone(c) /\ Typed /\ OwnPart(c) /\ PushedPart(c) /\ Progress(c) /\ Undone(c)
  BY StepIsAlone, Here DEF Step
<1>2. /\ pc[c] = "write" /\ publishing' = publishing
      /\ UNCHANGED <<storeVars, index, head, remote, unpushed, ctxDone, hasHEAD, existed,
                     rendered, rbErr>>
  BY DEF Write
<1>3. publishing
  BY <1>2 DEF IInv, SingleFlight
<1>4. CASE Goto(c, "rollback") /\ UNCHANGED <<wt, at>>
  <2>1. pc' = [pc EXCEPT ![c] = "rollback"] /\ pc'[c] = "rollback"
    BY <1>1, <1>4 DEF Goto, Typed
  <2>2. Typed'
    BY <1>1, <1>2, <1>4, <2>1 DEF Typed, Stages, storeVars
  <2>3. OwnPart(c)' /\ PushedPart(c)' /\ Undone(c)' /\ Progress(c)'
    BY <1>1, <1>2, <1>4, <2>1 DEF OwnPart, PushedPart, Undone, Progress
  <2>4. QED
    BY <1>1, <1>2, <1>3, <2>2, <2>3, CallStep
<1>5. CASE /\ AtomicWriteFile(c, targetFiles[at[c]])
           /\ at' = [at EXCEPT ![c] = @ + 1]
           /\ Goto(c, IF at[c] = Len(targetFiles) THEN "add" ELSE "write")
  <2>1. PICK k : k = at[c]
    OBVIOUS
  <2>2. /\ k \in 1 .. Len(targetFiles) /\ k + 1 \in 1 .. Len(targetFiles) + 1
        /\ k # Len(targetFiles) => k + 1 \in 1 .. Len(targetFiles)
        /\ \A i \in 1 .. k + 1 - 1 : i = k \/ i \in 1 .. k - 1
    BY <1>1, <1>2, <2>1, OrderFacts DEF Progress
  <2>3. PICK f \in Targets : f = targetFiles[k]
    BY <2>2, OrderFacts
  <2>4. PICK t \in Trees : t = rendered[c]
    BY <1>1 DEF Typed
  <2>5. wt' = With(wt, {f}, t)
    BY <1>5, <2>1, <2>3, <2>4 DEF AtomicWriteFile
  <2>6. /\ wt' \in Trees /\ Unedited(wt')
        /\ \A p \in Owned : wt'[p] = IF p = f THEN t[p] ELSE wt[p]
    BY <1>1, <1>2, <2>4, <2>5, WithFacts, SMTT(30) DEF Typed, OwnPart, Unedited
  <2>7. at' = [at EXCEPT ![c] = k + 1] /\ at'[c] = k + 1
    BY <1>1, <1>5, <2>1 DEF Typed
  <2>8. PICK to \in {"add", "write"} : /\ pc' = [pc EXCEPT ![c] = to]
                                       /\ to = "add" <=> k = Len(targetFiles)
    BY <1>5, <2>1 DEF Goto
  <2>9. pc'[c] = to
    BY <1>1, <2>8 DEF Typed
  <2>10. ASSUME NEW i \in 1 .. k + 1 - 1
         PROVE  wt'[targetFiles[i]] = t[targetFiles[i]]
    <3>1. targetFiles[i] \in Owned
      BY <2>2, OrderFacts, FileFacts
    <3>2. i = k \/ wt[targetFiles[i]] = t[targetFiles[i]]
      BY <1>1, <1>2, <2>1, <2>2, <2>4 DEF Progress
    <3>3. QED
      BY <2>3, <2>6, <3>1, <3>2
  <2>11. ASSUME k = Len(targetFiles)
         PROVE  \A p \in Targets : wt'[p] = t[p]
    <3>1. k + 1 - 1 = Len(targetFiles)
      BY <2>11, OrderFacts
    <3>2. QED
      BY <2>10, <3>1, OrderFacts
  <2>12. Typed'
    BY <1>1, <1>2, <2>2, <2>6, <2>7, <2>8 DEF Typed, Stages, storeVars
  <2>13. OwnPart(c)' /\ PushedPart(c)' /\ Undone(c)'
    BY <1>1, <1>2, <2>6, <2>9 DEF OwnPart, PushedPart, Undone
  <2>14. Progress(c)'
    <3>1. Whole(rendered[c])'
      BY <1>1, <1>2 DEF Progress
    <3>2. QED
      BY <1>2, <2>2, <2>4, <2>7, <2>8, <2>9, <2>10, <2>11, <3>1 DEF Progress
  <2>15. QED
    BY <1>1, <1>2, <1>3, <2>12, <2>13, <2>14, CallStep
<1>6. QED
  BY <1>4, <1>5 DEF Write

(* git commands.  An effect on the index is that of the call's files.      *)
LEMMA AddKeeps ==
  ASSUME IInv, NEW c \in Callers, Add(c)
  PROVE  IInv'
<1>1. Alone(c) /\ Typed /\ OwnPart(c) /\ PushedPart(c) /\ Progress(c) /\ Undone(c)
  BY StepIsAlone, Here DEF Step
<1>2. /\ pc[c] = "add" /\ publishing' = publishing
      /\ UNCHANGED <<storeVars, wt, head, remote, unpushed, callVars>>
  BY DEF Add, Fails, repoVars
<1>3. publishing
  BY <1>2 DEF IInv, SingleFlight
<1>4. PICK to \in {"rollback", "diff"} : pc' = [pc EXCEPT ![c] = to]
  BY DEF Add, Fails, Succeeds, Killed, Goto
<1>5. pc'[c] = to
  BY <1>1, <1>4 DEF Typed
<1>6. ctxDone' \in SUBSET Callers
  BY <1>1 DEF Add, Fails, Succeeds, Killed, Typed
<1>7. CASE Fails(c, "rollback")
  <2>1. to = "rollback" /\ index' = index
    BY <1>1, <1>5, <1>7 DEF Fails, Goto, repoVars, Typed
  <2>2. Typed'
    BY <1>1, <1>2, <1>4, <1>6, <2>1 DEF Typed, Stages, storeVars, callVars
  <2>3. OwnPart(c)' /\ PushedPart(c)' /\ Undone(c)' /\ Progress(c)'
    BY <1>1, <1>2, <1>5, <2>1 DEF OwnPart, PushedPart, Undone, Progress, callVars
  <2>4. QED
    BY <1>1, <1>2, <1>3, <2>2, <2>3, CallStep
<1>8. CASE index' = With(index, stageFiles(c), wt)
  <2>1. /\ index' \in Trees /\ Unedited(index')
        /\ \A p \in Owned : index'[p] = IF p \in stageFiles(c) THEN wt[p] ELSE index[p]
    BY <1>1, <1>2, <1>8, WithFacts DEF Typed, OwnPart, Unedited
  <2>2. \A p \in Targets : index'[p] = rendered[c][p]
    BY <1>1, <1>2, <2>1, FileFacts DEF Progress, stageFiles
  <2>3. Typed'
    BY <1>1, <1>2, <1>4, <1>6, <2>1 DEF Typed, Stages, storeVars, callVars
  <2>4. OwnPart(c)' /\ PushedPart(c)' /\ Undone(c)'
    BY <1>1, <1>2, <1>5, <2>1 DEF OwnPart, PushedPart, Undone, callVars
  <2>5. Progress(c)'
    <3>1. Whole(rendered[c])'
      BY <1>1, <1>2 DEF Progress, callVars
    <3>2. QED
      BY <1>2, <1>5, <2>2, <3>1 DEF Progress, callVars
  <2>6. QED
    BY <1>1, <1>2, <1>3, <2>3, <2>4, <2>5, CallStep
<1>9. QED
  BY <1>7, <1>8 DEF Add

LEMMA DiffKeeps ==
  ASSUME IInv, NEW c \in Callers, Diff(c)
  PROVE  IInv'
<1>1. Alone(c) /\ Typed /\ OwnPart(c) /\ PushedPart(c) /\ Progress(c) /\ Undone(c)
  BY StepIsAlone, Here DEF Step
<1>2. /\ pc[c] = "diff" /\ publishing' = publishing
      /\ UNCHANGED <<storeVars, repoVars, ctxDone, callVars>>
  BY DEF Diff, Fails, Succeeds
<1>3. publishing
  BY <1>2 DEF IInv, SingleFlight
<1>4. PICK to \in {"rollback", "commit", "ahead"} : pc' = [pc EXCEPT ![c] = to]
  BY DEF Diff, Fails, Succeeds, Goto
<1>5. pc'[c] = to
  BY <1>1, <1>4 DEF Typed
<1>6. Typed'
  BY <1>1, <1>2, <1>4 DEF Typed, Stages, storeVars, repoVars, callVars
<1>7. OwnPart(c)' /\ PushedPart(c)' /\ Undone(c)' /\ Progress(c)'
  BY <1>1, <1>2, <1>5 DEF OwnPart, PushedPart, Undone, Progress, repoVars, callVars
<1>8. QED
  BY <1>1, <1>2, <1>3, <1>6, <1>7, CallStep DEF repoVars

(* The whole index is committed, with nothing of the operator's in it.     *)
LEMMA CommitKeeps ==
  ASSUME IInv, NEW c \in Callers, Commit(c)
  PROVE  IInv'
<1>1. Alone(c) /\ Typed /\ OwnPart(c) /\ PushedPart(c) /\ Progress(c) /\ Undone(c)
  BY StepIsAlone, Here DEF Step
<1>2. /\ pc[c] = "commit" /\ publishing' = publishing
      /\ UNCHANGED <<storeVars, wt, index, remote, callVars>>
  BY DEF Commit, Fails, repoVars
<1>3. publishing
  BY <1>2 DEF IInv, SingleFlight
<1>4. PICK to \in {"rollback", "push"} : pc' = [pc EXCEPT ![c] = to]
  BY DEF Commit, Fails, Succeeds, Killed, Goto
<1>5. pc'[c] = to
  BY <1>1, <1>4 DEF Typed
<1>6. ctxDone' \in SUBSET Callers
  BY <1>1 DEF Commit, Fails, Succeeds, Killed, Typed
<1>7. UNCHANGED <<head, unpushed>> \/ (head' = index /\ unpushed' = TRUE)
  BY DEF Commit, Fails, repoVars
<1>8. index \in Trees /\ index # NoHead
  BY <1>1, TreeFacts DEF Typed
<1>9. Typed'
  <2>1. head' \in Trees \cup {NoHead} /\ unpushed' \in BOOLEAN
    BY <1>1, <1>7 DEF Typed
  <2>2. QED
    BY <1>1, <1>2, <1>4, <1>6, <2>1 DEF Typed, Stages, storeVars, callVars
<1>10. head # NoHead => head' # NoHead
  BY <1>7, <1>8
<1>11. OwnPart(c)'
  BY <1>1, <1>2, <1>5, <1>7 DEF OwnPart, callVars
<1>12. PushedPart(c)'
  BY <1>1, <1>2, <1>5, <1>7 DEF PushedPart
<1>13. Undone(c)'
  BY <1>1, <1>2, <1>5, <1>10 DEF Undone, callVars
<1>14. Progress(c)'
  BY <1>1, <1>2, <1>5 DEF Progress, callVars
<1>15. QED
  BY <1>1, <1>2, <1>3, <1>9, <1>10, <1>11, <1>12, <1>13, <1>14, CallStep

LEMMA AheadKeeps ==
  ASSUME IInv, NEW c \in Callers, Ahead(c)
  PROVE  IInv'
<1>1. Alone(c) /\ Typed /\ OwnPart(c) /\ PushedPart(c) /\ Progress(c) /\ Undone(c)
  BY StepIsAlone, Here DEF Step
<1>2. /\ pc[c] = "ahead" /\ publishing' = publishing
      /\ UNCHANGED <<storeVars, repoVars, ctxDone, callVars>>
  BY DEF Ahead
<1>3. publishing
  BY <1>2 DEF IInv, SingleFlight
<1>4. PICK to \in {"done", "unverified", "push", "failed"} :
        pc' = [pc EXCEPT ![c] = to] /\ (to = "done" => ~ unpushed)
  BY DEF Ahead, Goto, NextIfAhead
<1>5. pc'[c] = to
  BY <1>1, <1>4 DEF Typed
<1>6. Typed'
  BY <1>1, <1>2, <1>4 DEF Typed, Stages, storeVars, repoVars, callVars
<1>7. OwnPart(c)' /\ PushedPart(c)' /\ Undone(c)' /\ Progress(c)'
  BY <1>1, <1>2, <1>4, <1>5 DEF OwnPart, PushedPart, Undone, Progress, repoVars, callVars
<1>8. QED
  BY <1>1, <1>2, <1>3, <1>6, <1>7, CallStep DEF repoVars

LEMMA PushKeeps ==
  ASSUME IInv, NEW c \in Callers, Push(c)
  PROVE  IInv'
<1>1. Alone(c) /\ Typed /\ OwnPart(c) /\ PushedPart(c) /\ Progress(c) /\ Undone(c)
  BY StepIsAlone, Here DEF Step
<1>2. /\ pc[c] = "push" /\ publishing' = publishing
      /\ UNCHANGED <<storeVars, wt, index, head, callVars>>
  BY DEF Push, Fails, repoVars
<1>3. publishing
  BY <1>2 DEF IInv, SingleFlight
<1>4. PICK to \in {"done", "failed"} :
        /\ pc' = [pc EXCEPT ![c] = to]
        /\ \/ to = "failed" /\ UNCHANGED <<remote, unpushed>>
           \/ to = "failed" /\ remote' = head /\ UNCHANGED unpushed
           \/ to = "done" /\ remote' = head /\ unpushed' = FALSE
  BY DEF Push, Fails, Succeeds, Killed, Goto, repoVars
<1>5. pc'[c] = to
  BY <1>1, <1>4 DEF Typed
<1>6. ctxDone' \in SUBSET Callers
  BY <1>1 DEF Push, Fails, Succeeds, Killed, Typed
<1>7. Typed'
  <2>1. remote' \in Trees \cup {NoHead} /\ unpushed' \in BOOLEAN
    BY <1>1, <1>4 DEF Typed
  <2>2. QED
    BY <1>1, <1>2, <1>4, <1>6, <2>1 DEF Typed, Stages, storeVars, callVars
<1>8. OwnPart(c)' /\ PushedPart(c)' /\ Undone(c)' /\ Progress(c)'
  BY <1>1, <1>2, <1>4, <1>5 DEF OwnPart, PushedPart, Undone, Progress, callVars
<1>9. QED
  BY <1>1, <1>2, <1>3, <1>7, <1>8, CallStep

-----------------------------------------------------------------------------
(* The rollback.                                                           *)

LEMMA HeadFacts ==
  ASSUME IInv, NEW p \in Owned
  PROVE  FileOf(p, HeadAt(p)) /\ HeadAt(p) # Manual
<1>1. CASE head = NoHead
  BY <1>1, PublicationAssumption DEF HeadAt, FileOf, Contents
<1>2. CASE head # NoHead
  <2>1. head \in Trees /\ Unedited(head)
    BY <1>2 DEF IInv, Typed, Own
  <2>2. QED
    BY <1>2, <2>1, FilesOfTree DEF HeadAt, Unedited
<1>3. QED
  BY <1>1, <1>2

LEMMA SetRbErrFacts ==
  ASSUME Typed, NEW c \in Callers, NEW b \in BOOLEAN, SetRbErr(c, b)
  PROVE  /\ rbErr' \in [Callers -> BOOLEAN]
         /\ ~ rbErr'[c] => ~ rbErr[c] /\ ~ b
<1>1. PICK e \in BOOLEAN : e <=> rbErr[c] \/ b
  OBVIOUS
<1>2. rbErr[c] \in BOOLEAN
  BY DEF Typed
<1>3. (rbErr[c] \/ b) = e
  BY <1>1, <1>2
<1>4. rbErr' = [rbErr EXCEPT ![c] = e]
  BY <1>3 DEF SetRbErr
<1>5. rbErr' \in [Callers -> BOOLEAN] /\ rbErr'[c] = e
  BY <1>4 DEF Typed
<1>6. QED
  BY <1>1, <1>5

LEMMA UnstageKeeps ==
  ASSUME IInv, NEW c \in Callers, Unstage(c)
  PROVE  IInv'
<1>1. Alone(c) /\ Typed /\ OwnPart(c) /\ PushedPart(c) /\ Progress(c) /\ Undone(c)
  BY StepIsAlone, Here DEF Step
<1>2. /\ pc[c] = "rollback" /\ pc' = [pc EXCEPT ![c] = "removeNew"] /\ pc'[c] = "removeNew"
      /\ publishing' = publishing
      /\ UNCHANGED <<storeVars, wt, head, remote, unpushed, ctxDone, at, hasHEAD, existed,
                     rendered>>
  BY <1>1 DEF Unstage, Goto, Typed
<1>3. publishing
  BY <1>2 DEF IInv, SingleFlight
<1>4. /\ index' \in Trees /\ Unedited(index') /\ rbErr' \in [Callers -> BOOLEAN]
      /\ hasHEAD[c] /\ ~ rbErr'[c] => \A p \in toRemove(c) : index'[p] = HeadAt(p)
  <2>1. CASE /\ index' = [p \in Owned |-> IF p \notin toRemove(c) THEN index[p]
                                          ELSE IF hasHEAD[c] THEN HeadAt(p)
                                          ELSE Absent]
             /\ UNCHANGED rbErr
    <3>1. \A p \in Owned : index'[p] = IF p \notin toRemove(c) THEN index[p]
                                       ELSE IF hasHEAD[c] THEN HeadAt(p) ELSE Absent
      BY <2>1
    <3>2. ASSUME NEW p \in Owned
          PROVE  FileOf(p, index'[p]) /\ index'[p] # Manual
      <4>1. FileOf(p, index[p]) /\ index[p] # Manual
        BY <1>1, FilesOfTree DEF Typed, OwnPart, Unedited
      <4>2. FileOf(p, HeadAt(p)) /\ HeadAt(p) # Manual
        BY HeadFacts
      <4>3. FileOf(p, Absent) /\ Absent # Manual
        BY PublicationAssumption DEF FileOf, Contents
      <4>4. index'[p] = index[p] \/ index'[p] = HeadAt(p) \/ index'[p] = Absent
        BY <3>1
      <4>5. QED
        BY <4>1, <4>2, <4>3, <4>4
    <3>3. index' \in [Owned -> Contents]
      <4>1. \A p \in Owned : index'[p] \in Contents
        BY <3>2 DEF FileOf
      <4>2. index' = [p \in Owned |-> index'[p]]
        BY <2>1
      <4>3. QED
        BY <4>1, <4>2
    <3>4. index' \in Trees /\ Unedited(index')
      BY <3>2, <3>3, FilesOfTree DEF Unedited
    <3>5. QED
      BY <1>1, <2>1, <3>1, <3>4 DEF Typed, toRemove
  <2>2. CASE SetRbErr(c, hasHEAD[c] /\ toRemove(c) # {}) /\ UNCHANGED index
    <3>1. PICK b \in BOOLEAN : b <=> hasHEAD[c] /\ toRemove(c) # {}
      OBVIOUS
    <3>2. (hasHEAD[c] /\ toRemove(c) # {}) = b
      BY <3>1
    <3>3. SetRbErr(c, b)
      BY <2>2, <3>2
    <3>4. rbErr' \in [Callers -> BOOLEAN] /\ (~ rbErr'[c] => ~ b)
      BY <1>1, <3>3, SetRbErrFacts
    <3>5. QED
      BY <1>1, <2>2, <3>1, <3>4 DEF Typed, OwnPart
  <2>3. QED
    BY <2>1, <2>2 DEF Unstage
<1>5. Typed'
  BY <1>1, <1>2, <1>4 DEF Typed, Stages, storeVars
<1>6. OwnPart(c)' /\ PushedPart(c)' /\ Progress(c)'
  BY <1>1, <1>2, <1>4 DEF OwnPart, PushedPart, Progress
<1>7. Undone(c)'
  BY <1>1, <1>2, <1>4 DEF Undone, toRemove, HeadAt
<1>8. QED
  BY <1>1, <1>2, <1>3, <1>5, <1>6, <1>7, CallStep

LEMMA RemoveNewKeeps ==
  ASSUME IInv, NEW c \in Callers, RemoveNew(c)
  PROVE  IInv'
<1>1. Alone(c) /\ Typed /\ OwnPart(c) /\ PushedPart(c) /\ Progress(c) /\ Undone(c)
  BY StepIsAlone, Here DEF Step
<1>2. /\ pc[c] = "removeNew" /\ pc' = [pc EXCEPT ![c] = "restore"] /\ pc'[c] = "restore"
      /\ publishing' = publishing
      /\ UNCHANGED <<storeVars, index, head, remote, unpushed, ctxDone, at, hasHEAD, existed,
                     rendered>>
  BY <1>1 DEF RemoveNew, Goto, Typed
<1>3. publishing
  BY <1>2 DEF IInv, SingleFlight
<1>4. PICK left \in SUBSET {p \in toRemove(c) : wt[p] # Absent} :
        /\ wt' = With(wt, toRemove(c) \ left, EmptyTree)
        /\ SetRbErr(c, left # {})
  BY DEF RemoveNew
<1>5. PICK b \in BOOLEAN : b <=> left # {}
  OBVIOUS
<1>6. (left # {}) = b
  BY <1>5
<1>7. SetRbErr(c, b)
  BY <1>4, <1>6
<1>8. rbErr' \in [Callers -> BOOLEAN] /\ (~ rbErr'[c] => ~ rbErr[c] /\ left = {})
  BY <1>1, <1>5, <1>7, SetRbErrFacts
<1>9. /\ wt' \in Trees /\ Unedited(wt')
      /\ \A p \in Owned : wt'[p] = IF p \in toRemove(c) \ left THEN EmptyTree[p] ELSE wt[p]
  BY <1>1, <1>2, <1>4, WithFacts, EmptyTreeFacts, SMTT(30) DEF Typed, OwnPart, Unedited
<1>10. left = {} => \A p \in toRemove(c) : wt'[p] = Absent
  BY <1>9 DEF toRemove, EmptyTree
<1>11. Typed'
  BY <1>1, <1>2, <1>8, <1>9 DEF Typed, Stages, storeVars
<1>12. OwnPart(c)' /\ PushedPart(c)' /\ Progress(c)'
  BY <1>1, <1>2, <1>9 DEF OwnPart, PushedPart, Progress
<1>13. Undone(c)'
  BY <1>1, <1>2, <1>8, <1>10 DEF Undone, toRemove, HeadAt
<1>14. QED
  BY <1>1, <1>2, <1>3, <1>11, <1>12, <1>13, CallStep

(* What git checkout gives back is in HEAD.                                *)
LEMMA RestoreFacts ==
  ASSUME IInv, NEW c \in Callers, Restore(c)
  PROVE  /\ wt' \in Trees /\ index' \in Trees /\ Unedited(index')
         /\ \A p \in Owned : wt'[p] = Manual => wt[p] = Manual
         /\ rbErr' \in [Callers -> BOOLEAN]
         /\ hasHEAD[c] /\ ~ rbErr'[c] =>
              /\ ~ rbErr[c]
              /\ \A p \in Owned : /\ wt'[p] = IF p \in existed[c] THEN HeadAt(p) ELSE wt[p]
                                  /\ index'[p] = IF p \in existed[c] THEN HeadAt(p) ELSE index[p]
<1>1. Typed /\ OwnPart(c) /\ Undone(c)
  BY Here
<1>2. CASE /\ hasHEAD[c]
           /\ wt' = With(wt, existed[c], head)
           /\ index' = With(index, existed[c], head)
           /\ UNCHANGED rbErr
  <2>1. head # NoHead /\ head \in Trees /\ Unedited(head)
    BY <1>1, <1>2 DEF Undone, Typed, OwnPart
  <2>2. /\ wt' \in Trees
        /\ \A p \in Owned : wt'[p] = IF p \in existed[c] THEN head[p] ELSE wt[p]
    BY <1>1, <1>2, <2>1, WithFacts DEF Typed
  <2>3. /\ index' \in Trees /\ Unedited(index')
        /\ \A p \in Owned : index'[p] = IF p \in existed[c] THEN head[p] ELSE index[p]
    BY <1>1, <1>2, <2>1, WithFacts DEF Typed, OwnPart, Unedited
  <2>4. QED
    BY <1>1, <1>2, <2>1, <2>2, <2>3 DEF Typed, Unedited, HeadAt
<1>3. CASE SetRbErr(c, hasHEAD[c] /\ existed[c] # {}) /\ UNCHANGED <<wt, index>>
  <2>1. PICK b \in BOOLEAN : b <=> hasHEAD[c] /\ existed[c] # {}
    OBVIOUS
  <2>2. (hasHEAD[c] /\ existed[c] # {}) = b
    BY <2>1
  <2>3. SetRbErr(c, b)
    BY <1>3, <2>2
  <2>4. rbErr' \in [Callers -> BOOLEAN] /\ (~ rbErr'[c] => ~ rbErr[c] /\ ~ b)
    BY <1>1, <2>3, SetRbErrFacts
  <2>5. QED
    BY <1>1, <1>3, <2>1, <2>4 DEF Typed, OwnPart
<1>4. QED
  BY <1>2, <1>3 DEF Restore

LEMMA RestoreKeeps ==
  ASSUME IInv, NEW c \in Callers, Restore(c)
  PROVE  IInv'
<1>1. Alone(c) /\ Typed /\ OwnPart(c) /\ PushedPart(c) /\ Progress(c) /\ Undone(c)
  BY StepIsAlone, Here DEF Step
<1>2. /\ pc[c] = "restore" /\ pc' = [pc EXCEPT ![c] = "failed"] /\ pc'[c] = "failed"
      /\ publishing' = publishing
      /\ UNCHANGED <<storeVars, head, remote, unpushed, ctxDone, at, hasHEAD, existed, rendered>>
  BY <1>1 DEF Restore, Goto, Typed
<1>3. publishing
  BY <1>2 DEF IInv, SingleFlight
<1>4. wt' \in Trees /\ index' \in Trees /\ Unedited(index') /\ rbErr' \in [Callers -> BOOLEAN]
  BY RestoreFacts
<1>5. Typed'
  BY <1>1, <1>2, <1>4 DEF Typed, Stages, storeVars
<1>6. OwnPart(c)' /\ PushedPart(c)' /\ Progress(c)' /\ Undone(c)'
  BY <1>1, <1>2, <1>4 DEF OwnPart, PushedPart, Progress, Undone
<1>7. QED
  BY <1>1, <1>2, <1>3, <1>5, <1>6, CallStep

LEMMA CancelKeeps ==
  ASSUME IInv, NEW c \in Callers, Cancel(c)
  PROVE  IInv'
<1>1. Alone(c) /\ Typed /\ OwnPart(c) /\ PushedPart(c) /\ Progress(c) /\ Undone(c)
  BY StepIsAlone, Here DEF Step
<1>2. /\ pc[c] \notin {"idle", "done", "unverified", "failed"}
      /\ ctxDone' \in SUBSET Callers
      /\ UNCHANGED <<storeVars, repoVars, publishing, pc, callVars>>
  BY <1>1 DEF Cancel, Typed
<1>3. publishing
  BY <1>2 DEF IInv, SingleFlight
<1>4. Typed'
  BY <1>1, <1>2 DEF Typed, storeVars, repoVars, callVars
<1>5. OwnPart(c)' /\ PushedPart(c)' /\ Progress(c)' /\ Undone(c)'
  BY <1>1, <1>2 DEF OwnPart, PushedPart, Progress, Undone, HeadAt, toRemove, repoVars, callVars
<1>6. QED
  BY <1>1, <1>2, <1>3, <1>4, <1>5, CallStep DEF repoVars

-----------------------------------------------------------------------------
(* The store, the end of the process and the operator.                     *)

LEMMA ChangeStoreKeeps ==
  ASSUME IInv, ChangeStore
  PROVE  IInv'
<1>1. UNCHANGED <<repoVars, publishing, pc, ctxDone, callVars>>
  BY DEF ChangeStore
<1>2. listing' \in [Subs -> Values] /\ cycle' \in 0 .. MaxCycle
  BY DEF ChangeStore, IInv, Typed
<1>3. Typed'
  BY <1>1, <1>2 DEF IInv, Typed, repoVars, callVars
<1>4. SingleFlight' /\ Own' /\ Pushed'
  BY <1>1 DEF IInv, SingleFlight, Own, Working, Pushed, repoVars, callVars
<1>5. \A c \in Callers : Progress(c)' /\ Undone(c)'
  BY <1>1 DEF IInv, Progress, Undone, HeadAt, toRemove, repoVars, callVars
<1>6. QED
  BY <1>3, <1>4, <1>5 DEF IInv

LEMMA KillKeeps ==
  ASSUME IInv, Kill
  PROVE  IInv'
<1>1. UNCHANGED <<storeVars, repoVars>>
  BY DEF Kill
<1>2. \A c \in Callers : /\ pc'[c] = "idle" /\ at'[c] = 1 /\ ~ hasHEAD'[c]
                         /\ rendered'[c] = EmptyTree
  BY DEF Kill
<1>3. Typed'
  <2>1. at' \in [Callers -> 1 .. Len(targetFiles) + 1]
    BY OrderFacts DEF Kill
  <2>2. /\ pc' \in [Callers -> Stages] /\ ctxDone' \in SUBSET Callers
        /\ hasHEAD' \in [Callers -> BOOLEAN] /\ existed' \in [Callers -> SUBSET Owned]
        /\ rbErr' \in [Callers -> BOOLEAN] /\ publishing' \in BOOLEAN
    BY DEF Kill, Stages
  <2>3. rendered' \in [Callers -> Trees]
    BY EmptyTreeFacts DEF Kill
  <2>4. QED
    BY <1>1, <2>1, <2>2, <2>3 DEF IInv, Typed, storeVars, repoVars
<1>4. SingleFlight' /\ Pushed'
  BY <1>1, <1>2 DEF IInv, SingleFlight, Pushed, repoVars
<1>5. Own'
  BY <1>1, <1>2, EmptyTreeFacts DEF IInv, Own, Working, repoVars
<1>6. \A c \in Callers : Progress(c)' /\ Undone(c)'
  BY <1>2 DEF Progress, Undone
<1>7. QED
  BY <1>3, <1>4, <1>5, <1>6 DEF IInv

(* The operator does something only while no publication is at work.       *)
OperatorActs ==
  /\ Quiescent
  /\ wt' \in Trees /\ index' \in Trees /\ Unedited(index')
  /\ UNCHANGED <<storeVars, head, remote, unpushed, publishing, pc, ctxDone, callVars>>

LEMMA OperatorIsNoBother ==
  ASSUME IInv, (\E p \in Owned : ManualEdit(p)) \/ Repair
  PROVE  OperatorActs
<1>1. CASE \E p \in Owned : ManualEdit(p)
  <2>1. PICK p \in Owned : ManualEdit(p)
    BY <1>1
  <2>2. FileOf(p, Manual) /\ wt \in Trees
    BY PublicationAssumption DEF FileOf, Contents, IInv, Typed
  <2>3. wt' \in Trees
    BY <2>1, <2>2, ExceptFacts DEF ManualEdit
  <2>4. QED
    BY <2>1, <2>3 DEF ManualEdit, OperatorActs, IInv, Typed, Own
<1>2. CASE Repair
  BY <1>2, EmptyTreeFacts DEF Repair, OperatorActs, IInv, Typed, Own
<1>3. QED
  BY <1>1, <1>2

LEMMA OperatorKeeps ==
  ASSUME IInv, OperatorActs
  PROVE  IInv'
<1>1. \A c \in Callers : pc'[c] \in {"idle", "check"}
  BY DEF OperatorActs, Quiescent
<1>2. UNCHANGED <<storeVars, head, remote, unpushed, publishing, pc, ctxDone, callVars>>
  BY DEF OperatorActs
<1>3. Typed'
  BY <1>2 DEF OperatorActs, IInv, Typed, storeVars, callVars
<1>4. SingleFlight' /\ Pushed'
  BY <1>2 DEF IInv, SingleFlight, Pushed
<1>5. Own'
  BY <1>1, <1>2 DEF OperatorActs, IInv, Own, Working, callVars
<1>6. \A c \in Callers : Progress(c)' /\ Undone(c)'
  BY <1>1, <1>2 DEF IInv, Progress, Undone, callVars
<1>7. QED
  BY <1>3, <1>4, <1>5, <1>6 DEF IInv

LEMMA PublicationStep == IInv /\ [Next]_vars => IInv'
<1> SUFFICES ASSUME IInv, [Next]_vars
             PROVE  IInv'
  OBVIOUS
<1>1. CASE UNCHANGED vars
  <2>1. UNCHANGED <<storeVars, repoVars, publishing, pc, ctxDone, callVars>>
    BY <1>1 DEF vars
  <2>2. Typed' /\ SingleFlight' /\ Own' /\ Pushed'
    BY <2>1 DEF IInv, Typed, SingleFlight, Own, Working, Pushed, storeVars, repoVars, callVars
  <2>3. \A c \in Callers : Progress(c)' /\ Undone(c)'
    BY <2>1 DEF IInv, Progress, Undone, HeadAt, toRemove, repoVars, callVars
  <2>4. QED
    BY <2>2, <2>3 DEF IInv
<1>2. CASE \E c \in Callers : Step(c)
  BY <1>2, EnterKeeps, CheckKeeps, BeginKeeps, RenderKeeps, RenderMetaKeeps, RemoveLegacyKeeps,
    WriteKeeps, AddKeeps, DiffKeeps, CommitKeeps, AheadKeeps, PushKeeps, UnstageKeeps,
    RemoveNewKeeps, RestoreKeeps, LeaveKeeps, CancelKeeps
  DEF Step
<1>3. CASE ChangeStore
  BY <1>3, ChangeStoreKeeps
<1>4. CASE Kill
  BY <1>4, KillKeeps
<1>5. CASE (\E p \in Owned : ManualEdit(p)) \/ Repair
  BY <1>5, OperatorIsNoBother, OperatorKeeps
<1>6. QED
  BY <1>1, <1>2, <1>3, <1>4, <1>5 DEF Next

LEMMA PublicationInvariant == Spec => []IInv
BY PublicationInitially, PublicationStep, PTL DEF Spec

-----------------------------------------------------------------------------
(* The theorems.                                                           *)

(* The working tree, index, HEAD and remote hold only what they may, and a *)
(* call's variables have their types (publisher.go:574).                   *)
THEOREM PublicationTypeCorrect == Spec => []TypeOK
<1>1. IInv => TypeOK
  <2> SUFFICES ASSUME Typed
               PROVE  TypeOK
    BY DEF IInv
  <2>1. \A t \in Trees : IsTree(t)
    BY DEF Trees
  <2>2. head = NoHead \/ IsTree(head)
    BY <2>1 DEF Typed
  <2>3. remote = NoHead \/ IsTree(remote)
    BY <2>1 DEF Typed
  <2>4. \A c \in Callers : IsTree(rendered[c])
    BY <2>1 DEF Typed
  <2>5. QED
    BY <2>1, <2>2, <2>3, <2>4 DEF Typed, TypeOK
<1>2. QED
  BY <1>1, PublicationInvariant, PTL

(* A success that does not rest on an unreadable HEAD is never reported    *)
(* over commits that wait to be pushed, those of earlier publications      *)
(* included (publisher.go:832).                                            *)
THEOREM SuccessMeansPushed == Spec => []SuccessIsPushed
<1>1. IInv => SuccessIsPushed
  BY DEF IInv, Pushed, SuccessIsPushed
<1>2. QED
  BY <1>1, PublicationInvariant, PTL

(* No step but the operator's own takes an edit away (publisher.go:517).   *)
LEMMA EditsStay ==
  ASSUME IInv, Next, ~ Repair, NEW p \in Owned, wt[p] = Manual
  PROVE  wt'[p] = Manual
<1>1. \A c \in Callers : pc[c] \in {"idle", "check", "done", "unverified", "failed"}
  BY DEF IInv, Own, Working, Unedited
<1>2. CASE \E c \in Callers : Step(c)
  <2>1. PICK c \in Callers : Step(c)
    BY <1>2
  <2>2. pc[c] \in {"idle", "check", "done", "unverified", "failed"}
    BY <1>1
  <2>3. wt' = wt
    BY <2>1, <2>2 DEF Step, Enter, Check, Begin, Render, RenderMeta, RemoveLegacy, Write, Add, Diff,
      Commit, Ahead, Push, Unstage, RemoveNew, Restore, Leave, Cancel, repoVars
  <2>4. QED
    BY <2>3
<1>3. CASE ChangeStore \/ Kill
  BY <1>3 DEF ChangeStore, Kill, repoVars
<1>4. CASE \E q \in Owned : ManualEdit(q)
  BY <1>4 DEF ManualEdit, IInv, Typed, Trees
<1>5. QED
  BY <1>2, <1>3, <1>4 DEF Next

THEOREM EditsAreKept == Spec => ManualEditsKept
<1>1. IInv /\ [Next]_vars =>
        [~ Repair => \A p \in Owned : wt[p] = Manual => wt'[p] = Manual]_vars
  BY EditsStay
<1>2. QED
  BY <1>1, PublicationInvariant, PTL DEF Spec, ManualEditsKept

LEMMA RollbackEnds ==
  ASSUME IInv, Next, NEW c \in Callers,
         pc[c] = "restore", pc'[c] = "failed", hasHEAD[c], ~ rbErr'[c]
  PROVE  Restored(c)'
<1>1. Restore(c)
  <2>1. ASSUME NEW d \in Callers, Step(d)
        PROVE  d = c
    BY <2>1, StepIsAlone DEF Alone
  <2>2. CASE Step(c)
    BY <2>2 DEF Step, Enter, Check, Begin, Render, RenderMeta, RemoveLegacy, Write, Add, Diff,
      Commit, Ahead, Push, Unstage, RemoveNew, Leave, Cancel
  <2>3. CASE ~ Step(c)
    BY <2>1, <2>3 DEF Next, ChangeStore, Kill, ManualEdit, Repair
  <2>4. QED
    BY <2>2, <2>3
<1>2. UNCHANGED <<head, hasHEAD, existed>>
  BY <1>1 DEF Restore
<1>3. /\ ~ rbErr[c]
      /\ \A p \in Owned : /\ wt'[p] = IF p \in existed[c] THEN HeadAt(p) ELSE wt[p]
                          /\ index'[p] = IF p \in existed[c] THEN HeadAt(p) ELSE index[p]
  BY <1>1, RestoreFacts
<1>4. \A p \in Owned \ existed[c] : index[p] = HeadAt(p) /\ wt[p] = Absent
  BY <1>3 DEF IInv, Undone, toRemove
<1>5. \A p \in Owned : HeadAt(p)' = HeadAt(p)
  BY <1>2 DEF HeadAt
<1>6. QED
  BY <1>2, <1>3, <1>4, <1>5 DEF Restored

(* A rollback that says it worked did, whichever step the publication had  *)
(* come to, the commit included (publisher.go:318).                        *)
THEOREM RollbackIsComplete == Spec => RollbackRestores
<1>1. IInv /\ [Next]_vars =>
        [\A c \in Callers :
           pc[c] = "restore" /\ pc'[c] = "failed" /\ hasHEAD[c] /\ ~ rbErr'[c]
             => Restored(c)']_vars
  BY RollbackEnds
<1>2. QED
  BY <1>1, PublicationInvariant, PTL DEF Spec, RollbackRestores

-----------------------------------------------------------------------------
(* The refinement.                                                         *)

(* HEAD changes by a commit only, which takes what the call rendered.      *)
LEMMA CommitPublishes ==
  ASSUME IInv, NEW c \in Callers, Commit(c), head' # head
  PROVE  Atomic!Publish
<1>1. Typed /\ Progress(c)
  BY Here
<1>2. pc[c] = "commit" /\ head' = index /\ remote' = remote
  BY DEF Commit, Fails, repoVars
<1>3. Whole(rendered[c]) /\ \A p \in Targets : index[p] = rendered[c][p]
  BY <1>1, <1>2 DEF Progress
<1>4. index \in Trees /\ index # NoHead
  BY <1>1, TreeFacts DEF Typed
<1>5. Counts(index) = Counts(rendered[c]) /\ index["meta"] = rendered[c]["meta"]
  <2>1. \A s \in Subs : index[s] = rendered[c][s]
    BY <1>3 DEF Targets
  <2>2. QED
    BY <1>3, <2>1, FileFacts DEF Counts
<1>6. index["meta"] \in Metas /\ index["meta"].counts = Counts(index)
  BY <1>3, <1>5 DEF Whole
<1>7. PICK n \in 0 .. MaxCycle : index["meta"] = [counts |-> Counts(index), cycle |-> n]
  BY <1>6 DEF Metas
<1>8. Counts(index) \in [Subs -> Values]
  BY <1>3, <1>5 DEF Whole, Counts
<1>9. index["meta"] # Absent /\ "meta" \in Targets
  BY <1>6, PublicationAssumption DEF Targets
<1>10. PublicationIn(head)' = [lists |-> Counts(index), meta |-> index["meta"]]
  BY <1>2, <1>4, <1>9 DEF PublicationIn, Counts
<1>11. PublicationIn(remote)' = PublicationIn(remote)
  BY <1>2 DEF PublicationIn, Counts
<1>12. QED
  BY <1>7, <1>8, <1>10, <1>11 DEF Atomic!Publish

LEMMA AtomicStep ==
  ASSUME IInv, [Next]_vars
  PROVE  [Atomic!Publish \/ Atomic!Mirror]_(Atomic!vars)
<1>1. CASE UNCHANGED <<head, remote>>
  BY <1>1 DEF Atomic!vars, PublicationIn, Counts
<1>2. CASE \E c \in Callers : Commit(c)
  <2>1. CASE head' = head
    BY <1>1, <1>2, <2>1 DEF Commit, Fails, repoVars
  <2>2. CASE head' # head
    BY <1>2, <2>2, CommitPublishes
  <2>3. QED
    BY <2>1, <2>2
<1>3. CASE \E c \in Callers : Push(c)
  <2>1. UNCHANGED <<head, remote>> \/ (head' = head /\ remote' = head)
    BY <1>3 DEF Push, Fails, repoVars
  <2>2. CASE head' = head /\ remote' = head
    <3>1. PublicationIn(head)' = PublicationIn(head)
      BY <2>2 DEF PublicationIn, Counts
    <3>2. PublicationIn(remote)' = PublicationIn(head)
      BY <2>2 DEF PublicationIn, Counts
    <3>3. QED
      BY <3>1, <3>2 DEF Atomic!Mirror
  <2>3. QED
    BY <1>1, <2>1, <2>2
<1>4. CASE UNCHANGED vars
  BY <1>1, <1>4 DEF vars, repoVars
<1>5. CASE ~ (\E c \in Callers : Commit(c) \/ Push(c)) /\ Next
  <2>1. UNCHANGED <<head, remote>>
    BY <1>5 DEF Next, ChangeStore, Kill, ManualEdit, Repair, Step, Enter, Check, Begin, Render,
      RenderMeta, RemoveLegacy, Write, Add, Diff, Ahead, Unstage, RemoveNew, Restore, Leave,
      Cancel, Fails, repoVars
  <2>2. QED
    BY <1>1, <2>1
<1>6. QED
  BY <1>2, <1>3, <1>4, <1>5

LEMMA AtomicInitially == Init => Atomic!Init
<1> SUFFICES ASSUME Init
             PROVE  PublicationIn(head) = Absent /\ PublicationIn(remote) = Absent
  BY DEF Atomic!Init
<1>1. remote = head
  BY DEF Init
<1>2. head = NoHead \/ \A t \in Targets : head[t] = Absent
  BY FileFacts, PublicationAssumption DEF Init
<1>3. QED
  BY <1>1, <1>2 DEF PublicationIn

(* HEAD moves from one whole publication to another and the remote after   *)
(* it, though git works on the files one by one, and any command may fail  *)
(* or be killed half way (publisher.go:638).                               *)
THEOREM PublicationIsAtomic == Spec => ImplementsAtomicPublication
<1>1. IInv /\ [Next]_vars => [Atomic!Publish \/ Atomic!Mirror]_(Atomic!vars)
  BY AtomicStep
<1>2. QED
  BY <1>1, AtomicInitially, PublicationInvariant, PTL
  DEF Spec, ImplementsAtomicPublication, Atomic!Spec
=============================================================================
