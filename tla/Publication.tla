----------------------------- MODULE Publication -----------------------------
(***************************************************************************)
(* Publishing the subscriptions through a git repository: the single       *)
(* flight of internal/publisher/service.go and the transaction of          *)
(* publisher.go over working tree, index, HEAD and remote, with its        *)
(* rollback.  The scheduler publishes after a cycle, and the TUI at any    *)
(* time.  A git command is one step; it may fail, be refused because the   *)
(* caller's context is over, or be killed half way for the same reason,    *)
(* its effect done or not.  The process may be killed between any two      *)
(* steps, and the operator may edit the files while nothing is published.  *)
(*                                                                         *)
(* A subscription's content is one of Values, and its counts in meta.json  *)
(* are those of the content they were computed from.  A file is replaced   *)
(* by a rename, so that writing one is one step.                           *)
(***************************************************************************)
EXTENDS Integers, Sequences

CONSTANTS
  SubOrder,   (* the subscription files, in the order they are rendered *)
  Legacy,     (* the deprecated files of the root directory *)
  Values,     (* what a subscription may hold *)
  Old,        (* what a legacy file holds *)
  Manual,     (* what the operator writes *)
  Absent,     (* no file *)
  NoHead,     (* a repository without a commit *)
  MaxCycle    (* bound on the store's cycle number *)

Subs == {SubOrder[i] : i \in DOMAIN SubOrder}

targetFiles == Append(SubOrder, "meta")

Targets == Subs \cup {"meta"}

Owned == Targets \cup Legacy

Callers == {"scheduler", "manual"}

(* What meta.json may say: the counts of what it was computed from.        *)
Metas == [counts : [Subs -> Values], cycle : 0 .. MaxCycle]

Contents == Values \cup {Old, Manual, Absent} \cup Metas

ASSUME PublicationAssumption ==
  /\ SubOrder \in Seq(Subs) /\ "meta" \notin Subs
  /\ Legacy \cap Targets = {}
  /\ Absent \notin Values \cup Metas \cup {Old, Manual}
  /\ Manual \notin Values \cup Metas \cup {Old}
  /\ NoHead \notin [Owned -> Contents]
  /\ MaxCycle \in Nat

VARIABLES
  listing,    (* the store: its projections and the number of its cycle *)
  cycle,
  wt,         (* the publisher's files in the working tree, *)
  index,      (* in the index, *)
  head,       (* in HEAD, *)
  remote,     (* and in the remote branch *)
  unpushed,   (* does HEAD have commits origin/<branch> has not? *)
  publishing, (* Service.publishing *)
  pc,         (* where each call of Publish is *)
  ctxDone,    (* the calls whose context is over *)
  at,         (* how many files a call has rendered or written *)
  hasHEAD,    (* what a call found of HEAD, *)
  existed,    (* which files it found in the working tree, *)
  rendered,   (* what it means to publish, *)
  rbErr       (* and whether its rollback met an error *)

storeVars == <<listing, cycle>>
repoVars  == <<wt, index, head, remote, unpushed>>
callVars  == <<at, hasHEAD, existed, rendered, rbErr>>
vars == <<storeVars, repoVars, publishing, pc, ctxDone, callVars>>

EmptyTree == [p \in Owned |-> Absent]

Init ==
  /\ listing \in [Subs -> Values]
  /\ cycle = 0
  /\ head \in {NoHead} \cup {[p \in Owned |-> IF p \in L THEN Old ELSE Absent] :
                               L \in SUBSET Legacy}
  /\ index = IF head = NoHead THEN EmptyTree ELSE head
  /\ wt = index
  /\ remote = head
  /\ unpushed = FALSE
  /\ publishing = FALSE
  /\ pc = [c \in Callers |-> "idle"]
  /\ ctxDone = {}
  /\ at = [c \in Callers |-> 1]
  /\ hasHEAD = [c \in Callers |-> FALSE]
  /\ existed = [c \in Callers |-> {}]
  /\ rendered = [c \in Callers |-> EmptyTree]
  /\ rbErr = [c \in Callers |-> FALSE]

HeadAt(p) == IF head = NoHead THEN Absent ELSE head[p]

(* Tree t with the files of P as in tree u. *)
With(t, P, u) == [p \in Owned |-> IF p \in P THEN u[p] ELSE t[p]]

Goto(c, step) == pc' = [pc EXCEPT ![c] = step]

-----------------------------------------------------------------------------
(* The store.  The scheduler's loop is busy while it publishes; a manual   *)
(* publication may meet a running cycle.                                   *)
ChangeStore ==
  /\ pc["scheduler"] = "idle"
  /\ listing' \in [Subs -> Values]
  /\ cycle' \in {cycle} \cup {n \in 0 .. MaxCycle : n = cycle + 1}
  /\ UNCHANGED <<repoVars, publishing, pc, ctxDone, callVars>>

-----------------------------------------------------------------------------
(* Service.Publish. *)

(* Bug: a second publication is let in. *)
MayEnterAlways == TRUE

MayEnter == ~ publishing

Enter(c) ==
  /\ pc[c] = "idle"
  /\ MayEnter
  /\ publishing' = TRUE
  /\ Goto(c, "check")
  /\ UNCHANGED <<storeVars, repoVars, ctxDone, callVars>>

(* The deferred reset, after PublishingFinished or PublishingFailed. *)
Leave(c) ==
  /\ pc[c] \in {"done", "unverified", "failed"}
  /\ publishing' = FALSE
  /\ Goto(c, "idle")
  /\ ctxDone' = ctxDone \ {c}
  /\ at' = [at EXCEPT ![c] = 1]
  /\ hasHEAD' = [hasHEAD EXCEPT ![c] = FALSE]
  /\ existed' = [existed EXCEPT ![c] = {}]
  /\ rendered' = [rendered EXCEPT ![c] = EmptyTree]
  /\ rbErr' = [rbErr EXCEPT ![c] = FALSE]
  /\ UNCHANGED <<storeVars, repoVars>>

-----------------------------------------------------------------------------
(* Publisher.Publish. *)

Modified(p) == wt[p] # index[p] \/ index[p] # HeadAt(p)

(* Bug: only what is staged counts. *)
SafeIfUnstaged ==
  \A p \in Targets \cup {l \in Legacy : wt[l] # Absent} : index[p] = HeadAt(p)

(* git status finds nothing; a legacy file is looked at if it exists. *)
WorkingTreeSafe ==
  \A p \in Targets \cup {l \in Legacy : wt[l] # Absent} : ~ Modified(p)

(* ValidatePrerequisites, then checkWorkingTreeSafety. *)
Check(c) ==
  /\ pc[c] = "check"
  /\ \/ Goto(c, "failed")
     \/ c \notin ctxDone /\ WorkingTreeSafe /\ Goto(c, "begin")
  /\ UNCHANGED <<storeVars, repoVars, publishing, ctxDone, callVars>>

(* hasHEAD takes every error for a repository without a commit. *)
Begin(c) ==
  /\ pc[c] = "begin"
  /\ Goto(c, "render")
  /\ hasHEAD' \in {[hasHEAD EXCEPT ![c] = b] :
                     b \in {FALSE, head # NoHead /\ c \notin ctxDone}}
  /\ existed' = [existed EXCEPT ![c] = {p \in Owned : wt[p] # Absent}]
  /\ UNCHANGED <<storeVars, repoVars, publishing, ctxDone, at, rendered, rbErr>>

(* RenderSubscriptionFiles reads the projections one after the other. *)
Render(c) ==
  /\ pc[c] = "render"
  /\ at[c] \in DOMAIN SubOrder
  /\ LET s == SubOrder[at[c]]
     IN  rendered' = [rendered EXCEPT ![c][s] = listing[s]]
  /\ at' = [at EXCEPT ![c] = @ + 1]
  /\ UNCHANGED <<storeVars, repoVars, publishing, pc, ctxDone, hasHEAD, existed, rbErr>>

Counts(tree) == [s \in Subs |-> tree[s]]

(* The existing meta.json stays when nothing else would change. *)
KeepsMeta(tree) ==
  /\ \A s \in Subs : wt[s] = tree[s]
  /\ \A l \in Legacy : wt[l] = Absent
  /\ wt["meta"] # Absent
  /\ wt["meta"].counts = Counts(tree)

(* Bug: meta.json is rendered before all the projections are. *)
RenderMetaEarly(c) ==
  /\ pc[c] = "render"
  /\ Goto(c, "remove")
  /\ at' = [at EXCEPT ![c] = 1]
  /\ rendered' = [rendered EXCEPT ![c]["meta"] =
       [counts |-> Counts(rendered[c]), cycle |-> cycle]]
  /\ UNCHANGED <<storeVars, repoVars, publishing, ctxDone, hasHEAD, existed, rbErr>>

RenderMeta(c) ==
  /\ pc[c] = "render"
  /\ at[c] \notin DOMAIN SubOrder
  /\ Goto(c, "remove") \/ Goto(c, "rollback")
  /\ at' = [at EXCEPT ![c] = 1]
  /\ rendered' = [rendered EXCEPT ![c]["meta"] =
       IF KeepsMeta(rendered[c]) THEN wt["meta"]
       ELSE [counts |-> Counts(rendered[c]), cycle |-> cycle]]
  /\ UNCHANGED <<storeVars, repoVars, publishing, ctxDone, hasHEAD, existed, rbErr>>

(* Legacy files are removed up to the first error. *)
RemoveLegacy(c) ==
  /\ pc[c] = "remove"
  /\ \E gone \in SUBSET {l \in Legacy : wt[l] # Absent} :
       /\ wt' = With(wt, gone, EmptyTree)
       /\ \/ Goto(c, "rollback")
          \/ (\A l \in Legacy : wt'[l] = Absent) /\ Goto(c, "write")
  /\ UNCHANGED <<storeVars, index, head, remote, unpushed, publishing, ctxDone, callVars>>

(* A file is replaced as a whole, by a rename.                             *)
AtomicWriteFile(c, file) == wt' = With(wt, {file}, rendered[c])

Write(c) ==
  /\ pc[c] = "write"
  /\ \/ /\ Goto(c, "rollback")
        /\ UNCHANGED <<wt, at>>
     \/ /\ AtomicWriteFile(c, targetFiles[at[c]])
        /\ at' = [at EXCEPT ![c] = @ + 1]
        /\ Goto(c, IF at[c] = Len(targetFiles) THEN "add" ELSE "write")
  /\ UNCHANGED <<storeVars, index, head, remote, unpushed, publishing, ctxDone,
                 hasHEAD, existed, rendered, rbErr>>

stageFiles(c) == Targets \cup (existed[c] \cap Legacy)

(* A git command of call c succeeds and goes on to a step, is killed after *)
(* its effect, or fails without one.                                       *)
Succeeds(c, step) ==
  /\ c \notin ctxDone
  /\ Goto(c, step)
  /\ UNCHANGED ctxDone

Killed(c, step) ==
  /\ c \notin ctxDone
  /\ Goto(c, step)
  /\ ctxDone' = ctxDone \cup {c}

Fails(c, step) ==
  /\ Goto(c, step)
  /\ UNCHANGED <<repoVars, ctxDone>>

Add(c) ==
  /\ pc[c] = "add"
  /\ \/ Fails(c, "rollback")
     \/ /\ Succeeds(c, "diff") \/ Killed(c, "rollback")
        /\ index' = With(index, stageFiles(c), wt)
        /\ UNCHANGED <<wt, head, remote, unpushed>>
  /\ UNCHANGED <<storeVars, publishing, callVars>>

Diff(c) ==
  /\ pc[c] = "diff"
  /\ \/ Fails(c, "rollback")
     \/ /\ Succeeds(c, IF \E p \in stageFiles(c) : index[p] # HeadAt(p)
                       THEN "commit" ELSE "ahead")
        /\ UNCHANGED repoVars
  /\ UNCHANGED <<storeVars, publishing, callVars>>

(* git commit takes the whole index. *)
Commit(c) ==
  /\ pc[c] = "commit"
  /\ \/ Fails(c, "rollback")
     \/ /\ Succeeds(c, "push") \/ Killed(c, "rollback")
        /\ head' = index
        /\ unpushed' = TRUE
        /\ UNCHANGED <<wt, index, remote>>
  /\ UNCHANGED <<storeVars, publishing, callVars>>

(* Bug: with nothing to commit there is nothing to push. *)
NextIfAheadNever == "done"

NextIfAhead == IF unpushed THEN "push" ELSE "done"

(* isAheadOfRemote.  A HEAD that cannot be read, for whatever reason, is   *)
(* nothing to push, and the publication has ended well "unverified"; an    *)
(* origin/<branch> that cannot be read is something to push.               *)
Ahead(c) ==
  /\ pc[c] = "ahead"
  /\ \/ Goto(c, "unverified") \/ Goto(c, "failed")
     \/ c \notin ctxDone /\ (Goto(c, NextIfAhead) \/ Goto(c, "push"))
  /\ UNCHANGED <<storeVars, repoVars, publishing, ctxDone, callVars>>

(* A push that is killed may have reached the remote; origin/<branch> does *)
(* not know of it.                                                         *)
Push(c) ==
  /\ pc[c] = "push"
  /\ \/ Fails(c, "failed")
     \/ /\ remote' = head
        /\ \/ Succeeds(c, "done") /\ unpushed' = FALSE
           \/ Killed(c, "failed") /\ UNCHANGED unpushed
        /\ UNCHANGED <<wt, index, head>>
  /\ UNCHANGED <<storeVars, publishing, callVars>>

-----------------------------------------------------------------------------
(* rollback. *)

toRemove(c) == Owned \ existed[c]

SetRbErr(c, b) == rbErr' = [rbErr EXCEPT ![c] = @ \/ b]

(* git reset HEAD, or without a HEAD git rm --cached, which does nothing   *)
(* if one of the files is not in the index, and whose error is ignored.    *)
Unstage(c) ==
  /\ pc[c] = "rollback"
  /\ Goto(c, "removeNew")
  /\ LET command == IF hasHEAD[c] THEN TRUE
                    ELSE \A p \in toRemove(c) : index[p] # Absent
     IN  \/ /\ c \notin ctxDone /\ command
            /\ index' = [p \in Owned |-> IF p \notin toRemove(c) THEN index[p]
                                         ELSE IF hasHEAD[c] THEN HeadAt(p)
                                         ELSE Absent]
            /\ UNCHANGED rbErr
         \/ /\ SetRbErr(c, hasHEAD[c] /\ toRemove(c) # {})
            /\ UNCHANGED index
  /\ UNCHANGED <<storeVars, wt, head, remote, unpushed, publishing, ctxDone,
                 at, hasHEAD, existed, rendered>>

RemoveNew(c) ==
  /\ pc[c] = "removeNew"
  /\ Goto(c, "restore")
  /\ \E left \in SUBSET {p \in toRemove(c) : wt[p] # Absent} :
       /\ wt' = With(wt, toRemove(c) \ left, EmptyTree)
       /\ SetRbErr(c, left # {})
  /\ UNCHANGED <<storeVars, index, head, remote, unpushed, publishing, ctxDone,
                 at, hasHEAD, existed, rendered>>

(* Bug: the index keeps what was staged. *)
RestoreTreeOnly(c) ==
  /\ pc[c] = "restore"
  /\ Goto(c, "failed")
  /\ \/ /\ hasHEAD[c] /\ c \notin ctxDone
        /\ \A p \in existed[c] : HeadAt(p) # Absent
        /\ wt' = With(wt, existed[c], head)
        /\ UNCHANGED <<index, rbErr>>
     \/ /\ SetRbErr(c, hasHEAD[c] /\ existed[c] # {})
        /\ UNCHANGED <<wt, index>>
  /\ UNCHANGED <<storeVars, head, remote, unpushed, publishing, ctxDone,
                 at, hasHEAD, existed, rendered>>

(* git checkout HEAD, which wants every file to be in HEAD. *)
Restore(c) ==
  /\ pc[c] = "restore"
  /\ Goto(c, "failed")
  /\ \/ /\ hasHEAD[c] /\ c \notin ctxDone
        /\ \A p \in existed[c] : HeadAt(p) # Absent
        /\ wt' = With(wt, existed[c], head)
        /\ index' = With(index, existed[c], head)
        /\ UNCHANGED rbErr
     \/ /\ SetRbErr(c, hasHEAD[c] /\ existed[c] # {})
        /\ UNCHANGED <<wt, index>>
  /\ UNCHANGED <<storeVars, head, remote, unpushed, publishing, ctxDone,
                 at, hasHEAD, existed, rendered>>

-----------------------------------------------------------------------------
(* The world around. *)

(* A timeout of the TUI's context, or the shutdown of the daemon. *)
Cancel(c) ==
  /\ pc[c] \notin {"idle", "done", "unverified", "failed"}
  /\ ctxDone' = ctxDone \cup {c}
  /\ UNCHANGED <<storeVars, repoVars, publishing, pc, callVars>>

(* The process ends at whatever point and is started again. *)
Kill ==
  /\ publishing' = FALSE
  /\ pc' = [c \in Callers |-> "idle"]
  /\ ctxDone' = {}
  /\ at' = [c \in Callers |-> 1]
  /\ hasHEAD' = [c \in Callers |-> FALSE]
  /\ existed' = [c \in Callers |-> {}]
  /\ rendered' = [c \in Callers |-> EmptyTree]
  /\ rbErr' = [c \in Callers |-> FALSE]
  /\ UNCHANGED <<storeVars, repoVars>>

Quiescent == \A c \in Callers : pc[c] \in {"idle", "check"}

ManualEdit(p) ==
  /\ Quiescent
  /\ wt' = [wt EXCEPT ![p] = Manual]
  /\ UNCHANGED <<storeVars, index, head, remote, unpushed, publishing, pc,
                 ctxDone, callVars>>

(* The operator puts the publisher's files back to HEAD. *)
Repair ==
  /\ Quiescent
  /\ index' = IF head = NoHead THEN EmptyTree ELSE head
  /\ wt' = index'
  /\ UNCHANGED <<storeVars, head, remote, unpushed, publishing, pc, ctxDone, callVars>>

Step(c) ==
  \/ Enter(c) \/ Check(c) \/ Begin(c)
  \/ Render(c) \/ RenderMeta(c)
  \/ RemoveLegacy(c) \/ Write(c)
  \/ Add(c) \/ Diff(c) \/ Commit(c) \/ Ahead(c) \/ Push(c)
  \/ Unstage(c) \/ RemoveNew(c) \/ Restore(c)
  \/ Leave(c)
  \/ Cancel(c)

Next ==
  \/ \E c \in Callers : Step(c)
  \/ ChangeStore
  \/ Kill
  \/ \E p \in Owned : ManualEdit(p)
  \/ Repair

Spec == Init /\ [][Next]_vars

-----------------------------------------------------------------------------
IsTree(t) ==
  /\ DOMAIN t = Owned
  /\ \A s \in Subs : t[s] \in Values \cup {Manual, Absent}
  /\ \A l \in Legacy : t[l] \in {Old, Manual, Absent}
  /\ t["meta"] \in {Manual, Absent} \/ t["meta"] \in Metas

TypeOK ==
  /\ listing \in [Subs -> Values]
  /\ cycle \in 0 .. MaxCycle
  /\ IsTree(wt) /\ IsTree(index)
  /\ head = NoHead \/ IsTree(head)
  /\ remote = NoHead \/ IsTree(remote)
  /\ \A c \in Callers : IsTree(rendered[c])
  /\ unpushed \in BOOLEAN /\ publishing \in BOOLEAN
  /\ ctxDone \subseteq Callers
  /\ at \in [Callers -> 1 .. Len(targetFiles) + 1]
  /\ hasHEAD \in [Callers -> BOOLEAN]
  /\ existed \in [Callers -> SUBSET Owned]
  /\ rbErr \in [Callers -> BOOLEAN]

PublicationIn(tree) ==
  IF tree = NoHead \/ \A t \in Targets : tree[t] = Absent THEN Absent
  ELSE [lists |-> Counts(tree), meta |-> tree["meta"]]

Atomic == INSTANCE AtomicPublication
  WITH Nothing <- Absent, published <- PublicationIn(head),
       mirrored <- PublicationIn(remote)

(* HEAD and the remote hold whole publications and change in single steps, *)
(* whatever failed, was cancelled or killed before, with two callers who   *)
(* may publish at any time (publisher.go 638-864, service.go 268-293).     *)
ImplementsAtomicPublication == Atomic!Spec

(* Nothing but the operator changes a file the operator has edited and not *)
(* committed: not a publication, not its rollback (publisher.go 517-539).  *)
ManualEditsKept ==
  [][~ Repair => \A p \in Owned : wt[p] = Manual => wt'[p] = Manual]_vars

Restored(c) ==
  \A p \in Owned : /\ index[p] = HeadAt(p)
                   /\ wt[p] = IF p \in existed[c] THEN HeadAt(p) ELSE Absent

(* A rollback that found a HEAD and reports no error leaves the index as   *)
(* in HEAD and the working tree as the publication found it, so that the   *)
(* next one is not refused (publisher.go 318-380).                         *)
RollbackRestores ==
  [][\A c \in Callers :
        pc[c] = "restore" /\ pc'[c] = "failed" /\ hasHEAD[c] /\ ~ rbErr'[c]
         => Restored(c)']_vars

(* Ticket 26: "Subsequent publication cycles are not blocked by            *)
(* checkWorkingTreeSafety following a transient publication failure": so   *)
(* for every rollback that reports no error and was not cancelled.         *)
RollbackHeals ==
  [][\A c \in Callers :
        pc[c] = "restore" /\ pc'[c] = "failed" /\ c \notin ctxDone /\ ~ rbErr'[c]
         => WorkingTreeSafe']_vars

(* A publication that ends well has been pushed, the commits earlier       *)
(* publications failed to push included; unless, with nothing to commit,   *)
(* it could not read HEAD (publisher.go 541-573, 830-864).                 *)
SuccessIsPushed == \A c \in Callers : pc[c] = "done" => ~ unpushed /\ remote = head

=============================================================================
