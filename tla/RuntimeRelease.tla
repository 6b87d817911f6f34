--------------------------- MODULE RuntimeRelease ---------------------------
(***************************************************************************)
(* Approved runtimes: an append-only store of releases, a channel that     *)
(* names the latest, one installed tool for the whole machine, and in each *)
(* consumer root a pin and two workflow files.                             *)
(*                                                                         *)
(*   publish   publish_approved_runtime   under the channel lock           *)
(*   install   install_approved_wheel     the wheel, with uv               *)
(*   workflow  install_workflow_artifacts the skill and the agent          *)
(*   update    update_consumer_runtime    all of these for one root        *)
(*   init      bootstrap_consumer_runtime for a root without a pin         *)
(*   pin       pin_runtime                an explicit selection            *)
(*                                                                         *)
(* Only publish takes a lock.  A command runs the build that was installed *)
(* when it started; update hands over to the build that it installed: the  *)
(* child takes the place of the command that waits for it.                 *)
(***************************************************************************)
EXTENDS Integers, FiniteSets, TLC

CONSTANTS
  Build,      \* builds, each with its wheel
  Receipt,    \* approvals of a build, with the time of approval
  BuildOf,    \* the build of a receipt
  BundleOf,   \* the workflow templates that a build ships
  VersionOf,  \* its semantic version
  Root,       \* consumer roots
  Command,    \* processes
  None,
  First,      \* a release that is published and installed at the start, or None
  MaxStarts,  \* bound: commands other than update, and reinstalls of a lost tool
  MaxFaults   \* bound: kills and I/O errors

ASSUME ReleaseAssumption ==
  /\ BuildOf \in [Receipt -> Build]
  /\ DOMAIN BundleOf = Build /\ DOMAIN VersionOf = Build
  /\ First \in Receipt \cup {None}
  /\ MaxStarts \in Nat /\ MaxFaults \in Nat

VARIABLES
  lock,      \* the command that made channels/private-alpha.lock
  channel,   \* channels/private-alpha.json
  wheels,    \* builds whose wheel is in releases/<build>
  receipts,  \* releases/<build>/receipt.json
  tool,      \* the build that uv has installed
  skill, agent,  \* the workflow files of each root
  pin,       \* runtime.toml of each root
  pc, job,   \* next step and local variables of each command
  starts, faults

store == <<wheels, receipts>>
files == <<skill, agent>>
budget == <<starts, faults>>
vars == <<lock, channel, store, tool, files, pin, pc, job, budget>>

-----------------------------------------------------------------------------
(* Values.                                                                 *)

Bundle == {BundleOf[b] : b \in Build}

\* The order of the previous releases is left out.
Channel == [latest : Receipt \cup {None}, previous : SUBSET Receipt]

Pin == [receipt : Receipt, skill : Bundle, agent : Bundle]

ASSUME NoneIsNothing == None \notin Build \cup Receipt \cup Bundle \cup Command \cup Pin

Op == {"publish", "install", "workflow", "update", "init", "pin"}

\* Steps under the channel lock.
Publishing == {"plan", "wheel", "receipt", "advance", "unlock"}

Steps == Publishing \cup
  {"idle", "lock", "select", "uninstall", "install", "match", "hand over", "render", "skill",
   "agent", "rollback", "verify", "pin", "settle", "unwind", "unpin"}

\* running: the build of the process; old: what the workflow files were, undo:
\* those of them to restore.
Job == [op : Op \cup {None}, root : Root \cup {None}, receipt : Receipt \cup {None},
        running : Build \cup {None}, delegated : BOOLEAN,
        plan : Channel \cup {None},
        old : [skill : Bundle \cup {None}, agent : Bundle \cup {None}],
        undo : SUBSET {"skill", "agent"},
        pin : Pin \cup {None}]

NoJob == [op |-> None, root |-> None, receipt |-> None, running |-> None, delegated |-> FALSE,
          plan |-> None, old |-> [skill |-> None, agent |-> None], undo |-> {}, pin |-> None]

-----------------------------------------------------------------------------
(* What commands find.                                                     *)

Listed == (channel.previous \cup {channel.latest}) \ {None}

\* The receipt and the wheel are in the store.
Released(r) == receipts[BuildOf[r]] = r /\ BuildOf[r] \in wheels

\* _latest_published_receipt, _require_published_wheel.
Available == channel.latest # None /\ Released(channel.latest)

\* _require_frozen_install, for a process that runs build b: what is installed
\* by now is intact and of the version that runs.
Frozen(b) == tool # None /\ VersionOf[tool] = VersionOf[b]

\* inspect_runtime, runtime_mode "approved": the pin is that of the receipt and
\* of the running build, and the workflow files are those of the pin.
Approved(root, b) ==
  LET p == pin[root] IN
  /\ Frozen(b)
  /\ p # None /\ BuildOf[p.receipt] = b /\ receipts[b] = p.receipt
  /\ skill[root] = p.skill /\ agent[root] = p.agent

\* update_check.
UpdateAvailable(root) ==
  /\ channel.latest # None /\ pin[root] # None
  /\ BuildOf[channel.latest] # BuildOf[pin[root].receipt]

\* The bytes that the command installs.
Rendered(c) == BundleOf[BuildOf[job[c].receipt]]

-----------------------------------------------------------------------------
(* Process steps.                                                          *)

Go(c, to, j) == pc' = [pc EXCEPT ![c] = to] /\ job' = [job EXCEPT ![c] = j]

Step(c, from, to) == pc[c] = from /\ Go(c, to, job[c])

Quit(c) == Go(c, "idle", NoJob)

Init ==
  /\ lock = None /\ channel = [latest |-> First, previous |-> {}]
  /\ wheels = {BuildOf[r] : r \in {First} \ {None}}
  /\ receipts = [b \in Build |-> IF First # None /\ BuildOf[First] = b THEN First ELSE None]
  /\ tool = IF First = None THEN None ELSE BuildOf[First]
  /\ skill = [x \in Root |-> None] /\ agent = [x \in Root |-> None] /\ pin = [x \in Root |-> None]
  /\ pc = [c \in Command |-> "idle"] /\ job = [c \in Command |-> NoJob]
  /\ starts = 0 /\ faults = 0

Start(c, to, j) ==
  /\ pc[c] = "idle" /\ Go(c, to, j)
  /\ UNCHANGED <<lock, channel, store, tool, files, pin, faults>>

Counted == starts < MaxStarts /\ starts' = starts + 1

StartPublish(c, r) ==
  /\ Counted
  /\ Start(c, "lock", [NoJob EXCEPT !.op = "publish", !.receipt = r])

\* uv was interrupted.
ToolLost == tool = None /\ Available /\ \A d \in Command : pc[d] # "install"

\* Any release may be installed; the latest is, when the tool is lost.
StartInstall(c, r) ==
  /\ Released(r)
  /\ IF ToolLost /\ r = channel.latest THEN UNCHANGED starts ELSE Counted
  /\ Start(c, "uninstall", [NoJob EXCEPT !.op = "install", !.receipt = r])

StartWorkflow(c, root, r) ==
  /\ Counted
  /\ Start(c, "render", [NoJob EXCEPT !.op = "workflow", !.root = root, !.receipt = r])

StartUpdate(c, root) ==
  /\ tool # None /\ pin[root] # None
  /\ Start(c, "select", [NoJob EXCEPT !.op = "update", !.root = root, !.running = tool])
  /\ UNCHANGED starts

StartInit(c, root) ==
  /\ Counted /\ tool # None /\ pin[root] = None
  /\ Start(c, "select", [NoJob EXCEPT !.op = "init", !.root = root, !.running = tool])

StartPin(c, root, r) ==
  /\ Counted /\ tool # None
  /\ Start(c, "verify", [NoJob EXCEPT !.op = "pin", !.root = root, !.receipt = r,
                                      !.running = tool])

-----------------------------------------------------------------------------
(* publish.                                                                *)

\* Mutant: the lock file is made without O_EXCL.
LockAnyway(c) ==
  /\ pc[c] = "lock"
  /\ lock' = c /\ Step(c, "lock", "plan")
  /\ UNCHANGED <<channel, store, tool, files, pin, budget>>

Lock(c) ==
  /\ pc[c] = "lock"
  /\ \/ lock = None /\ lock' = c /\ Step(c, "lock", "plan")
     \/ lock # None /\ Quit(c) /\ UNCHANGED lock
  /\ UNCHANGED <<channel, store, tool, files, pin, budget>>

\* The manifest with the release as the latest; the latest of today and its
\* predecessors are kept, one entry for a build.
Plan(c) ==
  LET r == job[c].receipt IN
  /\ pc[c] = "plan"
  /\ Go(c, "wheel", [job[c] EXCEPT !.plan =
       [latest |-> r, previous |-> {q \in Listed : BuildOf[q] # BuildOf[r]}]])
  /\ UNCHANGED <<lock, channel, store, tool, files, pin, budget>>

\* _copy_immutable.
CopyWheel(c) ==
  /\ Step(c, "wheel", "receipt")
  /\ wheels' = wheels \cup {BuildOf[job[c].receipt]}
  /\ UNCHANGED <<lock, channel, receipts, tool, files, pin, budget>>

\* Mutant: a receipt that is there already is good enough.
CopyReceiptOnce(c) ==
  LET r == job[c].receipt IN
  /\ Step(c, "receipt", "advance")
  /\ receipts' = [receipts EXCEPT ![BuildOf[r]] = IF @ = None THEN r ELSE @]
  /\ UNCHANGED <<lock, channel, wheels, tool, files, pin, budget>>

\* A receipt that is there already must be the same.
CopyReceipt(c) ==
  LET r == job[c].receipt IN
  /\ Step(c, "receipt", IF receipts[BuildOf[r]] \in {None, r} THEN "advance" ELSE "unlock")
  /\ receipts' = [receipts EXCEPT ![BuildOf[r]] = IF @ = None THEN r ELSE @]
  /\ UNCHANGED <<lock, channel, wheels, tool, files, pin, budget>>

Advance(c) ==
  /\ Step(c, "advance", "unlock")
  /\ channel' = job[c].plan
  /\ UNCHANGED <<lock, store, tool, files, pin, budget>>

Unlock(c) ==
  /\ pc[c] = "unlock" /\ Quit(c)
  /\ lock' = None
  /\ UNCHANGED <<channel, store, tool, files, pin, budget>>

-----------------------------------------------------------------------------
(* The tool.                                                               *)

\* uv tool install --reinstall.
Uninstall(c) ==
  /\ Step(c, "uninstall", "install")
  /\ tool' = None
  /\ UNCHANGED <<lock, channel, store, files, pin, budget>>

Install(c) ==
  /\ Step(c, "install", "match")
  /\ tool' = BuildOf[job[c].receipt]
  /\ UNCHANGED <<lock, channel, store, files, pin, budget>>

\* _require_installed_tool_matches, out of process.
Match(c) ==
  /\ pc[c] = "match"
  /\ IF tool = BuildOf[job[c].receipt] /\ job[c].op = "update"
       THEN Step(c, "match", "hand over") ELSE Quit(c)
  /\ UNCHANGED <<lock, channel, store, tool, files, pin, budget>>

\* _delegate_update: the child starts from what is installed now.
HandOver(c) ==
  /\ pc[c] = "hand over"
  /\ IF tool = None THEN Quit(c)
     ELSE Go(c, "select", [NoJob EXCEPT !.op = "update", !.root = job[c].root,
                                        !.running = tool, !.delegated = TRUE])
  /\ UNCHANGED <<lock, channel, store, tool, files, pin, budget>>

-----------------------------------------------------------------------------
(* The selection of a build for a root.                                    *)

\* Mutant: a pin of the latest build is enough to have nothing to do.
SelectByBuild(c) ==
  LET j == job[c]
      r == channel.latest
      next == [j EXCEPT !.receipt = r]
      done == BuildOf[pin[j.root].receipt] = BuildOf[r]
      due == Available /\ pin[j.root] # None /\ Frozen(j.running) /\ ~done
  IN
  /\ pc[c] = "select" /\ j.op = "update"
  /\ \/ ~due /\ Quit(c)
     \/ due /\ BuildOf[r] = j.running /\ Go(c, "render", next)
     \/ /\ due /\ BuildOf[r] # j.running
        /\ IF j.delegated THEN Quit(c) ELSE Go(c, "uninstall", next)
  /\ UNCHANGED <<lock, channel, store, tool, files, pin, budget>>

\* update: nothing to do, complete it, install the build first, or fail.
SelectForUpdate(c) ==
  LET j == job[c]
      r == channel.latest
      next == [j EXCEPT !.receipt = r]
      done == Approved(j.root, j.running) /\ pin[j.root].receipt = r
      due == Available /\ pin[j.root] # None /\ Frozen(j.running) /\ ~done
  IN
  /\ pc[c] = "select" /\ j.op = "update"
  /\ \/ ~due /\ Quit(c)
     \/ due /\ BuildOf[r] = j.running /\ Go(c, "render", next)
     \/ /\ due /\ BuildOf[r] # j.running
        /\ IF j.delegated THEN Quit(c) ELSE Go(c, "uninstall", next)
  /\ UNCHANGED <<lock, channel, store, tool, files, pin, budget>>

\* init: the running build must be the latest one.
SelectForInit(c) ==
  LET j == job[c]
      r == channel.latest
  IN
  /\ pc[c] = "select" /\ j.op = "init"
  /\ IF Available /\ pin[j.root] = None /\ Frozen(j.running) /\ BuildOf[r] = j.running
       THEN Go(c, "render", [j EXCEPT !.receipt = r]) ELSE Quit(c)
  /\ UNCHANGED <<lock, channel, store, tool, files, pin, budget>>

\* install_workflow_artifacts: the templates are those of the receipt, in the
\* installed tool or, given by hand, where the maintainer found them.
Render(c) ==
  LET j == job[c] IN
  /\ pc[c] = "render"
  /\ IF j.op = "workflow" \/ (tool # None /\ BundleOf[tool] = Rendered(c))
       THEN Go(c, "skill", [j EXCEPT !.old = [skill |-> skill[j.root], agent |-> agent[j.root]]])
       ELSE Quit(c)
  /\ UNCHANGED <<lock, channel, store, tool, files, pin, budget>>

\* _write_atomic_pair: the skill, then the agent.
WriteSkill(c) ==
  /\ Step(c, "skill", "agent")
  /\ skill' = [skill EXCEPT ![job[c].root] = Rendered(c)]
  /\ UNCHANGED <<lock, channel, store, tool, agent, pin, budget>>

\* workflow, asked for the skill only: _write_atomic.
WriteSkillAlone(c) ==
  /\ pc[c] = "skill" /\ job[c].op = "workflow"
  /\ skill' = [skill EXCEPT ![job[c].root] = Rendered(c)]
  /\ Quit(c)
  /\ UNCHANGED <<lock, channel, store, tool, agent, pin, budget>>

WriteAgent(c) ==
  /\ pc[c] = "agent"
  /\ agent' = [agent EXCEPT ![job[c].root] = Rendered(c)]
  /\ IF job[c].op = "workflow" THEN Quit(c) ELSE Step(c, "agent", "verify")
  /\ UNCHANGED <<lock, channel, store, tool, skill, pin, budget>>

\* The agent is restored before the skill.
RollBackAgent(c) ==
  LET j == job[c] IN
  /\ pc[c] = "rollback" /\ "agent" \in j.undo
  /\ agent' = [agent EXCEPT ![j.root] = j.old.agent]
  /\ Go(c, "rollback", [j EXCEPT !.undo = @ \ {"agent"}])
  /\ UNCHANGED <<lock, channel, store, tool, skill, pin, budget>>

RollBackSkill(c) ==
  LET j == job[c] IN
  /\ pc[c] = "rollback" /\ "agent" \notin j.undo
  /\ skill' = [skill EXCEPT ![j.root] = j.old.skill]
  /\ Quit(c)
  /\ UNCHANGED <<lock, channel, store, tool, agent, pin, budget>>

\* Mutant: the hashes are taken as they are.
VerifyNothing(c) ==
  LET j == job[c]
      r == j.receipt
  IN
  /\ pc[c] = "verify"
  /\ IF /\ BuildOf[r] = j.running /\ receipts[BuildOf[r]] = r
        /\ tool # None /\ (j.op = "init" => Frozen(j.running))
       THEN Go(c, "pin", [j EXCEPT !.pin = [receipt |-> r, skill |-> skill[j.root],
                                            agent |-> agent[j.root]]])
       ELSE Quit(c)
  /\ UNCHANGED <<lock, channel, store, tool, files, pin, budget>>

\* Mutant: the agent is not compared.
VerifySkill(c) ==
  LET j == job[c]
      r == j.receipt
  IN
  /\ pc[c] = "verify"
  /\ IF /\ BuildOf[r] = j.running /\ receipts[BuildOf[r]] = r
        /\ tool # None /\ (j.op = "init" => Frozen(j.running))
        /\ skill[j.root] = Rendered(c)
       THEN Go(c, "pin", [j EXCEPT !.pin = [receipt |-> r, skill |-> skill[j.root],
                                            agent |-> agent[j.root]]])
       ELSE Quit(c)
  /\ UNCHANGED <<lock, channel, store, tool, files, pin, budget>>

\* The files are what was installed, and pin_runtime takes their hashes; the
\* running build is that of a receipt in the store.
Verify(c) ==
  LET j == job[c]
      r == j.receipt
  IN
  /\ pc[c] = "verify"
  /\ IF /\ BuildOf[r] = j.running /\ receipts[BuildOf[r]] = r
        /\ tool # None /\ (j.op = "init" => Frozen(j.running))
        /\ skill[j.root] = Rendered(c) /\ agent[j.root] = Rendered(c)
       THEN Go(c, "pin", [j EXCEPT !.pin = [receipt |-> r, skill |-> skill[j.root],
                                            agent |-> agent[j.root]]])
       ELSE Quit(c)
  /\ UNCHANGED <<lock, channel, store, tool, files, pin, budget>>

\* Mutant: init replaces the pin, too.
WritePinAnyhow(c) ==
  LET j == job[c] IN
  /\ pc[c] = "pin"
  /\ pin' = [pin EXCEPT ![j.root] = j.pin]
  /\ IF j.op = "init" THEN Step(c, "pin", "settle") ELSE Quit(c)
  /\ UNCHANGED <<lock, channel, store, tool, files, budget>>

\* update and pin replace the pin; init must not find one.
WritePin(c) ==
  LET j == job[c] IN
  /\ pc[c] = "pin"
  /\ IF j.op = "init" /\ pin[j.root] # None
       THEN Quit(c) /\ UNCHANGED pin
       ELSE /\ pin' = [pin EXCEPT ![j.root] = j.pin]
            /\ IF j.op = "init" THEN Step(c, "pin", "settle") ELSE Quit(c)
  /\ UNCHANGED <<lock, channel, store, tool, files, budget>>

\* initialize: init_project and the readiness check, which the state of the
\* project may also fail.
Settle(c) ==
  /\ pc[c] = "settle"
  /\ \/ Approved(job[c].root, job[c].running) /\ Quit(c)
     \/ Step(c, "settle", "unwind")
  /\ UNCHANGED <<lock, channel, store, tool, files, pin, budget>>

\* Is the pin still the one of this init?
Unwind(c) ==
  /\ pc[c] = "unwind"
  /\ IF pin[job[c].root] = job[c].pin THEN Step(c, "unwind", "unpin") ELSE Quit(c)
  /\ UNCHANGED <<lock, channel, store, tool, files, pin, budget>>

Unpin(c) ==
  /\ pc[c] = "unpin" /\ Quit(c)
  /\ pin' = [pin EXCEPT ![job[c].root] = None]
  /\ UNCHANGED <<lock, channel, store, tool, files, budget>>

-----------------------------------------------------------------------------
(* Faults.                                                                 *)

Fault == faults < MaxFaults /\ faults' = faults + 1

\* A publisher leaves the lock file behind.
Kill(c) ==
  /\ Fault /\ pc[c] # "idle" /\ Quit(c)
  /\ UNCHANGED <<lock, channel, store, tool, files, pin, starts>>

\* An I/O error, or one of uv.  The handler of _write_atomic_pair restores the
\* files that it replaced.
Fail(c) ==
  /\ Fault
  /\ \/ pc[c] \in Publishing \ {"unlock"} /\ Step(c, pc[c], "unlock")
     \/ pc[c] \in {"uninstall", "install", "match", "hand over", "skill", "pin"} /\ Quit(c)
     \/ pc[c] = "agent" /\ Go(c, "rollback", [job[c] EXCEPT !.undo = {"skill"}])
  /\ UNCHANGED <<lock, channel, store, tool, files, pin, starts>>

\* The agent has been replaced when the error comes.
FailLate(c) ==
  /\ Fault /\ pc[c] = "agent"
  /\ agent' = [agent EXCEPT ![job[c].root] = Rendered(c)]
  /\ Go(c, "rollback", [job[c] EXCEPT !.undo = {"skill", "agent"}])
  /\ UNCHANGED <<lock, channel, store, tool, skill, pin, starts>>

\* No publish is active: somebody removes the lock.
RemoveLock ==
  /\ lock # None /\ pc[lock] \notin Publishing /\ lock' = None
  /\ UNCHANGED <<channel, store, tool, files, pin, pc, job, budget>>

-----------------------------------------------------------------------------

Publish(c) == Lock(c) \/ Plan(c) \/ CopyWheel(c) \/ CopyReceipt(c) \/ Advance(c) \/ Unlock(c)

Reinstall(c) == Uninstall(c) \/ Install(c) \/ Match(c) \/ HandOver(c)

Select(c) ==
  \/ SelectForUpdate(c) \/ SelectForInit(c)
  \/ Render(c) \/ WriteSkill(c) \/ WriteSkillAlone(c) \/ WriteAgent(c)
  \/ RollBackAgent(c) \/ RollBackSkill(c)
  \/ Verify(c) \/ WritePin(c) \/ Settle(c) \/ Unwind(c) \/ Unpin(c)

Progress(c) == Publish(c) \/ Reinstall(c) \/ Select(c)

Begin(c) ==
  \/ \E r \in Receipt : StartPublish(c, r) \/ StartInstall(c, r)
  \/ \E x \in Root : StartUpdate(c, x) \/ StartInit(c, x)
  \/ \E x \in Root, r \in Receipt : StartWorkflow(c, x, r) \/ StartPin(c, x, r)

Mishap(c) == Kill(c) \/ Fail(c) \/ FailLate(c)

Next ==
  \/ \E c \in Command : Begin(c) \/ Progress(c) \/ Mishap(c)
  \/ RemoveLock

Spec == Init /\ [][Next]_vars

\* A command that runs comes to its end.  The owner of a root runs update
\* again, and installs the latest release when no tool is left.
Fairness ==
  /\ \A c \in Command : WF_vars(Progress(c))
  /\ \A x \in Root : SF_vars(\E c \in Command : StartUpdate(c, x))
  /\ SF_vars(\E c \in Command : ToolLost /\ StartInstall(c, channel.latest))

FairSpec == Spec /\ Fairness

-----------------------------------------------------------------------------
(* Properties.                                                             *)

\* Every variable holds values of the files and processes it stands for.
TypeOK ==
  /\ lock \in Command \cup {None}
  /\ channel \in Channel
  /\ wheels \subseteq Build /\ receipts \in [Build -> Receipt \cup {None}]
  /\ tool \in Build \cup {None}
  /\ skill \in [Root -> Bundle \cup {None}] /\ agent \in [Root -> Bundle \cup {None}]
  /\ pin \in [Root -> Pin \cup {None}]
  /\ pc \in [Command -> Steps] /\ job \in [Command -> Job]
  /\ starts \in Nat /\ faults \in Nat

\* Every release that the channel lists can be installed and verified, and a
\* build is listed once: whatever is killed between the copies and the channel,
\* and whoever publishes the same build again.
ChannelServed ==
  /\ \A r \in Listed : Released(r)
  /\ channel.latest # None => \A r \in channel.previous : BuildOf[r] # BuildOf[channel.latest]

\* A runtime that passes for approved in a root has the skill and the agent of
\* one build, its own, and its wheel is in the store: never the half of an
\* interrupted installation, nor files that another command wrote since.
ApprovedIsWhole ==
  \A x \in Root, b \in Build :
    Approved(x, b) =>
      /\ skill[x] = BundleOf[b] /\ agent[x] = BundleOf[b]
      /\ b \in wheels

\* init never replaces a pin, not even one that was written after it looked.
InitNeverRepins ==
  [][\A c \in Command, x \in Root :
       job[c].op = "init" /\ pc'[c] # pc[c] /\ pin[x] # None => pin'[x] \in {pin[x], None}]_vars

\* Running update again moves every pinned root to the latest release, with
\* the workflow files of that release, whatever was killed or failed before.
UpdateConverges ==
  \A x \in Root :
    <>[](pin[x] = None \/ (~UpdateAvailable(x) /\ tool # None /\ Approved(x, tool)))
=============================================================================
