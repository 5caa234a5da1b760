----------------------------- MODULE Responder ------------------------------
(***************************************************************************)
(* The agent's responder (agent/src/respond.rs): containment and policy    *)
(* commands, executed one at a time by the command channel, each in the    *)
(* steps in which it touches the host: nftables, the USB stack, files, the *)
(* policy and the agent's own binary.  Any step may fail, the agent may be *)
(* killed between two of them, the host may be rebooted, and drives may be *)
(* plugged in at any time.  The enforcement flags and the live policy are  *)
(* in memory; everything else outlives the agent.                          *)
(*                                                                         *)
(* Commands that leave nothing behind in the agent or in what it keeps     *)
(* (kill_process, kill_tree, freeze, disable_account, live_triage) are not *)
(* modelled; neither are changes that an administrator makes by hand.      *)
(***************************************************************************)
EXTENDS Naturals, FiniteSets, Functions

CONSTANTS
  Nets,       \* isolate and block_upload, each with a dedicated nft table
  Drives,     \* USB storage devices
  Files, Contents,
  Original,   \* what each file holds at first
  Intervals,  \* the accepted values of a policy knob
  Bad,        \* a value of it out of range
  Keep,       \* a knob the push does not mention
  Cli,        \* the policy of the command line
  Binaries, Installed,
  None,
  MaxCommands, MaxFaults, MaxPlugs  \* bounds

Policies == [enforce : BOOLEAN, interval : Intervals]
Pushes   == [enforce : BOOLEAN \cup {Keep}, interval : Intervals \cup {Keep, Bad}]
             \ {[enforce |-> Keep, interval |-> Keep]}

ASSUME HostAssumption ==
  /\ Original \in [Files -> Contents]
  /\ Cli \in Policies
  /\ Installed \in Binaries
  /\ None \notin Nets \cup Files \cup Contents \cup Binaries \cup Policies
  /\ Bad \notin Intervals /\ Keep \notin Intervals \cup {Bad} /\ Keep \notin BOOLEAN
ASSUME BoundsAssumption ==
  MaxCommands \in Nat /\ MaxFaults \in Nat /\ MaxPlugs \in Nat

VARIABLES
  step,      \* the step the command in progress takes next, or "idle"
  arg,       \* what it works on
  flag,      \* per net: upload_blocked, isolated
  usbFlag,   \* usb_blocked
  policy,    \* the live policy
  table,     \* per net: the nft table is loaded
  override,  \* the modprobe override that keeps the storage driver out
  driver,    \* the storage driver is loaded
  drive,     \* per drive: out, idle (no driver), bound or deauthorized
  saved,     \* policy.json, or None when it is absent or does not parse
  file,      \* per file: its content, or None
  store,     \* per content: the copy in quarantine is absent, torn or full
  meta,      \* per content: the original path recorded for restore
  exe, staged,     \* the agent's binary and the one being staged
  commands, faults, plugs,  \* bounds: how many so far
  known,     \* history: per net, the flag was set or cleared with the table seen,
             \* or the host rebooted, and since then no restart came between
  calm,      \* history: no drive plugged in since block_usb last began, which
             \* has not failed
  rejected,  \* history: a push was answered with an error since the agent
             \* started or last saved its policy
  approved   \* history: the binaries operators asked for

mem     == <<flag, usbFlag, policy>>
usb     == <<override, driver, drive, usbFlag, calm>>
net     == <<flag, table, known>>
pol     == <<policy, saved, rejected>>
quar    == <<file, store, meta>>
bin     == <<exe, staged, approved>>
job     == <<step, arg>>
vars    == <<job, usb, net, pol, quar, bin, commands, faults, plugs>>

NetSteps  == {"apply", "verify", "delete", "check"}
FileSteps == {"copy", "fill", "meta", "remove"}
BinSteps  == {"download", "compare", "swap"}
PushSteps == {"push", "open", "write"}
UsbSteps  == {"override", "unload", "deauthorize", "module", "still_bound",
              "remove_override", "reauthorize", "reload"}

TypeOK ==
  /\ step \in {"idle"} \cup NetSteps \cup FileSteps \cup BinSteps \cup PushSteps \cup UsbSteps
  /\ step \in NetSteps => arg \in Nets
  /\ step = "copy" => arg \in Files
  /\ step \in FileSteps \ {"copy"} => arg \in Files \X Contents
  /\ step \in BinSteps => arg \in Binaries
  /\ step \in PushSteps => arg \in Pushes
  /\ step = "still_bound" => arg \in BOOLEAN
  /\ flag \in [Nets -> BOOLEAN] /\ table \in [Nets -> BOOLEAN] /\ known \in [Nets -> BOOLEAN]
  /\ usbFlag \in BOOLEAN /\ override \in BOOLEAN /\ driver \in BOOLEAN /\ calm \in BOOLEAN
  /\ drive \in [Drives -> {"out", "idle", "bound", "deauthorized"}]
  /\ policy \in Policies /\ saved \in Policies \cup {None} /\ rejected \in BOOLEAN
  /\ file \in [Files -> Contents \cup {None}]
  /\ store \in [Contents -> {"absent", "torn", "full"}]
  /\ meta \in [Contents -> Files \cup {None}]
  /\ exe \in Binaries /\ staged \in Binaries \cup {None} /\ approved \subseteq Binaries
  /\ commands \in 0..MaxCommands /\ faults \in 0..MaxFaults /\ plugs \in 0..MaxPlugs

Init ==
  /\ step = "idle" /\ arg = None
  /\ flag = [n \in Nets |-> FALSE] /\ table = flag /\ known = [n \in Nets |-> TRUE]
  /\ usbFlag = FALSE /\ override = FALSE /\ driver = FALSE /\ calm = TRUE
  /\ drive = [d \in Drives |-> "out"]
  /\ policy = Cli /\ saved = None /\ rejected = FALSE
  /\ file = Original /\ store = [c \in Contents |-> "absent"]
  /\ meta = [c \in Contents |-> None]
  /\ exe = Installed /\ staged = None /\ approved = {Installed}
  /\ commands = 0 /\ faults = 0 /\ plugs = 0

-----------------------------------------------------------------------------
(* How a command moves on *)

GoTo(s, x) == step' = s /\ arg' = x
Done       == GoTo("idle", None)

NoFault == UNCHANGED faults
Fault   == faults < MaxFaults /\ faults' = faults + 1

\* A command arrives; only some of them need the enforce gate.
Begin(gated, s, x) ==
  /\ step = "idle" /\ commands < MaxCommands
  /\ gated => policy.enforce
  /\ commands' = commands + 1
  /\ GoTo(s, x)
  /\ NoFault /\ UNCHANGED plugs

\* A step of the command in progress, at s.
At(s) == step = s /\ UNCHANGED <<commands, plugs>>

-----------------------------------------------------------------------------
(* isolate, unisolate, block_upload, unblock_upload *)

BlockNet(n)   == Begin(TRUE, "apply", n) /\ UNCHANGED <<usb, net, pol, quar, bin>>
ReleaseNet(n) == Begin(FALSE, "delete", n) /\ UNCHANGED <<usb, net, pol, quar, bin>>

\* apply_nft: the ruleset is loaded as a whole or not at all.
Apply ==
  /\ At("apply")
  /\ \/ table' = [table EXCEPT ![arg] = TRUE] /\ GoTo("verify", arg) /\ NoFault
     \/ UNCHANGED table /\ Done /\ Fault
  /\ UNCHANGED <<flag, known, usb, pol, quar, bin>>

\* verify_nft_table, and the flag only after it.
Verify ==
  /\ At("verify")
  /\ \/ /\ table[arg] /\ NoFault
        /\ flag' = [flag EXCEPT ![arg] = TRUE]
        /\ known' = [known EXCEPT ![arg] = TRUE]
     \/ Fault /\ known' = [known EXCEPT ![arg] = FALSE] /\ UNCHANGED flag
  /\ Done
  /\ UNCHANGED <<table, usb, pol, quar, bin>>

\* nft delete table: the result is ignored.
Delete ==
  /\ At("delete")
  /\ \/ table' = [table EXCEPT ![arg] = FALSE] /\ NoFault
     \/ UNCHANGED table /\ Fault
  /\ GoTo("check", arg)
  /\ UNCHANGED <<flag, known, usb, pol, quar, bin>>

\* Variant: the flag is cleared without a look at the table.
CheckSkipped ==
  /\ At("check")
  /\ NoFault
  /\ flag' = [flag EXCEPT ![arg] = FALSE]
  /\ Done
  /\ UNCHANGED <<table, known, usb, pol, quar, bin>>

\* The flag is cleared when the table cannot be listed, which is what happens
\* when it is gone and also when nft cannot be run.
Check ==
  /\ At("check")
  /\ \/ table[arg] /\ NoFault /\ UNCHANGED <<flag, known>>
     \/ /\ ~table[arg] /\ NoFault
        /\ flag' = [flag EXCEPT ![arg] = FALSE]
        /\ known' = [known EXCEPT ![arg] = TRUE]
     \/ /\ Fault
        /\ flag' = [flag EXCEPT ![arg] = FALSE]
        /\ known' = [known EXCEPT ![arg] = FALSE]
  /\ Done
  /\ UNCHANGED <<table, usb, pol, quar, bin>>

-----------------------------------------------------------------------------
(* block_usb, unblock_usb, and the kernel *)

Storage == {d \in Drives : drive[d] \in {"idle", "bound"}}  \* usb_mass_storage_devices
Become(from, to) == [d \in Drives |-> IF drive[d] \in from THEN to ELSE drive[d]]

BlockUsb ==
  /\ Begin(TRUE, "override", None) /\ calm' = TRUE
  /\ UNCHANGED <<override, driver, drive, usbFlag, net, pol, quar, bin>>

UnblockUsb ==
  /\ Begin(FALSE, "remove_override", None)
  /\ UNCHANGED <<usb, net, pol, quar, bin>>

\* The override is best effort: /etc may be read-only.
Override ==
  /\ At("override") /\ GoTo("unload", None)
  /\ \/ override' = TRUE /\ NoFault
     \/ UNCHANGED override /\ Fault
  /\ UNCHANGED <<driver, drive, usbFlag, calm, net, pol, quar, bin>>

\* modprobe -r: fails while a drive is busy.
Unload ==
  /\ At("unload") /\ GoTo("deauthorize", None)
  /\ \/ driver' = FALSE /\ drive' = Become({"bound"}, "idle") /\ NoFault
     \/ "bound" \in Range(drive) /\ UNCHANGED <<driver, drive>> /\ NoFault
     \/ UNCHANGED <<driver, drive>> /\ Fault
  /\ UNCHANGED <<override, usbFlag, calm, net, pol, quar, bin>>

\* Every storage device is deauthorized, but for those whose write fails.
Deauthorize ==
  /\ At("deauthorize") /\ GoTo("module", None)
  /\ \/ drive' = Become({"idle", "bound"}, "deauthorized") /\ NoFault
     \/ UNCHANGED drive /\ Fault
  /\ UNCHANGED <<override, driver, usbFlag, calm, net, pol, quar, bin>>

\* The first half of the verification: is the driver gone?
Module ==
  /\ At("module") /\ GoTo("still_bound", ~driver) /\ NoFault
  /\ UNCHANGED <<usb, net, pol, quar, bin>>

\* Variant: where the override is in place nothing else is looked at.
StillBoundByOverride ==
  /\ At("still_bound") /\ Done /\ NoFault
  /\ usbFlag' = (usbFlag \/ arg \/ override \/ Storage = {})
  /\ UNCHANGED <<override, driver, drive, calm, net, pol, quar, bin>>

\* The second half, and the flag.
StillBound ==
  /\ At("still_bound") /\ Done /\ NoFault
  /\ LET enforced == arg \/ Storage = {}
     IN  usbFlag' = (usbFlag \/ enforced) /\ calm' = (calm /\ enforced)
  /\ UNCHANGED <<override, driver, drive, net, pol, quar, bin>>

RemoveOverride ==
  /\ At("remove_override") /\ GoTo("reauthorize", None)
  /\ \/ override' = FALSE /\ NoFault
     \/ UNCHANGED override /\ Fault
  /\ UNCHANGED <<driver, drive, usbFlag, calm, net, pol, quar, bin>>

\* The kernel probes a device: the driver is loaded for it unless overridden.
Probed(d) == IF driver \/ ~override THEN "bound" ELSE "idle"

Reauthorize ==
  /\ At("reauthorize") /\ GoTo("reload", None)
  /\ \/ /\ drive' = [d \in Drives |-> IF drive[d] = "deauthorized" THEN Probed(d) ELSE drive[d]]
        /\ driver' = (driver \/ "bound" \in Range(drive')) /\ NoFault
     \/ UNCHANGED <<drive, driver>> /\ Fault
  /\ UNCHANGED <<override, usbFlag, calm, net, pol, quar, bin>>

\* modprobe: with the override in place it runs /bin/true.
Reload ==
  /\ At("reload") /\ Done
  /\ usbFlag' = FALSE
  /\ \/ /\ driver' = (driver \/ ~override) /\ NoFault
        /\ drive' = IF driver' THEN Become({"idle"}, "bound") ELSE drive
     \/ UNCHANGED <<drive, driver>> /\ Fault
  /\ UNCHANGED <<override, calm, net, pol, quar, bin>>

Plug(d) ==
  /\ drive[d] = "out" /\ plugs < MaxPlugs /\ plugs' = plugs + 1
  /\ drive' = [drive EXCEPT ![d] = Probed(d)]
  /\ driver' = (driver \/ drive'[d] = "bound")
  /\ calm' = FALSE
  /\ UNCHANGED <<job, override, usbFlag, net, pol, quar, bin, commands, faults>>

Unplug(d) ==
  /\ drive[d] # "out"
  /\ drive' = [drive EXCEPT ![d] = "out"]
  /\ UNCHANGED <<job, override, driver, usbFlag, calm, net, pol, quar, bin,
                 commands, faults, plugs>>

-----------------------------------------------------------------------------
(* update_policy *)

Enforced(p, x) == [p EXCEPT !.enforce = IF x.enforce = Keep THEN @ ELSE x.enforce]
\* What a push makes of a policy: its fields in turn, up to one that is refused.
Pushed(p, x) ==
  [Enforced(p, x) EXCEPT !.interval = IF x.interval \in Intervals THEN x.interval ELSE @]

Push(x) ==
  /\ Begin(FALSE, "push", x)
  /\ UNCHANGED <<usb, net, pol, quar, bin>>

\* The fields are taken over in memory; one out of range ends the push there.
Mutate ==
  /\ At("push") /\ NoFault
  /\ policy' = Pushed(policy, arg)
  /\ IF arg.interval = Bad THEN Done /\ rejected' = TRUE
     ELSE GoTo("open", arg) /\ UNCHANGED rejected
  /\ UNCHANGED <<saved, flag, table, known, usb, quar, bin>>

\* save opens policy.json with truncation,
Open ==
  /\ At("open")
  /\ \/ saved' = None /\ GoTo("write", arg) /\ NoFault /\ UNCHANGED rejected
     \/ UNCHANGED saved /\ Done /\ rejected' = TRUE /\ Fault
  /\ UNCHANGED <<policy, flag, table, known, usb, quar, bin>>

\* Variant: what is written is the push and not the policy it led to.
WritePush ==
  /\ At("write")
  /\ saved' = Pushed(Cli, arg) /\ rejected' = FALSE /\ NoFault
  /\ Done
  /\ UNCHANGED <<policy, flag, table, known, usb, quar, bin>>

\* and then writes it.
Write ==
  /\ At("write")
  /\ \/ saved' = policy /\ rejected' = FALSE /\ NoFault
     \/ UNCHANGED saved /\ rejected' = TRUE /\ Fault
  /\ Done
  /\ UNCHANGED <<policy, flag, table, known, usb, quar, bin>>

\* shared_policy: a saved policy overrides the command line.
AtBoot(s) == IF s = None THEN Cli ELSE s

-----------------------------------------------------------------------------
(* quarantine_file *)

Quarantine(f) ==
  /\ Begin(FALSE, "copy", f)
  /\ UNCHANGED <<usb, net, pol, quar, bin>>

\* The file is read and hashed, and the copy named by its hash is truncated.
Copy ==
  /\ At("copy")
  /\ \/ /\ file[arg] # None /\ NoFault
        /\ store' = [store EXCEPT ![file[arg]] = "torn"]
        /\ GoTo("fill", <<arg, file[arg]>>)
     \/ file[arg] = None /\ NoFault /\ Done /\ UNCHANGED store
     \/ Fault /\ Done /\ UNCHANGED store
  /\ UNCHANGED <<file, meta, usb, net, pol, bin>>

\* Variant: a failed write is not looked at.
FillIgnored ==
  /\ At("fill")
  /\ \/ store' = [store EXCEPT ![arg[2]] = "full"] /\ GoTo("meta", arg) /\ NoFault
     \/ UNCHANGED store /\ GoTo("meta", arg) /\ Fault
  /\ UNCHANGED <<file, meta, usb, net, pol, bin>>

\* The content is written.
Fill ==
  /\ At("fill")
  /\ \/ store' = [store EXCEPT ![arg[2]] = "full"] /\ GoTo("meta", arg) /\ NoFault
     \/ UNCHANGED store /\ Done /\ Fault
  /\ UNCHANGED <<file, meta, usb, net, pol, bin>>

\* Best effort.
Meta ==
  /\ At("meta") /\ GoTo("remove", arg)
  /\ \/ meta' = [meta EXCEPT ![arg[2]] = arg[1]] /\ NoFault
     \/ meta' = [meta EXCEPT ![arg[2]] = None] /\ Fault
  /\ UNCHANGED <<file, store, usb, net, pol, bin>>

Remove ==
  /\ At("remove") /\ Done
  /\ \/ file' = [file EXCEPT ![arg[1]] = None] /\ NoFault
     \/ UNCHANGED file /\ Fault
  /\ UNCHANGED <<store, meta, usb, net, pol, bin>>

-----------------------------------------------------------------------------
(* self_update *)

\* An operator asks for binary b.
Update(b) ==
  /\ Begin(TRUE, "download", b) /\ approved' = approved \cup {b}
  /\ UNCHANGED <<exe, staged, usb, net, pol, quar>>

\* curl: what arrives may be another binary than the one asked for.
Download ==
  /\ At("download")
  /\ \/ staged' = arg /\ GoTo("compare", arg) /\ NoFault
     \/ \E x \in Binaries \ {arg} : staged' = x /\ GoTo("compare", arg) /\ Fault
     \/ staged' = None /\ Done /\ Fault
  /\ UNCHANGED <<exe, approved, usb, net, pol, quar>>

\* Variant: the digest is not compared.
CompareSkipped ==
  /\ At("compare") /\ NoFault
  /\ GoTo("swap", arg)
  /\ UNCHANGED <<bin, usb, net, pol, quar>>

Compare ==
  /\ At("compare") /\ NoFault
  /\ IF staged = arg THEN GoTo("swap", arg) /\ UNCHANGED staged
     ELSE Done /\ staged' = None
  /\ UNCHANGED <<exe, approved, usb, net, pol, quar>>

\* The rename, and a restart that is not waited for.
Swap ==
  /\ At("swap") /\ Done
  /\ \/ exe' = staged /\ staged' = None /\ NoFault
     \/ UNCHANGED <<exe, staged>> /\ Fault
  /\ UNCHANGED <<approved, usb, net, pol, quar>>

-----------------------------------------------------------------------------
(* Restarts *)

\* What is in memory starts afresh.
Start ==
  /\ Done /\ flag' = [n \in Nets |-> FALSE] /\ usbFlag' = FALSE
  /\ policy' = AtBoot(saved) /\ rejected' = FALSE
  /\ UNCHANGED <<override, calm, saved, quar, bin, commands, plugs>>

\* The agent is killed, updated or upgraded, and systemd starts it again.
Restart ==
  /\ Start /\ Fault
  /\ known' = [n \in Nets |-> FALSE]
  /\ UNCHANGED <<table, driver, drive>>

\* The host reboots: the tables are gone and drives are probed afresh.
Reboot ==
  /\ Start /\ Fault
  /\ table' = [n \in Nets |-> FALSE] /\ known' = [n \in Nets |-> TRUE]
  /\ driver' = (~override /\ \E d \in Drives : drive[d] # "out")
  /\ drive' = [d \in Drives |->
                 IF drive[d] = "out" THEN "out" ELSE IF driver' THEN "bound" ELSE "idle"]

Next ==
  \/ \E n \in Nets : BlockNet(n) \/ ReleaseNet(n)
  \/ Apply \/ Verify \/ Delete \/ Check
  \/ BlockUsb \/ UnblockUsb
  \/ Override \/ Unload \/ Deauthorize \/ Module \/ StillBound
  \/ RemoveOverride \/ Reauthorize \/ Reload
  \/ \E d \in Drives : Plug(d) \/ Unplug(d)
  \/ \E x \in Pushes : Push(x)
  \/ Mutate \/ Open \/ Write
  \/ \E f \in Files : Quarantine(f)
  \/ Copy \/ Fill \/ Meta \/ Remove
  \/ \E b \in Binaries : Update(b)
  \/ Download \/ Compare \/ Swap
  \/ Restart \/ Reboot

Spec == Init /\ [][Next]_vars
-----------------------------------------------------------------------------
(* Properties *)

\* "telemetry never claims a block that did not happen" (respond.rs:14): between
\* commands a flag means that its table is loaded, whatever failed before; and a
\* loaded table has its flag unless the agent was restarted over it or nft could
\* not be run to see.
FlagsHonest ==
  step = "idle" =>
    \A n \in Nets : /\ flag[n] => table[n]
                    /\ known[n] /\ table[n] => flag[n]

\* While usb_blocked is set, no drive is bound unless one was plugged in after the
\* block began or a later attempt to block failed; and none at all where the
\* override is in place and the driver out.
UsbBlockHolds ==
  step = "idle" /\ usbFlag /\ (calm \/ (override /\ ~driver)) =>
    "bound" \notin Range(drive)

\* "persist the snapshot while holding the lock so disk + memory stay consistent"
\* (respond.rs:364): a restart would restore the live policy, unless a push was
\* answered with an error; and a push that was answered Ok is what it restores.
PolicySurvives ==
  step = "idle" /\ ~rejected => AtBoot(saved) = policy

\* "copy is safe in quarantine" (respond.rs:253): at no point of a quarantine, killed
\* or failing where it may, is the content of a file lost; and whatever is downloaded
\* or left behind, the agent's binary is the one installed or one an operator asked for.
QuarantineKeepsContent ==
  \A f \in Files : \/ store[Original[f]] = "full"
                   \/ \E g \in Files : file[g] = Original[f]
ExeApproved == exe \in approved
FilesWhole == QuarantineKeepsContent /\ ExeApproved

\* Why they hold, part by part and with the types each needs.  The table of a net is
\* loaded before its flag is set and deleted before it is cleared: flag and table
\* disagree only for the net in hand, in the step between.
NetsInv ==
  /\ flag \in [Nets -> BOOLEAN] /\ table \in [Nets -> BOOLEAN] /\ known \in [Nets -> BOOLEAN]
  /\ step \in NetSteps => arg \in Nets
  /\ step = "verify" => table[arg]
  /\ \A n \in Nets : /\ flag[n] => table[n] \/ (step = "check" /\ arg = n)
                     /\ known[n] /\ table[n] => flag[n] \/ (step = "verify" /\ arg = n)

\* A bound drive has its driver, and from the look at the driver to the flag only
\* plugging in a drive can bind one.
UsbInv ==
  /\ drive \in [Drives -> {"out", "idle", "bound", "deauthorized"}]
  /\ \A d \in Drives : drive[d] = "bound" =>
       /\ driver
       /\ usbFlag => ~calm \/ step \in UsbSteps
       /\ step = "still_bound" => ~arg \/ ~calm

\* Memory and disk part only from a push to its save.
PolicyInv ==
  /\ policy \in Policies /\ saved \in Policies \cup {None}
  /\ step \in {"push", "open", "write"} => arg \in Pushes
  /\ ~rejected /\ step \notin {"open", "write"} => AtBoot(saved) = policy

\* A quarantined file is in place until its copy is whole.
FilesInv ==
  /\ file \in [Files -> Contents \cup {None}] /\ store \in [Contents -> {"absent", "torn", "full"}]
  /\ step = "copy" => arg \in Files
  /\ step \in FileSteps \ {"copy"} => /\ arg \in Files \X Contents /\ file[arg[1]] = arg[2]
                                      /\ step # "fill" => store[arg[2]] = "full"
  /\ QuarantineKeepsContent

\* What is swapped in is what was asked for.
BinaryInv ==
  /\ step \in BinSteps => arg \in approved
  /\ step = "swap" => staged = arg
  /\ ExeApproved

IInv == NetsInv /\ UsbInv /\ PolicyInv /\ FilesInv /\ BinaryInv
=============================================================================
