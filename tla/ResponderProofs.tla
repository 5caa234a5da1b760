--------------------------- MODULE ResponderProofs ---------------------------
(***************************************************************************)
(* Theorems about Responder, for any nets, drives, files, contents,        *)
(* policies and binaries, and any number of commands and failures.  The    *)
(* invariant has a part for each thing the commands work on; the commands  *)
(* of the other kinds leave it alone.                                      *)
(***************************************************************************)
EXTENDS Responder, TLAPS

\* The commands by what they work on.
NetCommand == \/ \E n \in Nets : BlockNet(n) \/ ReleaseNet(n)
              \/ Apply \/ Verify \/ Delete \/ Check
UsbCommand == \/ BlockUsb \/ UnblockUsb \/ Override \/ Unload \/ Deauthorize \/ Module
              \/ StillBound \/ RemoveOverride \/ Reauthorize \/ Reload
Plugging   == \E d \in Drives : Plug(d) \/ Unplug(d)
PolCommand == (\E x \in Pushes : Push(x)) \/ Mutate \/ Open \/ Write
FileCommand == (\E f \in Files : Quarantine(f)) \/ Copy \/ Fill \/ Meta \/ Remove
BinCommand == (\E b \in Binaries : Update(b)) \/ Download \/ Compare \/ Swap

\* Where a command of each kind may stand, and what it leaves alone.
LEMMA NetFrame ==
  NetCommand => step' \in NetSteps \cup {"idle"} /\ UNCHANGED <<usb, pol, quar, bin>>
BY DEF NetCommand, BlockNet, ReleaseNet, Apply, Verify, Delete, Check, Begin, GoTo, Done,
       NetSteps, usb, pol, quar, bin

LEMMA UsbFrame ==
  UsbCommand => step' \in UsbSteps \cup {"idle"} /\ UNCHANGED <<net, pol, quar, bin>>
BY DEF UsbCommand, BlockUsb, UnblockUsb, Override, Unload, Deauthorize, Module, StillBound,
       RemoveOverride, Reauthorize, Reload, Begin, GoTo, Done, UsbSteps, net, pol, quar, bin

LEMMA PlugFrame == Plugging => UNCHANGED <<step, arg, net, pol, quar, bin>>
BY DEF Plugging, Plug, Unplug, job, net, pol, quar, bin

LEMMA PolFrame ==
  PolCommand => step' \in PushSteps \cup {"idle"} /\ UNCHANGED <<usb, net, quar, bin>>
BY DEF PolCommand, Push, Mutate, Open, Write, Begin, GoTo, Done, PushSteps, usb, net, quar, bin

LEMMA FileFrame ==
  FileCommand => step' \in FileSteps \cup {"idle"} /\ UNCHANGED <<usb, net, pol, bin>>
BY DEF FileCommand, Quarantine, Copy, Fill, Meta, Remove, Begin, GoTo, Done, FileSteps,
       usb, net, pol, bin

LEMMA BinFrame ==
  BinCommand => step' \in BinSteps \cup {"idle"} /\ UNCHANGED <<usb, net, pol, quar>>
BY DEF BinCommand, Update, Download, Compare, Swap, Begin, GoTo, Done, BinSteps,
       usb, net, pol, quar

\* Every step is one of these.
LEMMA Kinds ==
  [Next]_vars <=> \/ NetCommand \/ UsbCommand \/ Plugging \/ PolCommand \/ FileCommand
                  \/ BinCommand \/ Restart \/ Reboot \/ UNCHANGED vars
BY DEF Next, NetCommand, UsbCommand, Plugging, PolCommand, FileCommand, BinCommand

-----------------------------------------------------------------------------
(* Nets *)

LEMMA NextNets == NetsInv /\ [Next]_vars => NetsInv'
<1> SUFFICES ASSUME NetsInv, [Next]_vars PROVE NetsInv'
  OBVIOUS
<1> USE DEF NetsInv, GoTo, Done
<1>1. ASSUME NEW n \in Nets, BlockNet(n) \/ ReleaseNet(n) PROVE NetsInv'
  BY <1>1 DEF BlockNet, ReleaseNet, Begin, net
<1>2. CASE Apply
  BY <1>2 DEF Apply, At, NetSteps
<1>3. CASE Verify
  BY <1>3 DEF Verify, At, NetSteps
<1>4. CASE Delete
  BY <1>4 DEF Delete, At, NetSteps
<1>5. CASE Check
  BY <1>5 DEF Check, At, NetSteps
<1>6. CASE Restart
  BY <1>6 DEF Restart, Start, NetSteps
<1>7. CASE Reboot
  BY <1>7 DEF Reboot, Start, NetSteps
<1>8. CASE UsbCommand \/ PolCommand \/ FileCommand \/ BinCommand
  <2>1. UNCHANGED net /\ step' \notin NetSteps
    BY <1>8, UsbFrame, PolFrame, FileFrame, BinFrame
       DEF NetSteps, UsbSteps, PushSteps, FileSteps, BinSteps
  <2>2. step \notin {"verify", "check"}
    BY <1>8 DEF UsbCommand, BlockUsb, UnblockUsb, Override, Unload, Deauthorize, Module,
         StillBound, RemoveOverride, Reauthorize, Reload, PolCommand, Push, Mutate, Open, Write,
         FileCommand, Quarantine, Copy, Fill, Meta, Remove, BinCommand, Update, Download,
         Compare, Swap, Begin, At
  <2>3. QED
    BY <2>1, <2>2 DEF net, NetSteps
<1>9. CASE Plugging \/ UNCHANGED vars
  BY <1>9, PlugFrame DEF net, vars, job
<1>10. QED
  BY <1>1, <1>2, <1>3, <1>4, <1>5, <1>6, <1>7, <1>8, <1>9, Kinds DEF NetCommand

-----------------------------------------------------------------------------
(* Drives *)

LEMMA NextUsb == UsbInv /\ [Next]_vars => UsbInv'
<1> SUFFICES ASSUME UsbInv, [Next]_vars PROVE UsbInv'
  OBVIOUS
<1> USE DEF UsbInv, GoTo, Done
<1>1. CASE BlockUsb \/ UnblockUsb
  BY <1>1 DEF BlockUsb, UnblockUsb, Begin, usb, UsbSteps
<1>2. CASE Override \/ RemoveOverride
  BY <1>2 DEF Override, RemoveOverride, At, UsbSteps
<1>3. CASE Unload
  BY <1>3 DEF Unload, At, UsbSteps, Become
<1>4. CASE Deauthorize
  BY <1>4 DEF Deauthorize, At, UsbSteps, Become
<1>5. CASE Module
  BY <1>5 DEF Module, At, UsbSteps, usb
<1>6. CASE StillBound
  BY <1>6 DEF StillBound, At, UsbSteps, Storage
<1>7. CASE Reauthorize
  <2>1. /\ drive' \in [Drives -> {"out", "idle", "bound", "deauthorized"}]
        /\ step' = "reload" /\ UNCHANGED <<usbFlag, calm>>
    BY <1>7 DEF Reauthorize, At, Probed
  <2>2. CASE UNCHANGED <<drive, driver>>
    BY <2>1, <2>2 DEF UsbSteps
  <2>3. CASE driver' = (driver \/ "bound" \in Range(drive'))
    <3>1. ASSUME NEW d \in Drives, drive'[d] = "bound" PROVE driver'
      <4>1. "bound" \in Range(drive')
        BY <2>1, <3>1 DEF Range
      <4>2. QED
        BY <2>3, <4>1
    <3>2. QED
      BY <2>1, <3>1 DEF UsbSteps
  <2>4. QED
    BY <1>7, <2>2, <2>3 DEF Reauthorize
<1>8. CASE Reload
  <2>1. step' = "idle" /\ usbFlag' = FALSE
    BY <1>8 DEF Reload
  <2>2. CASE UNCHANGED <<drive, driver>>
    BY <2>1, <2>2
  <2>3. CASE /\ driver' = (driver \/ ~override)
             /\ drive' = IF driver' THEN Become({"idle"}, "bound") ELSE drive
    <3>1. CASE driver'
      BY <2>1, <2>3, <3>1 DEF Become
    <3>2. CASE ~driver'
      <4>1. ~driver /\ drive' = drive
        BY <2>3, <3>2
      <4>2. QED
        BY <2>1, <4>1
    <3>3. QED
      BY <3>1, <3>2
  <2>4. QED
    BY <1>8, <2>2, <2>3 DEF Reload
<1>9. ASSUME NEW d \in Drives, Plug(d) PROVE UsbInv'
  BY <1>9 DEF Plug, job, Probed
<1>10. ASSUME NEW d \in Drives, Unplug(d) PROVE UsbInv'
  BY <1>10 DEF Unplug, job
<1>11. CASE Restart
  BY <1>11 DEF Restart, Start
<1>12. CASE Reboot
  BY <1>12 DEF Reboot, Start
<1>13. CASE NetCommand \/ PolCommand \/ FileCommand \/ BinCommand
  <2>1. UNCHANGED usb /\ step' # "still_bound"
    BY <1>13, NetFrame, PolFrame, FileFrame, BinFrame
       DEF NetSteps, PushSteps, FileSteps, BinSteps
  <2>2. step \notin UsbSteps
    BY <1>13 DEF UsbSteps, NetCommand, BlockNet, ReleaseNet, Apply, Verify, Delete, Check,
         PolCommand, Push, Mutate, Open, Write,
         FileCommand, Quarantine, Copy, Fill, Meta, Remove, BinCommand, Update, Download,
         Compare, Swap, Begin, At
  <2>3. QED
    BY <2>1, <2>2 DEF usb
<1>14. CASE UNCHANGED vars
  BY <1>14 DEF usb, vars, job
<1>15. QED
  BY <1>1, <1>2, <1>3, <1>4, <1>5, <1>6, <1>7, <1>8, <1>9, <1>10, <1>11, <1>12, <1>13,
     <1>14, Kinds DEF UsbCommand, Plugging

-----------------------------------------------------------------------------
(* The policy *)

\* A push makes a policy of a policy.
LEMMA PushedTyped ==
  ASSUME NEW p \in Policies, NEW x \in Pushes
  PROVE  Pushed(p, x) \in Policies
<1> DEFINE e == IF x.enforce = Keep THEN p.enforce ELSE x.enforce
           i == IF x.interval \in Intervals THEN x.interval ELSE Enforced(p, x).interval
<1>1. p.enforce \in BOOLEAN /\ x.enforce \in BOOLEAN \cup {Keep}
  BY DEF Policies, Pushes
<1>2. e \in BOOLEAN
  BY <1>1, Zenon
<1>3. Enforced(p, x) = [p EXCEPT !.enforce = e]
  BY DEF Enforced
<1>4. Enforced(p, x) \in Policies
  BY <1>2, <1>3 DEF Policies
<1>5. i \in Intervals
  BY <1>4 DEF Policies
<1>6. Pushed(p, x) = [Enforced(p, x) EXCEPT !.interval = i]
  BY DEF Pushed
<1>7. QED
  BY <1>4, <1>5, <1>6 DEF Policies

LEMMA NextPolicy == PolicyInv /\ [Next]_vars => PolicyInv'
<1> SUFFICES ASSUME PolicyInv, [Next]_vars PROVE PolicyInv'
  OBVIOUS
<1> USE DEF PolicyInv, GoTo, Done
<1>1. ASSUME NEW x \in Pushes, Push(x) PROVE PolicyInv'
  BY <1>1 DEF Push, Begin, pol
<1>2. CASE Mutate
  <2>1. arg \in Pushes /\ policy' \in Policies
    BY <1>2, PushedTyped DEF Mutate, At
  <2>2. QED
    BY <1>2, <2>1 DEF Mutate, At
<1>3. CASE Open
  BY <1>3 DEF Open, At
<1>4. CASE Write
  BY <1>4, HostAssumption DEF Write, At, AtBoot
<1>5. CASE Restart \/ Reboot
  <2>1. AtBoot(saved) \in Policies
    BY HostAssumption DEF AtBoot
  <2>2. QED
    BY <1>5, <2>1 DEF Restart, Reboot, Start, AtBoot
<1>6. CASE NetCommand \/ UsbCommand \/ FileCommand \/ BinCommand
  <2>1. UNCHANGED pol /\ step' \notin PushSteps
    BY <1>6, NetFrame, UsbFrame, FileFrame, BinFrame
       DEF NetSteps, UsbSteps, PushSteps, FileSteps, BinSteps
  <2>2. step \notin {"open", "write"}
    BY <1>6 DEF NetCommand, BlockNet, ReleaseNet, Apply, Verify, Delete, Check,
         UsbCommand, BlockUsb, UnblockUsb, Override, Unload, Deauthorize, Module,
         StillBound, RemoveOverride, Reauthorize, Reload,
         FileCommand, Quarantine, Copy, Fill, Meta, Remove, BinCommand, Update, Download,
         Compare, Swap, Begin, At
  <2>3. QED
    BY <2>1, <2>2 DEF pol, PushSteps, AtBoot
<1>7. CASE Plugging \/ UNCHANGED vars
  BY <1>7, PlugFrame DEF pol, vars, job, AtBoot
<1>8. QED
  BY <1>1, <1>2, <1>3, <1>4, <1>5, <1>6, <1>7, Kinds DEF PolCommand

-----------------------------------------------------------------------------
(* Files *)

LEMMA NextFiles == FilesInv /\ [Next]_vars => FilesInv'
<1> SUFFICES ASSUME FilesInv, [Next]_vars PROVE FilesInv'
  OBVIOUS
<1> USE DEF FilesInv, GoTo, Done, FileSteps
<1>1. ASSUME NEW f \in Files, Quarantine(f) PROVE FilesInv'
  BY <1>1 DEF Quarantine, Begin, quar, QuarantineKeepsContent
<1>2. CASE Copy
  <2>1. arg \in Files /\ file' = file
    BY <1>2 DEF Copy, At
  <2>2. CASE step' = "idle" /\ store' = store
    BY <2>1, <2>2 DEF QuarantineKeepsContent
  <2>3. CASE /\ file[arg] # None /\ store' = [store EXCEPT ![file[arg]] = "torn"]
             /\ step' = "fill" /\ arg' = <<arg, file[arg]>>
    <3>1. file[arg] \in Contents
      BY <2>1, <2>3
    <3>2. \A f \in Files : Original[f] = file[arg] \/ store'[Original[f]] = store[Original[f]]
      BY <2>3, <3>1, HostAssumption
    <3>3. QuarantineKeepsContent'
      BY <2>1, <3>2 DEF QuarantineKeepsContent
    <3>4. QED
      BY <2>1, <2>3, <3>1, <3>3
  <2>4. QED
    BY <1>2, <2>2, <2>3 DEF Copy
<1>3. CASE Fill
  <2>1. arg \in Files \X Contents /\ file' = file
    BY <1>3 DEF Fill, At
  <2>2. QuarantineKeepsContent'
    BY <1>3, <2>1, HostAssumption DEF Fill, QuarantineKeepsContent
  <2>3. QED
    BY <1>3, <2>1, <2>2 DEF Fill, At
<1>4. CASE Meta
  BY <1>4 DEF Meta, At, QuarantineKeepsContent
<1>5. CASE Remove
  <2>1. arg \in Files \X Contents /\ file[arg[1]] = arg[2] /\ store[arg[2]] = "full"
    BY <1>5 DEF Remove, At
  <2>2. store' = store /\ \A g \in Files : file'[g] = file[g] \/ g = arg[1]
    BY <1>5 DEF Remove
  <2>3. QuarantineKeepsContent'
    BY <2>1, <2>2 DEF QuarantineKeepsContent
  <2>4. QED
    BY <1>5, <2>1, <2>3 DEF Remove
<1>6. CASE Restart \/ Reboot
  BY <1>6 DEF Restart, Reboot, Start, quar, QuarantineKeepsContent
<1>7. CASE NetCommand \/ UsbCommand \/ PolCommand \/ BinCommand
  <2>1. UNCHANGED quar /\ step' \notin FileSteps
    BY <1>7, NetFrame, UsbFrame, PolFrame, BinFrame
       DEF NetSteps, UsbSteps, PushSteps, BinSteps
  <2>2. QED
    BY <2>1 DEF quar, QuarantineKeepsContent
<1>8. CASE Plugging \/ UNCHANGED vars
  BY <1>8, PlugFrame DEF quar, vars, job, QuarantineKeepsContent
<1>9. QED
  BY <1>1, <1>2, <1>3, <1>4, <1>5, <1>6, <1>7, <1>8, Kinds DEF FileCommand

-----------------------------------------------------------------------------
(* The binary *)

LEMMA NextBinary == BinaryInv /\ [Next]_vars => BinaryInv'
<1> SUFFICES ASSUME BinaryInv, [Next]_vars PROVE BinaryInv'
  OBVIOUS
<1> USE DEF BinaryInv, GoTo, Done, BinSteps, ExeApproved
<1>1. ASSUME NEW b \in Binaries, Update(b) PROVE BinaryInv'
  BY <1>1 DEF Update, Begin
<1>2. CASE Download
  BY <1>2 DEF Download, At
<1>3. CASE Compare
  BY <1>3 DEF Compare, At
<1>4. CASE Swap
  BY <1>4 DEF Swap, At
<1>5. CASE Restart \/ Reboot
  BY <1>5 DEF Restart, Reboot, Start, bin
<1>6. CASE NetCommand \/ UsbCommand \/ PolCommand \/ FileCommand
  <2>1. UNCHANGED bin /\ step' \notin BinSteps
    BY <1>6, NetFrame, UsbFrame, PolFrame, FileFrame
       DEF NetSteps, UsbSteps, PushSteps, FileSteps
  <2>2. QED
    BY <2>1 DEF bin
<1>7. CASE Plugging \/ UNCHANGED vars
  BY <1>7, PlugFrame DEF bin, vars, job
<1>8. QED
  BY <1>1, <1>2, <1>3, <1>4, <1>5, <1>6, <1>7, Kinds DEF BinCommand

-----------------------------------------------------------------------------
(* Types *)

\* What the types add to the parts above: where a command may stand, the switches of the
\* USB stack, the path recorded for a copy, the binaries, and the bounds.
Standing ==
  /\ step \in {"idle"} \cup NetSteps \cup FileSteps \cup BinSteps \cup PushSteps \cup UsbSteps
  /\ step = "still_bound" => arg \in BOOLEAN
Switched == {usbFlag, override, driver, calm, rejected} \subseteq BOOLEAN
Recorded == meta \in [Contents -> Files \cup {None}]
Approved == exe \in Binaries /\ staged \in Binaries \cup {None} /\ approved \subseteq Binaries
Counted  == commands \in 0..MaxCommands /\ faults \in 0..MaxFaults /\ plugs \in 0..MaxPlugs

\* One command at a time: it goes through steps of its kind to the end.
LEMMA NextStanding == Standing /\ [Next]_vars => Standing'
<1> SUFFICES ASSUME Standing, [Next]_vars PROVE Standing'
  OBVIOUS
<1>1. CASE NetCommand \/ UsbCommand \/ PolCommand \/ FileCommand \/ BinCommand
  <2>1. step' \in {"idle"} \cup NetSteps \cup FileSteps \cup BinSteps \cup PushSteps \cup UsbSteps
    BY <1>1, NetFrame, UsbFrame, PolFrame, FileFrame, BinFrame
  <2>2. step' = "still_bound" => UsbCommand
    BY <1>1, NetFrame, PolFrame, FileFrame, BinFrame DEF NetSteps, FileSteps, BinSteps, PushSteps
  <2>3. UsbCommand /\ step' = "still_bound" => Module
    BY DEF UsbCommand, BlockUsb, UnblockUsb, Override, Unload, Deauthorize, StillBound,
           RemoveOverride, Reauthorize, Reload, Begin, GoTo, Done
  <2>4. Module => arg' \in BOOLEAN
    BY DEF Module, GoTo
  <2>5. QED
    BY <2>1, <2>2, <2>3, <2>4 DEF Standing
<1>2. CASE Restart \/ Reboot
  BY <1>2 DEF Restart, Reboot, Start, Done, GoTo, Standing
<1>3. CASE Plugging \/ UNCHANGED vars
  BY <1>3, PlugFrame DEF vars, job, Standing
<1>4. QED
  BY <1>1, <1>2, <1>3, Kinds

\* Switches stay switches.
LEMMA NextSwitched == Switched /\ [Next]_vars => Switched'
<1> SUFFICES ASSUME Switched, [Next]_vars PROVE Switched'
  OBVIOUS
<1> USE DEF Switched
<1>1. CASE BlockUsb \/ UnblockUsb
  BY <1>1 DEF BlockUsb, UnblockUsb, usb, pol
<1>2. CASE Override \/ RemoveOverride
  BY <1>2 DEF Override, RemoveOverride, pol
<1>3. CASE Unload \/ Deauthorize \/ Module
  BY <1>3 DEF Unload, Deauthorize, Module, usb, pol
<1>4. CASE StillBound
  BY <1>4 DEF StillBound, pol
<1>5. CASE Reauthorize
  BY <1>5 DEF Reauthorize, pol
<1>6. CASE Reload
  BY <1>6 DEF Reload, pol
<1>7. ASSUME NEW d \in Drives, Plug(d) PROVE Switched'
  BY <1>7 DEF Plug, pol
<1>8. ASSUME NEW d \in Drives, Unplug(d) PROVE Switched'
  BY <1>8 DEF Unplug, pol
<1>9. CASE PolCommand
  BY <1>9, PolFrame DEF PolCommand, Push, Mutate, Open, Write, usb, pol
<1>10. CASE Restart
  BY <1>10 DEF Restart, Start
<1>11. CASE Reboot
  BY <1>11 DEF Reboot, Start
<1>12. CASE NetCommand \/ FileCommand \/ BinCommand
  BY <1>12, NetFrame, FileFrame, BinFrame DEF usb, pol
<1>13. CASE UNCHANGED vars
  BY <1>13 DEF vars, usb, pol
<1>14. QED
  BY <1>1, <1>2, <1>3, <1>4, <1>5, <1>6, <1>7, <1>8, <1>9, <1>10, <1>11, <1>12, <1>13,
     Kinds DEF UsbCommand, Plugging

\* The path recorded of a copy is that of the file in hand, or none.
LEMMA NextRecorded == Recorded /\ FilesInv /\ [Next]_vars => Recorded'
<1> SUFFICES ASSUME Recorded, FilesInv, [Next]_vars PROVE Recorded'
  OBVIOUS
<1>1. CASE Meta
  <2>1. arg \in Files \X Contents
    BY <1>1 DEF Meta, At, FilesInv, FileSteps
  <2>2. \E w \in Files \cup {None} : meta' = [meta EXCEPT ![arg[2]] = w]
    BY <1>1, <2>1 DEF Meta
  <2>3. QED
    BY <2>2 DEF Recorded
<1>2. CASE FileCommand /\ ~Meta
  BY <1>2 DEF FileCommand, Quarantine, Copy, Fill, Remove, quar, Recorded
<1>3. CASE NetCommand \/ UsbCommand \/ PolCommand \/ BinCommand
  BY <1>3, NetFrame, UsbFrame, PolFrame, BinFrame DEF quar, Recorded
<1>4. CASE Restart \/ Reboot \/ Plugging \/ UNCHANGED vars
  BY <1>4, PlugFrame DEF Restart, Reboot, Start, vars, quar, Recorded
<1>5. QED
  BY <1>1, <1>2, <1>3, <1>4, Kinds

\* Only a binary that was asked for is downloaded, and only one downloaded is installed.
LEMMA NextApproved == Approved /\ BinaryInv /\ [Next]_vars => Approved'
<1> SUFFICES ASSUME Approved, BinaryInv, [Next]_vars PROVE Approved'
  OBVIOUS
<1>1. ASSUME NEW b \in Binaries, Update(b) PROVE Approved'
  BY <1>1 DEF Update, Approved
<1>2. CASE Download
  <2>1. arg \in Binaries
    BY <1>2 DEF Download, At, BinaryInv, BinSteps, Approved
  <2>2. QED
    BY <1>2, <2>1 DEF Download, Approved
<1>3. CASE Compare
  BY <1>3 DEF Compare, bin, Approved
<1>4. CASE Swap
  <2>1. staged \in Binaries
    BY <1>4 DEF Swap, At, BinaryInv, BinSteps, Approved
  <2>2. QED
    BY <1>4, <2>1 DEF Swap, Approved
<1>5. CASE NetCommand \/ UsbCommand \/ PolCommand \/ FileCommand
  BY <1>5, NetFrame, UsbFrame, PolFrame, FileFrame DEF bin, Approved
<1>6. CASE Restart \/ Reboot \/ Plugging \/ UNCHANGED vars
  BY <1>6, PlugFrame DEF Restart, Reboot, Start, vars, bin, Approved
<1>7. QED
  BY <1>1, <1>2, <1>3, <1>4, <1>5, <1>6, Kinds DEF BinCommand

\* Each step counts what it is, up to the bound.
Counting ==
  /\ commands' = commands \/ (commands < MaxCommands /\ commands' = commands + 1)
  /\ faults' = faults \/ (faults < MaxFaults /\ faults' = faults + 1)
  /\ plugs' = plugs \/ (plugs < MaxPlugs /\ plugs' = plugs + 1)

\* No step leaves the bounds.
LEMMA NextCounted == Counted /\ [Next]_vars => Counted'
<1> SUFFICES ASSUME Counted, [Next]_vars PROVE Counted'
  OBVIOUS
<1> USE DEF NoFault, Fault, At, Begin
<1>1. ASSUME NetCommand PROVE Counting
  BY <1>1 DEF Counting, NetCommand, BlockNet, ReleaseNet, Apply, Verify, Delete, Check
<1>2. ASSUME UsbCommand PROVE Counting
  BY <1>2 DEF Counting, UsbCommand, BlockUsb, UnblockUsb, Override, Unload, Deauthorize, Module,
     StillBound, RemoveOverride, Reauthorize, Reload
<1>3. ASSUME PolCommand PROVE Counting
  BY <1>3 DEF Counting, PolCommand, Push, Mutate, Open, Write
<1>4. ASSUME FileCommand PROVE Counting
  BY <1>4 DEF Counting, FileCommand, Quarantine, Copy, Fill, Meta, Remove
<1>5. ASSUME BinCommand PROVE Counting
  BY <1>5 DEF Counting, BinCommand, Update, Download, Compare, Swap
<1>6. ASSUME Plugging \/ Restart \/ Reboot \/ UNCHANGED vars PROVE Counting
  BY <1>6 DEF Counting, Plugging, Plug, Unplug, Restart, Reboot, Start, vars
<1>7. Counting
  BY <1>1, <1>2, <1>3, <1>4, <1>5, <1>6, Kinds
<1>8. QED
  BY <1>7, BoundsAssumption DEF Counted, Counting

\* Types, with the parts of the invariant that they rest on.
LEMMA Types ==
  IInv /\ Standing /\ Switched /\ Recorded /\ Approved /\ Counted => TypeOK
<1> SUFFICES ASSUME IInv, Standing, Switched, Recorded, Approved, Counted PROVE TypeOK
  OBVIOUS
<1>1. /\ step \in NetSteps => arg \in Nets
      /\ flag \in [Nets -> BOOLEAN] /\ table \in [Nets -> BOOLEAN] /\ known \in [Nets -> BOOLEAN]
  BY DEF IInv, NetsInv
<1>2. drive \in [Drives -> {"out", "idle", "bound", "deauthorized"}]
  BY DEF IInv, UsbInv
<1>3. /\ step \in PushSteps => arg \in Pushes
      /\ policy \in Policies /\ saved \in Policies \cup {None}
  BY DEF IInv, PolicyInv, PushSteps
<1>4. /\ step = "copy" => arg \in Files
      /\ step \in FileSteps \ {"copy"} => arg \in Files \X Contents
      /\ file \in [Files -> Contents \cup {None}]
      /\ store \in [Contents -> {"absent", "torn", "full"}]
  BY DEF IInv, FilesInv
<1>5. step \in BinSteps => arg \in Binaries
  BY DEF IInv, BinaryInv, Approved
<1>6. /\ usbFlag \in BOOLEAN /\ override \in BOOLEAN /\ driver \in BOOLEAN
      /\ calm \in BOOLEAN /\ rejected \in BOOLEAN
  BY Zenon DEF Switched
<1>7. QED
  BY <1>1, <1>2, <1>3, <1>4, <1>5, <1>6, Zenon
     DEF Standing, Recorded, Approved, Counted, TypeOK

-----------------------------------------------------------------------------
(* What holds *)

\* The initial states satisfy all parts.
LEMMA InitIInv == Init => IInv
<1> SUFFICES ASSUME Init PROVE IInv
  OBVIOUS
<1>1. NetsInv
  BY DEF Init, NetsInv, NetSteps
<1>2. UsbInv
  BY DEF Init, UsbInv
<1>3. PolicyInv
  BY HostAssumption DEF Init, PolicyInv, AtBoot
<1>4. FilesInv
  BY HostAssumption DEF Init, FilesInv, FileSteps, QuarantineKeepsContent
<1>5. BinaryInv
  BY DEF Init, BinaryInv, BinSteps, ExeApproved
<1>6. QED
  BY <1>1, <1>2, <1>3, <1>4, <1>5 DEF IInv

\* The invariant: what each kind of command has in hand between its steps, however
\* commands, failures, kills, reboots and drives follow each other.
THEOREM Invariance == Spec => []IInv
<1>1. Init => IInv
  BY InitIInv
<1>2. IInv /\ [Next]_vars => IInv'
  BY NextNets, NextUsb, NextPolicy, NextFiles, NextBinary DEF IInv
<1>3. QED
  BY <1>1, <1>2, PTL DEF Spec

\* Every variable stays within its type, bounds included: a command works on something of
\* its kind at every step of it, and a step that is not its own finds it idle.
THEOREM TypeCorrect == Spec => []TypeOK
<1> DEFINE Inv == IInv /\ Standing /\ Switched /\ Recorded /\ Approved /\ Counted
<1>1. Init => Inv
  <2> SUFFICES ASSUME Init PROVE Inv
    OBVIOUS
  <2>1. IInv
    BY InitIInv
  <2>2. Standing /\ Switched /\ Recorded
    BY DEF Init, Standing, Switched, Recorded
  <2>3. Approved /\ Counted
    BY HostAssumption, BoundsAssumption DEF Init, Approved, Counted
  <2>4. QED
    BY <2>1, <2>2, <2>3
<1>2. Inv /\ [Next]_vars => Inv'
  <2>1. IInv /\ [Next]_vars => IInv'
    BY NextNets, NextUsb, NextPolicy, NextFiles, NextBinary DEF IInv
  <2>2. IInv => PolicyInv /\ FilesInv /\ BinaryInv
    BY DEF IInv
  <2>3. QED
    BY <2>1, <2>2, NextStanding, NextSwitched, NextRecorded, NextApproved, NextCounted
<1>3. Inv => TypeOK
  BY Types
<1> HIDE DEF Inv
<1>4. QED
  BY <1>1, <1>2, <1>3, PTL DEF Spec

\* The flags never claim a block that did not happen, nor deny one that did but where
\* nft could not be run or the agent was restarted.
THEOREM FlagsHonestHolds == Spec => []FlagsHonest
<1>1. IInv => FlagsHonest
  BY DEF IInv, NetsInv, FlagsHonest
<1>2. QED
  BY <1>1, Invariance, PTL

\* While block_usb holds no drive is bound: its verification, in two looks, is enough
\* but for drives that come after it began.
THEOREM UsbBlockAlwaysHolds == Spec => []UsbBlockHolds
<1>1. IInv => UsbBlockHolds
  BY DEF IInv, UsbInv, UsbBlockHolds, UsbSteps, Range
<1>2. QED
  BY <1>1, Invariance, PTL

\* A restart restores the policy that was answered Ok.
THEOREM PolicySurvivesHolds == Spec => []PolicySurvives
<1>1. IInv => PolicySurvives
  BY DEF IInv, PolicyInv, PolicySurvives
<1>2. QED
  BY <1>1, Invariance, PTL

\* Quarantine never loses a content and the agent's binary is an approved one.
THEOREM FilesWholeHolds == Spec => []FilesWhole
<1>1. IInv => FilesWhole
  BY DEF IInv, FilesInv, BinaryInv, FilesWhole
<1>2. QED
  BY <1>1, Invariance, PTL
=============================================================================
