--------------------------- MODULE TtyMode_proofs ---------------------------
(***************************************************************************)
(* A program that handles no signal itself leaves the terminal as it found *)
(* it, for every list of signals.  The argument: a raw terminal always has *)
(* its saved mode, and a handler that was entered never gives the program  *)
(* back, so nothing the program read before it is used after it.           *)
(***************************************************************************)
EXTENDS TtyMode, TLAPS, SequenceTheorems

AllFatal == Old = [s \in Sig |-> "default"]

(* What is raw can be restored, and what would be restored is not raw. *)
RawIsSaved == (mode = "raw" => saved) /\ (saved => prev # "raw")

(* Where the program stands while no handler runs *)
AtPlace ==
  frames = <<>> =>
    /\ pc = "save" /\ ~saved => t # "raw"
    /\ pc = "set" => saved
    /\ pc = "unsave" => mode # "raw"
    /\ pc \in {"idle", "save", "set"} /\ told = "cooked" => mode # "raw"
    /\ pc \notin {"install", "register"} /\ mode = "raw" => onExit

(* A handler past its first step has restored the terminal. *)
PastRestore == \A i \in 1..Len(frames) : frames[i].at # "restore" => mode # "raw"

(* A signal that was installed is ours, or its handler runs. *)
Caught(s) == disp[s] = "ours" \/ \E i \in 1..Len(frames) : frames[i].sig = s

Ours ==
  /\ \A s \in Sig : disp[s] # "returns"
  /\ \A i \in 1..made : Caught(Signals[i])
  /\ installed => made = Len(Signals)

IInv == TypeOK /\ RawIsSaved /\ AtPlace /\ PastRestore /\ Ours /\ KilledRestored /\ ExitRestored

LEMMA SignalIsSig == \A i \in 1..Len(Signals) : Signals[i] \in Sig
<1>1. DOMAIN Signals = 1..Len(Signals)
  BY TtyAssumption
<1> QED BY <1>1 DEF Sig

LEMMA SigIsSignal == \A s \in Sig : \E i \in 1..Len(Signals) : Signals[i] = s
<1>1. DOMAIN Signals = 1..Len(Signals)
  BY TtyAssumption
<1> QED BY <1>1 DEF Sig

LEMMA IInvInit == AllFatal /\ Init => IInv
<1> SUFFICES ASSUME AllFatal, Init PROVE IInv
  OBVIOUS
<1>1. TypeOK
  <2>1. 0 \in 0..Len(Signals)
    BY TtyAssumption
  <2>2. frames \in Seq(Frame)
    BY DEF Init
  <2>3. disp \in [Sig -> {"ours", "default", "returns"}]
    BY DEF Init, AllFatal
  <2> QED BY <2>1, <2>2, <2>3 DEF Init, TypeOK
<1>2. RawIsSaved /\ AtPlace /\ KilledRestored /\ ExitRestored
  BY DEF Init, RawIsSaved, AtPlace, KilledRestored, ExitRestored
<1>3. PastRestore /\ Ours
  BY TtyAssumption DEF AllFatal, Init, PastRestore, Ours
<1> QED BY <1>1, <1>2, <1>3 DEF IInv

(* A step of the program itself *)
ProgramStep ==
  RawOn \/ Save \/ SetRaw \/ InstallCleanup \/ Register \/ RawOff \/ Unsave \/ Sane \/ Exit \/ RtExit

(* The program leaves handlers alone, and dispositions except in           *)
(* rt_tty_install_cleanup.                                                 *)
LEMMA ProgramOurs == IInv /\ ProgramStep => Ours' /\ PastRestore'
<1> SUFFICES ASSUME IInv, ProgramStep PROVE Ours' /\ PastRestore'
  OBVIOUS
<1>1. frames = <<>> /\ frames' = frames
  BY DEF ProgramStep, RawOn, Save, SetRaw, InstallCleanup, Register, RawOff, Unsave, Sane, Exit, RtExit, At, Running
<1>2. PastRestore'
  BY <1>1 DEF PastRestore
<1>3. CASE UNCHANGED <<disp, made, installed>>
  <2>1. \A s : Caught(s)' <=> Caught(s)
    BY <1>1, <1>3 DEF Caught
  <2> QED BY <1>2, <1>3, <2>1 DEF Ours, IInv
<1>4. CASE InstallCleanup /\ ~UNCHANGED <<disp, made, installed>>
  <2>1. CASE ~installed /\ made < Len(Signals) /\ disp' = [disp EXCEPT ![Signals[made + 1]] = "ours"] /\ made' = made + 1 /\ UNCHANGED installed
    <3>1. made + 1 \in 1..Len(Signals) /\ Signals[made + 1] \in Sig
      BY <2>1, SignalIsSig DEF IInv, TypeOK
    <3>2. \A s \in Sig : disp'[s] # "returns"
      BY <2>1, <3>1 DEF IInv, TypeOK, Ours
    <3>3. ASSUME NEW i \in 1..made' PROVE Caught(Signals[i])'
      <4>1. CASE i = made + 1
        BY <2>1, <3>1, <4>1 DEF Caught, IInv, TypeOK
      <4>2. CASE i \in 1..made
        <5>1. Caught(Signals[i]) /\ Signals[i] \in Sig
          BY <4>2, SignalIsSig, TtyAssumption DEF IInv, Ours, TypeOK
        <5> QED BY <5>1, <2>1, <3>1, <1>1 DEF Caught, IInv, TypeOK
      <4> QED BY <4>1, <4>2, <2>1 DEF IInv, TypeOK
    <3>4. installed' = FALSE
      BY <2>1 DEF IInv, TypeOK
    <3> QED BY <1>2, <3>2, <3>3, <3>4 DEF Ours
  <2>2. CASE made = Len(Signals) /\ installed' = TRUE /\ UNCHANGED <<disp, made>>
    <3>1. \A s : Caught(s)' <=> Caught(s)
      BY <1>1, <2>2 DEF Caught
    <3> QED BY <1>2, <2>2, <3>1 DEF Ours, IInv
  <2> QED BY <1>4, <2>1, <2>2 DEF InstallCleanup
<1>5. UNCHANGED <<disp, made, installed>> \/ InstallCleanup
  BY DEF ProgramStep, RawOn, Save, SetRaw, Register, RawOff, Unsave, Sane, Exit, RtExit, state
<1> QED BY <1>2, <1>3, <1>4, <1>5

LEMMA ProgramKeeps == IInv /\ ProgramStep => IInv'
<1> SUFFICES ASSUME IInv, ProgramStep PROVE IInv'
  OBVIOUS
<1>1. Ours' /\ PastRestore'
  BY ProgramOurs
<1>2. TypeOK'
  <2>1. CASE InstallCleanup
    <3>1. CASE made < Len(Signals) /\ disp' = [disp EXCEPT ![Signals[made + 1]] = "ours"] /\ made' = made + 1 /\ UNCHANGED <<installed, pc>>
      <4>1. made + 1 \in 1..Len(Signals) /\ Signals[made + 1] \in Sig
        BY <3>1, SignalIsSig, TtyAssumption DEF IInv, TypeOK
      <4>2. made' \in 0..Len(Signals) /\ disp' \in [Sig -> {"ours", "default", "returns"}]
        BY <3>1, <4>1, TtyAssumption DEF IInv, TypeOK
      <4> QED BY <2>1, <3>1, <4>2 DEF InstallCleanup, At, IInv, TypeOK
    <3>2. CASE UNCHANGED <<disp, made>>
      BY <2>1, <3>2 DEF InstallCleanup, At, IInv, TypeOK
    <3> QED BY <2>1, <3>1, <3>2 DEF InstallCleanup
  <2>2. CASE ProgramStep /\ ~InstallCleanup
    BY <2>2 DEF ProgramStep, RawOn, Save, SetRaw, Register, RawOff, Unsave, Sane, Exit, RtExit, At, state, IInv, TypeOK
  <2> QED BY <2>1, <2>2
<1>3. RawIsSaved' /\ AtPlace' /\ KilledRestored' /\ ExitRestored'
  <2> USE DEF IInv, TypeOK, RawIsSaved, AtPlace, KilledRestored, ExitRestored, At, Running, state
  <2>1. CASE RawOn
    BY <2>1 DEF RawOn
  <2>2. CASE Save
    BY <2>2 DEF Save
  <2>3. CASE SetRaw
    BY <2>3 DEF SetRaw
  <2>4. CASE InstallCleanup
    BY <2>4 DEF InstallCleanup
  <2>5. CASE Register
    BY <2>5 DEF Register
  <2>6. CASE RawOff
    BY <2>6 DEF RawOff
  <2>7. CASE Unsave
    BY <2>7 DEF Unsave
  <2>8. CASE Sane
    BY <2>8 DEF Sane
  <2>9. CASE Exit
    BY <2>9 DEF Exit
  <2>10. CASE RtExit
    BY <2>10 DEF RtExit
  <2> QED BY <2>1, <2>2, <2>3, <2>4, <2>5, <2>6, <2>7, <2>8, <2>9, <2>10 DEF ProgramStep
<1> QED BY <1>1, <1>2, <1>3 DEF IInv

LEMMA DeliverKeeps == ASSUME IInv, NEW s \in Sig, Deliver(s) PROVE IInv'
<1>1. CASE disp[s] = "ours"
  <2> DEFINE f == [sig |-> s, at |-> "restore"]
  <2>1. /\ frames' = <<f>> \o frames
        /\ disp' = [disp EXCEPT ![s] = "default"]
        /\ UNCHANGED <<mode, saved, prev, installed, made, onExit, pc, t, told, proc>>
    BY <1>1 DEF Deliver
  <2>2. /\ frames \in Seq(Frame) /\ f \in Frame
        /\ frames' \in Seq(Frame) /\ Len(frames') = Len(frames) + 1
        /\ frames'[1] = f
        /\ \A i \in 1..Len(frames) : frames'[i + 1] = frames[i]
    BY <2>1 DEF IInv, TypeOK, Frame
  <2> HIDE DEF f
  <2>3. TypeOK'
    BY <2>1, <2>2 DEF IInv, TypeOK
  <2>4. frames' # <<>>
    BY <2>2 DEF IInv, TypeOK
  <2>5. RawIsSaved' /\ AtPlace' /\ KilledRestored' /\ ExitRestored'
    BY <2>1, <2>4 DEF IInv, RawIsSaved, AtPlace, KilledRestored, ExitRestored
  <2>6. PastRestore'
    <3> SUFFICES ASSUME NEW i \in 1..Len(frames'), frames'[i].at # "restore" PROVE mode' # "raw"
      BY DEF PastRestore
    <3>1. i # 1
      BY <2>2 DEF f
    <3>2. i - 1 \in 1..Len(frames) /\ frames'[i] = frames[i - 1]
      BY <2>2, <3>1 DEF IInv, TypeOK
    <3> QED BY <2>1, <3>2 DEF IInv, PastRestore
  <2>7. ASSUME NEW r \in Sig, Caught(r) PROVE Caught(r)'
    <3>1. CASE r = s
      BY <2>2, <3>1 DEF Caught, f
    <3>2. CASE r # s /\ disp[r] = "ours"
      BY <2>1, <3>2 DEF Caught, IInv, TypeOK
    <3>3. CASE \E i \in 1..Len(frames) : frames[i].sig = r
      <4> PICK i \in 1..Len(frames) : frames[i].sig = r
        BY <3>3
      <4>1. i + 1 \in 1..Len(frames') /\ frames'[i + 1].sig = r
        BY <2>2 DEF IInv, TypeOK
      <4> QED BY <4>1 DEF Caught
    <3> QED BY <2>7, <3>1, <3>2, <3>3 DEF Caught
  <2>8. Ours'
    <3>1. \A r \in Sig : disp'[r] # "returns"
      BY <2>1 DEF IInv, TypeOK, Ours
    <3>2. ASSUME NEW i \in 1..made' PROVE Caught(Signals[i])'
      <4>1. Signals[i] \in Sig /\ Caught(Signals[i])
        BY <2>1, SignalIsSig, TtyAssumption DEF IInv, TypeOK, Ours
      <4> QED BY <4>1, <2>7
    <3> QED BY <2>1, <3>1, <3>2 DEF Ours, IInv
  <2> QED BY <2>3, <2>5, <2>6, <2>8 DEF IInv
<1>2. CASE disp[s] = "default"
  <2>1. /\ proc' = "killed"
        /\ UNCHANGED <<mode, saved, prev, installed, made, onExit, disp, pc, t, frames, told>>
    BY <1>2 DEF Deliver
  <2>2. ~installed
    <3> SUFFICES ASSUME installed PROVE FALSE
      OBVIOUS
    <3>1. PICK i \in 1..Len(Signals) : Signals[i] = s
      BY SigIsSignal
    <3>2. Caught(s)
      BY <3>1 DEF IInv, Ours
    <3> QED BY <3>2, <1>2, TtyAssumption DEF Caught, Deliver, IInv, TypeOK
  <2> QED BY <2>1, <2>2 DEF IInv, TypeOK, RawIsSaved, AtPlace, PastRestore, Ours, Caught, KilledRestored, ExitRestored
<1> QED BY <1>1, <1>2 DEF Deliver

LEMMA HandlerKeeps == AllFatal /\ IInv /\ (HandlerRestore \/ HandlerChain) => IInv'
<1> SUFFICES ASSUME AllFatal, IInv, HandlerRestore \/ HandlerChain PROVE IInv'
  OBVIOUS
<1>1. /\ frames \in Seq(Frame) /\ frames # <<>> /\ Len(frames) >= 1 /\ 1 \in 1..Len(frames)
      /\ frames[1] \in Frame
  BY DEF IInv, TypeOK, HandlerRestore, HandlerChain, InHandler
<1>2. CASE HandlerRestore
  <2>1. PICK l \in {"unsave", "chain"} : frames' = [frames EXCEPT ![1].at = l]
    BY <1>2 DEF HandlerRestore, HandlerTo
  <2>2. /\ frames' \in Seq(Frame) /\ Len(frames') = Len(frames)
        /\ \A i \in 1..Len(frames) : frames'[i].sig = frames[i].sig
    BY <1>1, <2>1 DEF Frame
  <2>3. mode' # "raw" /\ UNCHANGED <<prev, installed, made, onExit, disp, pc, t, told, proc>>
    BY <1>1, <1>2 DEF HandlerRestore, InHandler, Top, IInv, RawIsSaved, PastRestore
  <2>4. TypeOK'
    <3>1. mode' \in {"user", "raw", "sane"} /\ saved' \in BOOLEAN
      BY <1>2 DEF HandlerRestore, IInv, TypeOK
    <3> QED BY <2>2, <2>3, <3>1 DEF IInv, TypeOK
  <2>5. frames' # <<>>
    BY <1>1, <2>2
  <2>6. (saved' => saved) /\ proc = "running"
    BY <1>2 DEF HandlerRestore, InHandler
  <2>7. RawIsSaved' /\ AtPlace' /\ PastRestore' /\ KilledRestored' /\ ExitRestored'
    BY <2>3, <2>5, <2>6 DEF IInv, RawIsSaved, AtPlace, PastRestore, KilledRestored, ExitRestored
  <2>8. Ours'
    BY <2>2, <2>3 DEF IInv, Ours, Caught
  <2> QED BY <2>4, <2>7, <2>8 DEF IInv
<1>3. CASE HandlerChain
  <2>1. frames[1].sig \in Sig /\ Old[frames[1].sig] = "default"
    BY <1>1 DEF AllFatal, Frame
  <2>2. /\ disp' = [disp EXCEPT ![frames[1].sig] = "default"]
        /\ proc' = "killed" /\ frames[1].at = "chain"
        /\ UNCHANGED <<mode, saved, prev, installed, made, onExit, pc, t, frames, told>>
    BY <1>3, <2>1 DEF HandlerChain, InHandler, Top
  <2>3. mode # "raw"
    BY <1>1, <2>2 DEF IInv, PastRestore
  <2>4. TypeOK'
    BY <2>1, <2>2 DEF IInv, TypeOK
  <2>5. RawIsSaved' /\ AtPlace' /\ PastRestore' /\ KilledRestored' /\ ExitRestored'
    BY <2>2, <2>3 DEF IInv, RawIsSaved, AtPlace, PastRestore, KilledRestored, ExitRestored
  <2>6. ASSUME NEW s \in Sig, Caught(s) PROVE Caught(s)'
    BY <1>1, <2>1, <2>2, <2>6 DEF Caught, IInv, TypeOK
  <2>7. Ours'
    <3>1. \A r \in Sig : disp'[r] # "returns"
      BY <2>1, <2>2 DEF IInv, TypeOK, Ours
    <3>2. ASSUME NEW i \in 1..made' PROVE Caught(Signals[i])'
      <4>1. Signals[i] \in Sig /\ Caught(Signals[i])
        BY <2>2, SignalIsSig, TtyAssumption DEF IInv, TypeOK, Ours
      <4> QED BY <4>1, <2>6
    <3> QED BY <2>2, <3>1, <3>2 DEF Ours, IInv
  <2> QED BY <2>4, <2>5, <2>7 DEF IInv
<1> QED BY <1>2, <1>3

LEMMA IInvNext == AllFatal /\ IInv /\ [Next]_vars => IInv'
<1> SUFFICES ASSUME AllFatal, IInv, [Next]_vars PROVE IInv'
  OBVIOUS
<1>1. CASE ProgramStep
  BY <1>1, ProgramKeeps
<1>2. ASSUME NEW s \in Sig, Deliver(s) PROVE IInv'
  BY <1>2, DeliverKeeps
<1>3. CASE HandlerRestore \/ HandlerChain
  BY <1>3, HandlerKeeps
<1>4. CASE UNCHANGED vars
  BY <1>4 DEF vars, IInv, TypeOK, RawIsSaved, AtPlace, PastRestore, Ours, Caught, KilledRestored, ExitRestored, Running
<1> QED BY <1>1, <1>2, <1>3, <1>4 DEF Next, ProgramStep

(* rt_tty_sig_restore: no fatal signal leaves a raw terminal once the      *)
(* handlers are installed.                                                 *)
THEOREM TtyKilledRestored == ASSUME AllFatal PROVE Spec => []KilledRestored
<1>1. IInv => KilledRestored
  BY DEF IInv
<1>2. Init => IInv
  BY IInvInit
<1>3. IInv /\ [Next]_vars => IInv'
  BY IInvNext
<1> QED BY <1>1, <1>2, <1>3, PTL DEF Spec

(* rt_tty_atexit_restore: main's return leaves no raw terminal. *)
THEOREM TtyExitRestored == ASSUME AllFatal PROVE Spec => []ExitRestored
<1>1. IInv => ExitRestored
  BY DEF IInv
<1>2. Init => IInv
  BY IInvInit
<1>3. IInv /\ [Next]_vars => IInv'
  BY IInvNext
<1> QED BY <1>1, <1>2, <1>3, PTL DEF Spec

(* rt_tty_raw(0) that returned 0 has restored the terminal. *)
THEOREM TtyCookedAgain == ASSUME AllFatal PROVE Spec => []CookedAgain
<1>1. IInv => CookedAgain
  BY DEF IInv, AtPlace, CookedAgain, Running
<1>2. Init => IInv
  BY IInvInit
<1>3. IInv /\ [Next]_vars => IInv'
  BY IInvNext
<1> QED BY <1>1, <1>2, <1>3, PTL DEF Spec
=============================================================================
