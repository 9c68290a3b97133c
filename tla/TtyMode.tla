------------------------------- MODULE TtyMode -------------------------------
(***************************************************************************)
(* The terminal mode of os.c: rt_tty_raw saves the mode it finds and sets  *)
(* the raw one, and three parties put the saved mode back: rt_tty_raw(0),  *)
(* the atexit function and the signal handler, which may run between any   *)
(* two statements of the others and of itself (its mask is empty).         *)
(*                                                                         *)
(* The mode and the flag are saved in one step: the handler reads the mode *)
(* only once the flag is set.  tcsetattr may fail in rt_tty_raw, which     *)
(* tells its caller; the handler and the atexit function do not look, and  *)
(* the model lets theirs succeed.                                          *)
(*                                                                         *)
(* A mode is "user" (what the program found), "raw" or "sane" (what        *)
(* rt_tty_sane_fd sets).                                                   *)
(***************************************************************************)
EXTENDS Integers, Sequences

CONSTANTS
  Signals,  \* the signals of rt_tty_install_cleanup, in its order
  Old       \* what a signal did before: "default" ends the process, "returns" does not

Sig == {Signals[i] : i \in DOMAIN Signals}

ASSUME TtyAssumption == Signals \in Seq(Sig) /\ Old \in [Sig -> {"default", "returns"}]

VARIABLES
  mode,        \* the terminal's
  saved, prev, \* rt_tty_mode_saved, rt_tty_mode_prev
  installed,   \* rt_tty_sig_installed
  made,        \* handlers set by the first rt_tty_install_cleanup so far
  onExit,      \* rt_tty_atexit_registered
  disp,        \* signal -> "ours", or what it did before
  pc, t,       \* where the program is in rt_tty_raw, and the mode it read
  frames,      \* handlers entered and not left, the innermost first
  told,        \* the mode the program was last told it has
  proc         \* "running", "killed", "exited" by main's return, "_exited"

vars == <<mode, saved, prev, installed, made, onExit, disp, pc, t, frames, told, proc>>
state == <<mode, saved, prev, installed, made, onExit, disp>>

Init ==
  /\ mode = "user" /\ saved = FALSE /\ prev = "user"
  /\ installed = FALSE /\ made = 0 /\ onExit = FALSE
  /\ disp = Old
  /\ pc = "idle" /\ t = "user"
  /\ frames = <<>> /\ told = "cooked" /\ proc = "running"

(* The program runs: no handler is on top of it. *)
Running == proc = "running" /\ frames = <<>>

At(l) == Running /\ pc = l /\ UNCHANGED <<frames, proc>>

-----------------------------------------------------------------------------
(* rt_tty_raw(1) on a terminal whose mode can be read *)

RawOn ==
  /\ At("idle")
  /\ t' = mode /\ pc' = "save"
  /\ UNCHANGED <<state, told>>

(* Fault: the mode is saved on every call *)
SaveAlways ==
  /\ At("save")
  /\ prev' = t /\ saved' = TRUE
  /\ pc' = "set"
  /\ UNCHANGED <<mode, installed, made, onExit, disp, t, told>>

Save ==
  /\ At("save")
  /\ IF saved THEN UNCHANGED <<prev, saved>> ELSE prev' = t /\ saved' = TRUE
  /\ pc' = "set"
  /\ UNCHANGED <<mode, installed, made, onExit, disp, t, told>>

(* tcsetattr with the raw mode *)
SetRaw ==
  /\ At("set")
  /\ \/ mode' = "raw" /\ pc' = "install"
     \/ pc' = "idle" /\ UNCHANGED mode
  /\ UNCHANGED <<saved, prev, installed, made, onExit, disp, t, told>>

(* rt_tty_install_cleanup, one sigaction a step *)
InstallCleanup ==
  /\ At("install")
  /\ \/ installed /\ pc' = "register" /\ UNCHANGED <<disp, made, installed>>
     \/ /\ ~installed /\ made < Len(Signals)
        /\ disp' = [disp EXCEPT ![Signals[made + 1]] = "ours"]
        /\ made' = made + 1
        /\ UNCHANGED <<installed, pc>>
     \/ /\ ~installed /\ made = Len(Signals)
        /\ installed' = TRUE /\ pc' = "register"
        /\ UNCHANGED <<disp, made>>
  /\ UNCHANGED <<mode, saved, prev, onExit, t, told>>

Register ==
  /\ At("register")
  /\ onExit' = TRUE /\ told' = "raw" /\ pc' = "idle"
  /\ UNCHANGED <<mode, saved, prev, installed, made, disp, t>>

-----------------------------------------------------------------------------
(* rt_tty_raw(0), rt_tty_sane_fd *)

(* Fault: the saved mode is given up although it could not be set *)
RawOffForgets ==
  /\ At("idle")
  /\ \/ saved /\ mode' = prev /\ pc' = "unsave" /\ UNCHANGED saved
     \/ saved /\ saved' = FALSE /\ UNCHANGED <<mode, pc>>
     \/ ~saved /\ pc' = "unsave" /\ UNCHANGED <<mode, saved>>
  /\ UNCHANGED <<prev, installed, made, onExit, disp, t, told>>

RawOff ==
  /\ At("idle")
  /\ \/ saved /\ mode' = prev /\ pc' = "unsave"
     \/ saved /\ UNCHANGED <<mode, pc>>
     \/ ~saved /\ pc' = "unsave" /\ UNCHANGED mode
  /\ UNCHANGED <<saved, prev, installed, made, onExit, disp, t, told>>

Unsave ==
  /\ At("unsave")
  /\ saved' = FALSE /\ told' = "cooked" /\ pc' = "idle"
  /\ UNCHANGED <<mode, prev, installed, made, onExit, disp, t>>

Sane ==
  /\ At("idle")
  /\ mode' = "sane"
  /\ UNCHANGED <<saved, prev, installed, made, onExit, disp, pc, t, told>>

-----------------------------------------------------------------------------
(* Signals *)

(* A signal is blocked while its own handler runs. *)
Deliver(s) ==
  /\ proc = "running"
  /\ \A i \in DOMAIN frames : frames[i].sig # s
  /\ \/ /\ disp[s] = "ours"
        /\ frames' = <<[sig |-> s, at |-> "restore"]>> \o frames
        /\ disp' = [disp EXCEPT ![s] = "default"]
        /\ UNCHANGED proc
     \/ /\ disp[s] = "default"
        /\ proc' = "killed"
        /\ UNCHANGED <<frames, disp>>
  /\ UNCHANGED <<mode, saved, prev, installed, made, onExit, pc, t, told>>

Top == frames[1]
InHandler(l) == proc = "running" /\ frames # <<>> /\ Top.at = l
HandlerTo(l) == frames' = [frames EXCEPT ![1].at = l]

(* Fault: the flag is cleared before the terminal is restored *)
HandlerRestoreLate ==
  \/ /\ InHandler("restore")
     /\ saved' = FALSE
     /\ HandlerTo(IF saved THEN "unsave" ELSE "chain")
     /\ UNCHANGED <<mode, prev, installed, made, onExit, disp, pc, t, told, proc>>
  \/ /\ InHandler("unsave")
     /\ mode' = prev
     /\ HandlerTo("chain")
     /\ UNCHANGED <<saved, prev, installed, made, onExit, disp, pc, t, told, proc>>

(* rt_tty_sig_restore up to the write of the escape sequences *)
HandlerRestore ==
  \/ /\ InHandler("restore")
     /\ IF saved THEN mode' = prev ELSE UNCHANGED mode
     /\ HandlerTo(IF saved THEN "unsave" ELSE "chain")
     /\ UNCHANGED <<saved, prev, installed, made, onExit, disp, pc, t, told, proc>>
  \/ /\ InHandler("unsave")
     /\ saved' = FALSE
     /\ HandlerTo("chain")
     /\ UNCHANGED <<mode, prev, installed, made, onExit, disp, pc, t, told, proc>>

(* rt_tty_sig_restore: the old action back and the signal raised again; it *)
(* is blocked until the handler returns.                                   *)
HandlerChain ==
  /\ InHandler("chain")
  /\ disp' = [disp EXCEPT ![Top.sig] = Old[Top.sig]]
  /\ IF Old[Top.sig] = "default"
     THEN proc' = "killed" /\ UNCHANGED frames
     ELSE frames' = Tail(frames) /\ UNCHANGED proc
  /\ UNCHANGED <<mode, saved, prev, installed, made, onExit, pc, t, told>>

-----------------------------------------------------------------------------
(* The end *)

(* main returns: rt_tty_atexit_restore *)
Exit ==
  /\ Running /\ pc = "idle"
  /\ proc' = "exited"
  /\ IF onExit /\ saved THEN mode' = prev /\ saved' = FALSE ELSE UNCHANGED <<mode, saved>>
  /\ UNCHANGED <<prev, installed, made, onExit, disp, pc, t, frames, told>>

(* rt_exit ends with _exit: no atexit function runs *)
RtExit ==
  /\ Running /\ pc = "idle"
  /\ proc' = "_exited"
  /\ UNCHANGED <<state, pc, t, frames, told>>

Next ==
  \/ RawOn \/ Save \/ SetRaw \/ InstallCleanup \/ Register
  \/ RawOff \/ Unsave \/ Sane
  \/ \E s \in Sig : Deliver(s)
  \/ HandlerRestore \/ HandlerChain
  \/ Exit \/ RtExit

Spec == Init /\ [][Next]_vars

-----------------------------------------------------------------------------
(* Properties *)

Frame == [sig : Sig, at : {"restore", "unsave", "chain"}]

(* The variables hold what their comments say. *)
TypeOK ==
  /\ mode \in {"user", "raw", "sane"} /\ prev \in {"user", "raw", "sane"} /\ t \in {"user", "raw", "sane"}
  /\ saved \in BOOLEAN /\ installed \in BOOLEAN /\ onExit \in BOOLEAN
  /\ made \in 0..Len(Signals)
  /\ disp \in [Sig -> {"ours", "default", "returns"}]
  /\ pc \in {"idle", "save", "set", "install", "register", "unsave"}
  /\ frames \in Seq(Frame)
  /\ told \in {"cooked", "raw"}
  /\ proc \in {"running", "killed", "exited", "_exited"}

(* Once the handlers are installed, a signal that ends the process leaves  *)
(* no raw terminal behind, wherever it strikes: between any two statements *)
(* of rt_tty_raw, or inside the handler of another signal.                 *)
KilledRestored == proc = "killed" /\ installed => mode # "raw"

(* A program whose main returns leaves no raw terminal behind, also when   *)
(* an earlier attempt to restore it failed.                                *)
ExitRestored == proc = "exited" => mode # "raw"

(* rt_tty_raw(0) that returns 0 has restored the terminal, however often   *)
(* raw mode was entered before.                                            *)
CookedAgain == Running /\ pc = "idle" /\ told = "cooked" => mode # "raw"
==============================================================================
