---------------------------- MODULE CompileCache ----------------------------
(***************************************************************************)
(* The caches a run of the compiler reads and writes (src/wire/pipe/init.c *)
(* and cache.c, src/wire/cache.c): the standard library as source and as   *)
(* bitcode, the JIT's bitcode and shared object, and finished executables. *)
(* Compilers that run at the same time share the cache directory and       *)
(* nothing else: no lock guards it.  A file has two blocks, written one    *)
(* after the other; the first holds the header that is checked.  A name    *)
(* stands for an inode, so that a file may be replaced or removed while    *)
(* another compiler has it open.  A compiler may be killed at any step, a  *)
(* write may find the disk full, and a power failure may leave empty what  *)
(* was written, since nothing is ever synced.                              *)
(***************************************************************************)
EXTENDS Integers, FiniteSets, FiniteSetsExt

CONSTANTS
  Scenes,  \* what runs: programs, caches in use, faults (see MCCompileCache)
  Inodes   \* as many files as are ever open or named at once

VARIABLES
  scene,   \* the scene of this behaviour
  dir,     \* name -> inode
  file,    \* inode -> its blocks, its mode and what it was made from
  proc,    \* compiler -> its state
  kills, losses

vars == <<scene, dir, file, proc, kills, losses>>

None == 0
Programs == [id : Int, entry : STRING, goal : {"jit", "aot"}]

(* What the source, the --entry-name and the kind of output give; which of *)
(* the caches the options and variables switch on; whether the source of   *)
(* the standard library is found (src) and whether the library links to    *)
(* others (libs); what may go wrong.                                       *)
ASSUME CacheAssumption ==
  /\ None \notin Inodes
  /\ \A s \in Scenes :
       /\ \A c \in DOMAIN s.progs : s.progs[c] \in Programs
       /\ s.kills \in Nat /\ s.losses \in Nat
       /\ {s.seq, s.full, s.preverify, s.src, s.libs} \subseteq BOOLEAN

Blocks == {1, 2}
Kinds == {"std", "bc", "bc.libs", "jit", "so", "so.o", "so.tmp", "so.libs", "aot"}

Compilers == DOMAIN scene.progs
me(c) == scene.progs[c]
Use(kind) == kind \in scene.caches

(* The standard library's entries are found by the imports, which all the  *)
(* programs share; the others by the program's source.                     *)
SharedKinds == {"std", "bc", "bc.libs"}
Name(c, kind) == <<kind, IF kind \in SharedKinds THEN 0 ELSE me(c).id>>
Names == {Name(c, kind) : c \in Compilers, kind \in Kinds}

Exists(n) == dir[n] # None
HasHeader(n) == 1 \in file[dir[n]].blocks
Whole(n) == Exists(n) /\ file[dir[n]].blocks = Blocks

Idle == {"new", "ok", "failed", "killed"}
Running(c) == proc[c].pc \notin Idle

(* What a compile of one's own makes, and what a file yields to its reader *)
Own(c) == [prog |-> me(c).id, entry |-> me(c).entry, good |-> proc[c].std = Blocks, libs |-> TRUE]
Yield(i) == [file[i].made EXCEPT !.good = @ /\ file[i].blocks = Blocks]

NoMade == [prog |-> 0, entry |-> "none", good |-> FALSE, libs |-> FALSE]
Start(pc) ==
  [pc |-> pc, then |-> "none", name |-> <<"std", 0>>, ino |-> None, left |-> 1, got |-> {},
   bc |-> FALSE, needLinks |-> FALSE, links |-> TRUE, saved |-> FALSE, std |-> {}, out |-> NoMade]

Init ==
  /\ scene \in Scenes
  /\ dir = [n \in Names |-> None]
  /\ file = [i \in Inodes |-> [blocks |-> {}, exec |-> FALSE, made |-> NoMade]]
  /\ proc = [c \in DOMAIN scene.progs |-> Start("new")]
  /\ kills = 0 /\ losses = 0

-----------------------------------------------------------------------------
(* The stages of a compile, in their order, and which of them have         *)
(* anything to do: ny_should_use_* and the NYTRIX_*_CACHE variables.       *)
Order == <<"bcProbe", "stdProbe", "stdBuild", "stdSave", "early", "aotProbe", "native", "jitLoad",
           "compile", "bcSave", "nativeSave", "jitSave", "bcAgain", "aotSave", "finish">>

Native(c) == me(c).goal = "jit" /\ Use("so")
InUse(c, stage) ==
  /\ stage \in {"bcProbe", "bcSave", "bcAgain"} => Use("bc")
  /\ stage \in {"stdProbe", "stdSave"} => Use("std")
  /\ stage \in {"early", "native", "nativeSave"} => Native(c)
  /\ stage \in {"aotProbe", "aotSave"} => me(c).goal = "aot" /\ Use("aot")
  /\ stage \in {"jitLoad", "jitSave"} => Use("jit")

Enter(c, stage) ==
  LET from == CHOOSE k \in DOMAIN Order : Order[k] = stage
  IN  Order[Min({k \in DOMAIN Order : k >= from /\ InUse(c, Order[k])})]

-----------------------------------------------------------------------------
(* The file system *)

Set(c, state) == proc' = [proc EXCEPT ![c] = state]
At(c, label) == [proc[c] EXCEPT !.pc = label]
Left(c, label) == [proc[c] EXCEPT !.pc = label, !.ino = None]   \* its file is closed
Goto(c, label) == Set(c, At(c, label)) /\ UNCHANGED <<dir, file>>
End(c, how) == proc' = [proc EXCEPT ![c] = [Start(how) EXCEPT !.out = proc[c].out]]
Fail(c) == End(c, "failed")

Unlink(ns) == dir' = [n \in Names |-> IF n \in ns THEN None ELSE dir[n]] /\ UNCHANGED file
Discard(c, kinds, label) == Unlink({Name(c, kind) : kind \in kinds}) /\ Set(c, At(c, label))

Held == {dir[n] : n \in Names} \cup {proc[c].ino : c \in Compilers}
Unused == Inodes \ Held
Fresh == CHOOSE i \in Unused : TRUE

(* A file is opened to be written; the label is where its writer goes on. *)
Opened(c, kind, i, label) ==
  Set(c, [At(c, "write") EXCEPT !.then = label, !.name = Name(c, kind), !.ino = i, !.left = 1])

(* What goes into a file.  The JIT's bitcode does not say which libraries  *)
(* the standard library's bitcode needs.                                   *)
Made(c, kind) ==
  [(IF proc[c].out = NoMade THEN Own(c) ELSE proc[c].out)
     EXCEPT !.libs = @ /\ ~(kind = "jit" /\ proc[c].bc)]
New(c, kind) == [blocks |-> {}, exec |-> FALSE, made |-> Made(c, kind)]

(* fopen(name, "w"): an existing file is cut to nothing and keeps its mode *)
OpenInPlace(c, kind, label) ==
  LET n == Name(c, kind)
      i == IF Exists(n) THEN dir[n] ELSE Fresh
  IN
  /\ Exists(n) \/ Unused # {}
  /\ Opened(c, kind, i, label)
  /\ file' = [file EXCEPT ![i] = [New(c, kind) EXCEPT !.exec = Exists(n) /\ file[i].exec]]
  /\ dir' = [dir EXCEPT ![n] = i]

(* A temporary file of one's own: mkstemp, or a name with the process id *)
OpenTemp(c, kind, label) ==
  /\ Unused # {}
  /\ Opened(c, kind, Fresh, label)
  /\ file' = [file EXCEPT ![Fresh] = New(c, kind)]
  /\ UNCHANGED dir

Writing(c, kinds) == proc[c].pc = "write" /\ proc[c].name[1] \in kinds
Renamed == {"std", "bc", "bc.libs", "jit"}           \* written to a temporary file
InPlace == {"so.o", "so.tmp", "so.libs", "aot"}      \* written under their own name

WriteBlock(c) ==
  /\ Writing(c, Kinds) /\ proc[c].left \in Blocks
  /\ file' = [file EXCEPT ![proc[c].ino].blocks = @ \cup {proc[c].left}]
  /\ Set(c, [proc[c] EXCEPT !.left = proc[c].left + 1])
  /\ UNCHANGED dir

(* The disk is full: a temporary file and an object are removed.  Bitcode  *)
(* that could not be written is printed, parsed and written once more to   *)
(* the same temporary name, which nobody else sees: here both attempts     *)
(* fail.  An LLVM that ends the compiler instead is a Kill.                *)
WriteFails(c) ==
  /\ scene.full /\ proc[c].left \in Blocks
  /\ \/ Writing(c, Renamed) /\ Set(c, Left(c, proc[c].then)) /\ UNCHANGED dir
     \/ /\ Writing(c, {"so.o", "so.tmp"})
        /\ Set(c, Left(c, Enter(c, "jitSave")))
        /\ dir' = [n \in Names |-> IF n \in {Name(c, "so.o"), proc[c].name} THEN None ELSE dir[n]]
     \/ Writing(c, {"aot"}) /\ Set(c, Left(c, "finish")) /\ UNCHANGED dir
     \/ /\ Writing(c, {"aot", "so.libs"})                    \* fclose is not asked
        /\ Set(c, [proc[c] EXCEPT !.left = 3]) /\ UNCHANGED dir
  /\ UNCHANGED file

(* fclose and rename, in ny_write_file_atomic and ny_jit_cache_save *)
Rename(c) ==
  /\ Writing(c, Renamed) /\ proc[c].left \notin Blocks
  /\ dir' = [dir EXCEPT ![proc[c].name] = proc[c].ino]
  /\ Set(c, [Left(c, proc[c].then) EXCEPT !.saved = proc[c].saved \/ Writing(c, {"bc"})])
  /\ UNCHANGED file

Close(c) ==
  /\ Writing(c, InPlace) /\ proc[c].left \notin Blocks
  /\ Set(c, Left(c, proc[c].then))
  /\ UNCHANGED <<dir, file>>

-----------------------------------------------------------------------------
(* ny_pipeline_load_stdlib *)

Begin(c) ==
  /\ proc[c].pc = "new"
  /\ scene.seq => \A d \in Compilers : ~Running(d)
  /\ Goto(c, Enter(c, "bcProbe"))

(* Fault: the list of libraries is not asked for *)
BcProbeTrusts(c) ==
  /\ proc[c].pc = "bcProbe"
  /\ Set(c, [At(c, Enter(c, "stdProbe")) EXCEPT !.bc = Exists(Name(c, "bc"))])
  /\ UNCHANGED <<dir, file>>

(* The automatic bitcode cache.  An executable needs the libraries the     *)
(* standard library links to, which stand in a file of their own.          *)
BcProbe(c) ==
  LET bc == Name(c, "bc")
      next == Enter(c, "stdProbe")
      missing == me(c).goal = "aot" /\ ~Exists(Name(c, "bc.libs"))
  IN
  /\ proc[c].pc = "bcProbe"
  /\ \/ ~Exists(bc) /\ Goto(c, next)
     \/ Exists(bc) /\ scene.preverify /\ ~Whole(bc) /\ Discard(c, {"bc"}, next)
     \/ /\ Exists(bc) /\ (scene.preverify => Whole(bc))
        /\ Set(c, [At(c, next) EXCEPT !.bc = ~missing, !.needLinks = missing])
        /\ UNCHANGED <<dir, file>>

(* The source cache: an entry without its header is removed *)
StdProbe(c) ==
  LET std == Name(c, "std") IN
  /\ proc[c].pc = "stdProbe"
  /\ \/ ~Exists(std) /\ Goto(c, "stdBuild")
     \/ Exists(std) /\ ~HasHeader(std) /\ Goto(c, "stdDrop")
     \/ /\ Exists(std) /\ HasHeader(std)
        /\ Set(c, [At(c, Enter(c, "early")) EXCEPT !.std = file[dir[std]].blocks])
        /\ UNCHANGED <<dir, file>>

StdDrop(c) == proc[c].pc = "stdDrop" /\ Discard(c, {"std"}, "stdBuild")

(* ny_build_std_source (StdBundle), whose result is then saved; without    *)
(* one the compile ends.                                                   *)
StdBuild(c) ==
  /\ proc[c].pc = "stdBuild"
  /\ \/ scene.src /\ Set(c, [At(c, Enter(c, "stdSave")) EXCEPT !.std = Blocks])
     \/ ~scene.src /\ Fail(c)
  /\ UNCHANGED <<dir, file>>

StdSave(c) == proc[c].pc = "stdSave" /\ OpenTemp(c, "std", Enter(c, "early"))

-----------------------------------------------------------------------------
(* ny_jit_native_cache_load, tried before and after the source is parsed *)

NativeProbe(c) ==
  LET next == Enter(c, IF proc[c].pc = "early" THEN "aotProbe" ELSE "jitLoad") IN
  /\ proc[c].pc \in {"early", "native"}
  /\ \/ ~Exists(Name(c, "so")) /\ Goto(c, next)
     \/ /\ Exists(Name(c, "so"))
        /\ Set(c, [At(c, "dlopen") EXCEPT !.then = next, !.links = ~scene.libs \/ Whole(Name(c, "so.libs"))])
        /\ UNCHANGED <<dir, file>>

(* A library that is not whole is refused, and left where it is. *)
NativeOpen(c) ==
  LET so == Name(c, "so") IN
  /\ proc[c].pc = "dlopen"
  /\ IF Whole(so) /\ file[dir[so]].made.entry = "top"
     THEN /\ Set(c, [At(c, "finish") EXCEPT !.out = [Yield(dir[so]) EXCEPT !.libs = proc[c].links]])
          /\ UNCHANGED <<dir, file>>
     ELSE Goto(c, proc[c].then)

(* The finished executable, copied block by block once it looks valid.     *)
(* The tests and the opening of the copy are one step: the entry changes   *)
(* between them only when compilers overlap, and then in the copy too.     *)
AotProbe(c) ==
  LET aot == Name(c, "aot")
      valid == HasHeader(aot) /\ file[dir[aot]].exec
  IN
  /\ proc[c].pc = "aotProbe"
  /\ \/ ~Exists(aot) /\ Goto(c, Enter(c, "native"))
     \/ Exists(aot) /\ ~valid /\ Goto(c, "aotDrop")
     \/ /\ Exists(aot) /\ valid
        /\ Set(c, [At(c, "copy") EXCEPT !.ino = dir[aot], !.left = 1, !.got = {}])
        /\ UNCHANGED <<dir, file>>

AotDrop(c) == proc[c].pc = "aotDrop" /\ Discard(c, {"aot"}, Enter(c, "native"))

CopyBlock(c) ==
  /\ proc[c].pc = "copy" /\ proc[c].left \in Blocks
  /\ Set(c, [proc[c] EXCEPT !.got = proc[c].got \cup (file[proc[c].ino].blocks \cap {proc[c].left}),
             !.left = proc[c].left + 1])
  /\ UNCHANGED <<dir, file>>

Copied(c) ==
  /\ proc[c].pc = "copy" /\ proc[c].left \notin Blocks
  /\ IF 1 \in proc[c].got
     THEN Set(c, [Left(c, "finish") EXCEPT
                  !.out = [file[proc[c].ino].made EXCEPT !.good = @ /\ proc[c].got = Blocks]])
     ELSE Set(c, Left(c, Enter(c, "native")))
  /\ UNCHANGED <<dir, file>>

(* ny_jit_cache_load; a module with an entry of another name is no hit *)
JitLoad(c) ==
  LET jit == Name(c, "jit")
      top == Whole(jit) /\ file[dir[jit]].made.entry = "top"
  IN
  /\ proc[c].pc = "jitLoad"
  /\ \/ Exists(jit) /\ ~Whole(jit) /\ Goto(c, "jitDrop")
     \/ (~Exists(jit) \/ (Whole(jit) /\ ~top)) /\ Goto(c, "compile")
     \/ /\ top
        /\ Set(c, [At(c, Enter(c, "aotSave")) EXCEPT !.out = Yield(dir[jit])])
        /\ UNCHANGED <<dir, file>>

JitDrop(c) == proc[c].pc = "jitDrop" /\ Discard(c, {"jit"}, "compile")

-----------------------------------------------------------------------------
(* A compile of one's own *)

Compile(c) ==
  /\ proc[c].pc = "compile"
  /\ IF proc[c].bc
     THEN Set(c, [At(c, "link") EXCEPT !.links = Whole(Name(c, "bc.libs"))])
     ELSE Set(c, [At(c, Enter(c, "bcSave")) EXCEPT !.out = Own(c)])
  /\ UNCHANGED <<dir, file>>

(* Fault: what cannot be linked stays in the cache *)
LinkKeeps(c) ==
  LET bc == Name(c, "bc") IN
  /\ proc[c].pc = "link"
  /\ \/ ~Whole(bc) /\ Fail(c) /\ UNCHANGED <<dir, file>>
     \/ /\ Whole(bc)
        /\ Set(c, [At(c, Enter(c, "nativeSave")) EXCEPT !.out = [Own(c) EXCEPT !.libs = proc[c].links]])
        /\ UNCHANGED <<dir, file>>

(* ny_link_module_cache, then codegen_emit_script: a function that has the *)
(* entry's name is taken for it.  There is no second way when the entry    *)
(* seen by BcProbe is gone, cut short or does not link: the compile fails. *)
Link(c) ==
  LET bc == Name(c, "bc") IN
  /\ proc[c].pc = "link"
  /\ \/ ~Exists(bc) /\ Fail(c) /\ UNCHANGED <<dir, file>>
     \/ Exists(bc) /\ ~Whole(bc) /\ Fail(c) /\ Unlink({bc})
     \/ Whole(bc) /\ Fail(c) /\ Unlink({bc})                                      \* names clash
     \/ /\ Whole(bc)
        /\ LET made == file[dir[bc]].made IN
           Set(c, [At(c, Enter(c, "nativeSave")) EXCEPT
                   !.out = [Own(c) EXCEPT !.prog = IF me(c).entry = made.entry THEN made.prog ELSE @,
                                          !.good = @ /\ made.good,
                                          !.libs = proc[c].links]])
        /\ UNCHANGED <<dir, file>>

AfterBc(c) == IF proc[c].pc \in {"bcSave", "bcDrop", "bcLibs"} THEN "nativeSave" ELSE "aotSave"

(* The bitcode cache is saved before the module is optimised and, if that  *)
(* failed, once more at the end.  A module that holds _ny_top_entry is not *)
(* for the cache: the entry is removed instead.                            *)
BcSave(c) ==
  LET bc == Name(c, "bc")
      again == proc[c].pc = "bcAgain"
      done == proc[c].bc \/ (again /\ proc[c].saved)
      libs == IF again THEN "bcLibsAgain" ELSE "bcLibs"
      needLinks == proc[c].needLinks \/ ~Exists(Name(c, "bc.libs")) \/ (again /\ ~Exists(bc))
  IN
  /\ proc[c].pc \in {"bcSave", "bcAgain"}
  /\ \/ done /\ Goto(c, Enter(c, AfterBc(c)))
     \/ /\ ~done /\ Exists(bc)
        /\ Set(c, [At(c, libs) EXCEPT !.saved = TRUE, !.needLinks = needLinks])
        /\ UNCHANGED <<dir, file>>
     \/ /\ ~done /\ ~Exists(bc) /\ me(c).entry = "top"
        /\ Goto(c, IF again THEN "bcDropAgain" ELSE "bcDrop")
     \/ /\ ~done /\ ~Exists(bc) /\ me(c).entry # "top" /\ Unused # {}
        /\ Set(c, [At(c, "write") EXCEPT !.then = libs, !.name = bc, !.ino = Fresh, !.left = 1,
                                         !.needLinks = needLinks])
        /\ file' = [file EXCEPT ![Fresh] = New(c, "bc")]
        /\ UNCHANGED dir

BcDrop(c) == proc[c].pc \in {"bcDrop", "bcDropAgain"} /\ Discard(c, {"bc"}, Enter(c, AfterBc(c)))

(* ny_std_bc_cache_save_links, when the bitcode is there *)
BcLibs(c) ==
  LET next == Enter(c, AfterBc(c)) IN
  /\ proc[c].pc \in {"bcLibs", "bcLibsAgain"}
  /\ IF proc[c].saved /\ proc[c].needLinks THEN OpenTemp(c, "bc.libs", next) ELSE Goto(c, next)

-----------------------------------------------------------------------------
(* ny_jit_native_cache_save: an object, a link, a rename, the libraries.   *)
(* The names so.o and so.tmp are the same for every compiler.              *)

NativeSave(c) == proc[c].pc = "nativeSave" /\ OpenInPlace(c, "so.o", "ld")

(* ld reads its input, then writes a new file under the output's name *)
Ld(c) ==
  /\ proc[c].pc = "ld"
  /\ IF Whole(Name(c, "so.o"))
     THEN /\ Unused # {}
          /\ Opened(c, "so.tmp", Fresh, "ldDone")
          /\ file' = [file EXCEPT ![Fresh] =
                        [New(c, "so.tmp") EXCEPT !.made = file[dir[Name(c, "so.o")]].made]]
          /\ dir' = [dir EXCEPT ![Name(c, "so.tmp")] = Fresh]
     ELSE Discard(c, {"so.o", "so.tmp"}, Enter(c, "jitSave"))

(* Fault: the object is left when the link went well *)
LdDoneKeeps(c) == proc[c].pc = "ldDone" /\ Goto(c, "soRename")

LdDone(c) == proc[c].pc = "ldDone" /\ Discard(c, {"so.o"}, "soRename")

SoRename(c) ==
  LET tmp == Name(c, "so.tmp") IN
  /\ proc[c].pc = "soRename"
  /\ IF Exists(tmp)
     THEN /\ dir' = [dir EXCEPT ![Name(c, "so")] = dir[tmp], ![tmp] = None]
          /\ Set(c, At(c, "soLibs"))
          /\ UNCHANGED file
     ELSE Goto(c, Enter(c, "jitSave"))

(* Written only if there are any *)
SoLibs(c) ==
  /\ proc[c].pc = "soLibs"
  /\ \/ scene.libs /\ OpenInPlace(c, "so.libs", Enter(c, "jitSave"))
     \/ ~scene.libs /\ Goto(c, Enter(c, "jitSave"))

JitSave(c) == proc[c].pc = "jitSave" /\ OpenTemp(c, "jit", Enter(c, "bcAgain"))

(* The executable is linked and copied into the cache by ny_copy_file,     *)
(* whose last act is to give the name the executable's mode.               *)
AotSave(c) == proc[c].pc = "aotSave" /\ OpenInPlace(c, "aot", "chmod")

Chmod(c) ==
  LET aot == Name(c, "aot") IN
  /\ proc[c].pc = "chmod"
  /\ file' = [i \in Inodes |-> IF i = dir[aot] THEN [file[i] EXCEPT !.exec = TRUE] ELSE file[i]]
  /\ Set(c, At(c, "finish"))
  /\ UNCHANGED dir

Finish(c) == proc[c].pc = "finish" /\ End(c, "ok") /\ UNCHANGED <<dir, file>>

(* Whoever ran the compiler runs it again after it failed. *)
Retry(c) == proc[c].pc = "failed" /\ proc' = [proc EXCEPT ![c] = Start("new")] /\ UNCHANGED <<dir, file>>

-----------------------------------------------------------------------------
(* Faults *)

Kill(c) ==
  /\ Running(c) /\ kills < scene.kills
  /\ kills' = kills + 1
  /\ proc' = [proc EXCEPT ![c] = Start("killed")]
  /\ UNCHANGED <<scene, dir, file, losses>>

(* A power failure ends every compiler; files it had written may be empty. *)
PowerLoss ==
  /\ losses < scene.losses
  /\ losses' = losses + 1
  /\ proc' = [c \in Compilers |-> IF Running(c) THEN Start("killed") ELSE proc[c]]
  /\ \E lost \in SUBSET {dir[n] : n \in {m \in Names : Exists(m)}} :
       file' = [i \in Inodes |-> IF i \in lost THEN [file[i] EXCEPT !.blocks = {}] ELSE file[i]]
  /\ UNCHANGED <<scene, dir, kills>>

Step(c) ==
  /\ \/ Begin(c) \/ BcProbe(c) \/ StdProbe(c) \/ StdDrop(c) \/ StdBuild(c) \/ StdSave(c)
     \/ NativeProbe(c) \/ NativeOpen(c) \/ AotProbe(c) \/ AotDrop(c) \/ CopyBlock(c) \/ Copied(c)
     \/ JitLoad(c) \/ JitDrop(c) \/ Compile(c) \/ Link(c) \/ BcSave(c) \/ BcDrop(c) \/ BcLibs(c)
     \/ NativeSave(c) \/ Ld(c) \/ LdDone(c) \/ SoRename(c) \/ SoLibs(c) \/ JitSave(c)
     \/ AotSave(c) \/ Chmod(c) \/ Finish(c) \/ Retry(c)
     \/ WriteBlock(c) \/ WriteFails(c) \/ Rename(c) \/ Close(c)
  /\ UNCHANGED <<scene, kills, losses>>

Next == PowerLoss \/ \E c \in Compilers : Step(c) \/ Kill(c)

(* Some compiler that can go on does: the failed ones are run again. *)
Spec == Init /\ [][Next]_vars /\ WF_vars(\E c \in Compilers : Step(c))

-----------------------------------------------------------------------------
(* Properties *)

(* A compile that ends well gives the program it was asked for, built on   *)
(* the whole standard library, whatever others did to the cache meanwhile  *)
(* and wherever they were killed.  Two cases are left out: executables     *)
(* when compilers overlap or the disk is full, since ny_copy_file cuts an  *)
(* entry that others may be reading; and a source that somebody compiles   *)
(* with --entry-name, since that compile may run the entry which another   *)
(* program left in the bitcode cache, and save it for this source.         *)
Transparent ==
  \A c \in Compilers :
    /\ proc[c].pc = "ok"
    /\ Use("aot") => scene.seq /\ ~scene.full
    /\ Use("bc") => \A d \in Compilers : me(d).id = me(c).id => me(d).entry = "top"
    => proc[c].out.prog = me(c).id /\ proc[c].out.good

(* An executable built on the library's bitcode is linked to the libraries *)
(* the library needs: BcProbe does not trust bitcode saved by a compiler   *)
(* that was killed before it saved their list.  This is not so when the    *)
(* executable is made from the JIT's bitcode (NYTRIX_AOT_IR_CACHE), which  *)
(* has no list.                                                            *)
LinksKnown ==
  \A c \in Compilers :
    proc[c].pc = "ok" /\ me(c).goal = "aot" /\ losses = 0 /\ ~(Use("bc") /\ Use("jit")) =>
      proc[c].out.libs

(* Compilers that overlap in every way, if none is killed and no write     *)
(* fails, leave whole entries and nothing else: what one writes into a     *)
(* file that another has cut, moved or removed is complete in the end.     *)
Settled ==
  (\A c \in Compilers : ~Running(c)) /\ kills = 0 /\ losses = 0 /\ ~scene.full =>
    \A n \in Names : Exists(n) =>
      /\ Whole(n) /\ file[dir[n]].made.good
      /\ n[1] \notin {"so.o", "so.tmp"}
      /\ n[1] = "aot" => file[dir[n]].exec
      /\ n[1] = "so" /\ scene.libs => Exists(<<"so.libs", n[2]>>)

(* Every compile that is not killed succeeds in the end, if it is run      *)
(* again each time it failed because of the cache: what could not be       *)
(* linked is removed, and nobody makes it fail for ever.                   *)
Served == scene.src => <>(\A c \in Compilers : proc[c].pc \in {"ok", "killed"})
=============================================================================
