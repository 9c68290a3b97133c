---------------------------- MODULE Compiler_proofs ----------------------------
(***************************************************************************)
(* Two parts of a compile.  First, the caches: whatever compilers that     *)
(* share the cache directory do to each other's files, a compile that ends *)
(* well gives its own program on a whole library, executables know their   *)
(* libraries, and compilers that are left alone leave whole entries, for   *)
(* any number of compilers, programs, kills and power failures.  Second,   *)
(* the standard library's loader: the modules ny_build_std_source_ex lists *)
(* are closed under what they use and export, for every import graph, and  *)
(* any number of threads makes a text of all of them.                      *)
(***************************************************************************)
EXTENDS CompileCache, StdBundle, FiniteSetTheorems, WellFoundedInduction, SequenceTheorems, TLAPS

(* The labels of a compile: the library is not there yet; the caches are   *)
(* asked; the compiler's own result is saved; it ends.                     *)
Ahead == {"bcProbe", "stdProbe", "stdDrop", "stdBuild"}
Asking == {"stdSave", "early", "dlopen", "aotProbe", "aotDrop", "copy", "native", "jitLoad", "jitDrop",
           "compile", "link"}
Saving == {"bcSave", "bcDrop", "bcLibs", "nativeSave", "ld", "ldDone", "soRename", "soLibs", "jitSave",
           "bcAgain", "bcDropAgain", "bcLibsAgain"}
Ending == {"aotSave", "chmod", "finish"}
Labels == Idle \cup Ahead \cup Asking \cup Saving \cup Ending \cup {"write"}
Written == Renamed \cup InPlace

MadeType == [prog : Int, entry : STRING \cup {"none"}, good : BOOLEAN, libs : BOOLEAN]
FileType == [blocks : SUBSET Blocks, exec : BOOLEAN, made : MadeType]
ProcType ==
  [pc : Labels, then : Labels \cup {"none"}, name : Kinds \X Int, ino : Inodes \cup {None},
   left : 1..3, got : SUBSET Blocks, bc : BOOLEAN, needLinks : BOOLEAN, links : BOOLEAN,
   saved : BOOLEAN, std : SUBSET Blocks, out : MadeType]

CacheType ==
  /\ scene \in Scenes /\ kills \in Nat /\ losses \in Nat
  /\ dir \in [Names -> Inodes \cup {None}]
  /\ file \in [Inodes -> FileType]
  /\ proc \in [Compilers -> ProcType]

(* One compiler by itself: what holds of compiler c when its state is p *)

Exe(c) == me(c).goal = "aot" /\ Use("aot")
Busy(p) == p.pc \notin Idle
Puts(p, kinds) == p.pc = "write" /\ p.name[1] \in kinds

(* Where a compiler goes on when it has written a file of a kind *)
Onward(kind, label) ==
  \/ kind = "std" /\ label \in {"early", "aotProbe", "native", "jitLoad", "compile"}
  \/ kind = "bc" /\ label \in {"bcLibs", "bcLibsAgain"}
  \/ kind = "bc.libs" /\ label \in {"nativeSave", "jitSave", "bcAgain", "aotSave", "finish"}
  \/ kind = "so.o" /\ label = "ld"
  \/ kind = "so.tmp" /\ label = "ldDone"
  \/ kind \in {"so.libs", "jit"} /\ label \in {"jitSave", "bcAgain", "aotSave", "finish"}
  \/ kind = "aot" /\ label = "chmod"

(* Which caches a label belongs to.  A compile for an executable asks the  *)
(* cache of executables before it goes on.                                 *)
Switched(c, label) ==
  /\ label \in {"early", "native", "dlopen"} => me(c).goal = "jit"
  /\ label \in {"aotProbe", "aotDrop", "copy", "aotSave", "chmod"} => Exe(c)
  /\ label = "bcProbe" => Use("bc")
  /\ label = "jitSave" => Use("jit")

Placed(c, p) ==
  /\ Switched(c, p.pc)
  /\ p.pc = "dlopen" => p.then \in {"aotProbe", "native", "jitLoad", "compile"} /\ Switched(c, p.then)
  /\ p.pc = "write" =>
       /\ p.name[1] \in Written /\ p.name = Name(c, p.name[1])
       /\ Onward(p.name[1], p.then) /\ Switched(c, p.then)
       /\ p.name[1] = "bc" => me(c).entry # "top"
       /\ p.name[1] = "std" /\ Exe(c) => p.then = "aotProbe"
  /\ p.ino # None <=> p.pc \in {"write", "copy"}
  /\ p.bc => Use("bc") /\ p.pc # "new"
  /\ p.pc = "link" => p.bc

(* The standard library is whole, from a file or built. *)
StdWhole(c, p) == Busy(p) /\ p.pc \notin Ahead => p.std = Blocks

(* A source nobody compiles with --entry-name *)
Plain(id) == Use("bc") => \A d \in Compilers : me(d).id = id => me(d).entry = "top"
MadeFor(id, m) == m.good /\ (Plain(id) => m.prog = id)
ListKept == losses = 0 /\ ~(Use("bc") /\ Use("jit"))
ExeSafe == Use("aot") => scene.seq /\ ~scene.full

HasNothing(p) == p.pc \in Ahead \cup Asking \cup {"new"} \/ Puts(p, {"std"})
HasOwn(p) == p.pc \in Saving \/ Puts(p, Written \ {"std", "aot"})
HasSome(p) == HasOwn(p) \/ p.pc \in {"aotSave", "chmod"} \/ Puts(p, {"aot"})

(* What it made, or took from a cache, is its program on a whole library. *)
Results(c, p) ==
  /\ HasNothing(p) => p.out = NoMade
  /\ HasOwn(p) => p.out.entry = me(c).entry /\ (ListKept /\ ~Use("bc") => p.out.libs)
  /\ HasSome(p) => /\ p.out # NoMade /\ MadeFor(me(c).id, p.out)
                   /\ ListKept /\ me(c).goal = "aot" => p.out.libs
  /\ p.pc \in {"finish", "ok"} => /\ ExeSafe => MadeFor(me(c).id, p.out)
                                  /\ ListKept /\ me(c).goal = "aot" => p.out.libs

Local(c, p) == Placed(c, p) /\ StdWhole(c, p) /\ Results(c, p)
LocalInv == \A c \in Compilers : Local(c, proc[c])

(* Names and inodes *)

(* No inode has two names. *)
OneName == \A n, m \in Names : Exists(n) /\ dir[n] = dir[m] => n = m

(* A temporary file belongs to its writer and has no name yet. *)
Private(c) ==
  Puts(proc[c], Renamed) =>
    /\ \A n \in Names : dir[n] # proc[c].ino
    /\ \A d \in Compilers \ {c} : proc[d].ino # proc[c].ino

(* What is written in place, or copied, keeps its kind. *)
Reach(c) ==
  \A n \in Names : proc[c].ino # None /\ dir[n] = proc[c].ino =>
    \/ proc[c].pc = "copy" /\ n = Name(c, "aot")
    \/ proc[c].pc = "write" /\ proc[c].name = n
    \/ Puts(proc[c], {"so.tmp"}) /\ n = Name(c, "so")

NameInv == OneName /\ \A c \in Compilers : Private(c) /\ Reach(c)

(* Files *)

(* What may have been made for a name, or for a file that will get it *)
GoodFor(n, m) ==
  /\ m.good
  /\ n[1] \notin SharedKinds => MadeFor(n[2], m)
  /\ n[1] = "bc" => m.entry # "top"
  /\ n[1] \in {"jit", "aot"} /\ ListKept => m.libs

EntriesGood == \A n \in Names : Exists(n) => GoodFor(n, file[dir[n]].made)

(* A renamed file is whole, or empty after a power failure. *)
RenamedWhole ==
  \A n \in Names : Exists(n) /\ n[1] \in Renamed =>
    file[dir[n]].blocks = Blocks \/ (losses > 0 /\ file[dir[n]].blocks = {})

TempGood(c) ==
  Puts(proc[c], Renamed) =>
    /\ GoodFor(proc[c].name, file[proc[c].ino].made)
    /\ \A b \in Blocks : b < proc[c].left => b \in file[proc[c].ino].blocks

(* The list of libraries is there for whoever relies on it. *)
ListThere(c) ==
  me(c).goal = "aot" =>
    /\ Busy(proc[c]) /\ proc[c].bc => Exists(Name(c, "bc.libs"))
    /\ proc[c].pc = "link" /\ losses = 0 => proc[c].links
    /\ proc[c].pc = "copy" /\ ListKept => file[proc[c].ino].made.libs

FileInv == EntriesGood /\ RenamedWhole /\ \A c \in Compilers : TempGood(c) /\ ListThere(c)

(* Executables, when compilers take turns and the disk is not full *)

Turns == scene.seq /\ ~scene.full
OneRuns == scene.seq => \A c, d \in Compilers : Busy(proc[c]) /\ Busy(proc[d]) => c = d
ExecWhole ==
  Turns => \A n \in Names : Exists(n) /\ n[1] = "aot" /\ file[dir[n]].exec =>
             file[dir[n]].blocks \in {{}, Blocks}

(* Beyond the cache of executables there is no entry for the program. *)
Past(p) ==
  \/ p.pc \in {"jitLoad", "jitDrop", "compile", "link", "aotSave"} \cup Saving
  \/ Puts(p, Written \ {"std", "aot"})
ExeStep(c) ==
  Turns /\ Exe(c) =>
    /\ Past(proc[c]) => ~Exists(Name(c, "aot"))
    /\ Puts(proc[c], {"aot"}) =>
         /\ dir[Name(c, "aot")] = proc[c].ino /\ ~file[proc[c].ino].exec
         /\ \A b \in Blocks : b < proc[c].left => b \in file[proc[c].ino].blocks
    /\ proc[c].pc = "chmod" => Whole(Name(c, "aot"))
    /\ proc[c].pc = "copy" =>
         /\ dir[Name(c, "aot")] = proc[c].ino /\ file[proc[c].ino].blocks = Blocks
         /\ \A b \in Blocks : b \in proc[c].got <=> b < proc[c].left

TurnInv == OneRuns /\ ExecWhole /\ \A c \in Compilers : ExeStep(c)

(* Who will finish what was begun, when nobody is killed and nothing fails *)

Calm == kills = 0 /\ losses = 0 /\ ~scene.full
Finisher(n, labels, kinds) ==
  \E d \in Compilers : me(d).id = n[2] /\ (proc[d].pc \in labels \/ Puts(proc[d], kinds))

Writer(i, b) == \E d \in Compilers : proc[d].pc = "write" /\ proc[d].ino = i /\ proc[d].left <= b

WillBeWhole == \A n \in Names, b \in Blocks : Exists(n) /\ b \notin file[dir[n]].blocks => Writer(dir[n], b)

Settles(n) ==
  /\ n[1] = "so.o" => Finisher(n, {"ld", "ldDone"}, {"so.o", "so.tmp"})
  /\ n[1] = "so.tmp" => Finisher(n, {"ldDone", "soRename"}, {"so.tmp"})
  /\ n[1] = "aot" => file[dir[n]].exec \/ Finisher(n, {"chmod"}, {"aot"})
  /\ n[1] = "so" /\ scene.libs => Exists(<<"so.libs", n[2]>>) \/ Finisher(n, {"soLibs"}, {})
WillSettle == \A n \in Names : Exists(n) => Settles(n)

SettleInv == Calm => WillBeWhole /\ WillSettle

CacheInv == CacheType /\ LocalInv /\ NameInv /\ FileInv /\ TurnInv /\ SettleInv

(* The fifteen stages, in their order *)
LEMMA OrderIs ==
  /\ DOMAIN Order = 1..15
  /\ Order[1] = "bcProbe" /\ Order[2] = "stdProbe" /\ Order[3] = "stdBuild" /\ Order[4] = "stdSave"
  /\ Order[5] = "early" /\ Order[6] = "aotProbe" /\ Order[7] = "native" /\ Order[8] = "jitLoad"
  /\ Order[9] = "compile" /\ Order[10] = "bcSave" /\ Order[11] = "nativeSave" /\ Order[12] = "jitSave"
  /\ Order[13] = "bcAgain" /\ Order[14] = "aotSave" /\ Order[15] = "finish"
BY DEF Order

(* No stage comes twice. *)
LEMMA OrderOnce == \A k, m \in 1..15 : Order[k] = Order[m] => k = m
BY SMTT(30), OrderIs

(* A set of places that has the last one has a first one. *)
LEMMA FirstPlace ==
  ASSUME NEW S \in SUBSET (1..15), 15 \in S
  PROVE  \E k \in S : \A m \in S : k <= m
BY SMTT(30)

(* Enter leads to the first stage from there on that has anything to do. *)
LEMMA EnterLater ==
  ASSUME NEW c, NEW f \in 1..15
  PROVE  \E k \in f..15 : /\ Enter(c, Order[f]) = Order[k] /\ InUse(c, Order[k])
                          /\ \A m \in f..15 : InUse(c, Order[m]) => k <= m
<1> DEFINE open == {k \in DOMAIN Order : k >= f /\ InUse(c, Order[k])}
<1>1. (CHOOSE k \in DOMAIN Order : Order[k] = Order[f]) = f
  BY OrderIs, OrderOnce
<1>2. InUse(c, Order[15])
  BY OrderIs DEF InUse
<1>3. open \in SUBSET (1..15) /\ 15 \in open
  BY <1>2, OrderIs
<1>4. \E k \in open : \A m \in open : k <= m
  BY <1>3, FirstPlace
<1>5. Min(open) \in open /\ \A m \in open : Min(open) <= m
  BY <1>4 DEF Min
<1>6. Enter(c, Order[f]) = Order[Min(open)]
  BY <1>1 DEF Enter
<1>7. PICK k : k = Min(open)
  OBVIOUS
<1>8. k \in open /\ (\A m \in open : k <= m) /\ Enter(c, Order[f]) = Order[k]
  BY <1>5, <1>6, <1>7
<1>9. k \in f..15 /\ InUse(c, Order[k])
  BY <1>8, OrderIs
<1>10. \A m \in f..15 : InUse(c, Order[m]) => m \in open
  BY OrderIs
<1> HIDE DEF open
<1> QED
  BY <1>8, <1>9, <1>10

(* Where each of the stages leads, and which caches are then in use *)
LEMMA EnterBcProbe ==
  ASSUME NEW c
  PROVE  /\ Enter(c, "bcProbe") \in {"bcProbe", "stdProbe", "stdBuild"}
         /\ Switched(c, Enter(c, "bcProbe"))
         /\ Enter(c, "bcProbe") = "bcProbe" => Use("bc")
<1>1. PICK k \in 1..15 : /\ Enter(c, "bcProbe") = Order[k] /\ InUse(c, Order[k])
                         /\ \A m \in 1..15 : InUse(c, Order[m]) => k <= m
  <2>1. Order[1] = "bcProbe"
    BY OrderIs
  <2> QED BY <2>1, EnterLater
<1>2. k <= 3
  BY <1>1, OrderIs DEF InUse
<1> QED BY <1>1, <1>2, OrderIs DEF InUse, Switched, Native, Exe

LEMMA EnterStdProbe ==
  ASSUME NEW c
  PROVE  /\ Enter(c, "stdProbe") \in {"stdProbe", "stdBuild"}
         /\ Switched(c, Enter(c, "stdProbe"))
<1>1. PICK k \in 2..15 : /\ Enter(c, "stdProbe") = Order[k] /\ InUse(c, Order[k])
                         /\ \A m \in 2..15 : InUse(c, Order[m]) => k <= m
  <2>1. Order[2] = "stdProbe"
    BY OrderIs
  <2> QED BY <2>1, EnterLater
<1>2. k <= 3
  BY <1>1, OrderIs DEF InUse
<1> QED BY <1>1, <1>2, OrderIs DEF InUse, Switched, Native, Exe

LEMMA EnterStdSave ==
  ASSUME NEW c
  PROVE  /\ Enter(c, "stdSave") \in {"stdSave", "early", "aotProbe", "native", "jitLoad", "compile"}
         /\ Switched(c, Enter(c, "stdSave"))
         /\ Exe(c) => Enter(c, "stdSave") \in {"stdSave", "aotProbe"}
<1>1. PICK k \in 4..15 : /\ Enter(c, "stdSave") = Order[k] /\ InUse(c, Order[k])
                         /\ \A m \in 4..15 : InUse(c, Order[m]) => k <= m
  <2>1. Order[4] = "stdSave"
    BY OrderIs
  <2> QED BY <2>1, EnterLater
<1>2. k <= 9
  BY <1>1, OrderIs DEF InUse
<1> QED BY <1>1, <1>2, OrderIs DEF InUse, Switched, Native, Exe

LEMMA EnterEarly ==
  ASSUME NEW c
  PROVE  /\ Enter(c, "early") \in {"early", "aotProbe", "native", "jitLoad", "compile"}
         /\ Switched(c, Enter(c, "early"))
         /\ Exe(c) => Enter(c, "early") = "aotProbe"
<1>1. PICK k \in 5..15 : /\ Enter(c, "early") = Order[k] /\ InUse(c, Order[k])
                         /\ \A m \in 5..15 : InUse(c, Order[m]) => k <= m
  <2>1. Order[5] = "early"
    BY OrderIs
  <2> QED BY <2>1, EnterLater
<1>2. k <= 9
  BY <1>1, OrderIs DEF InUse
<1> QED BY <1>1, <1>2, OrderIs DEF InUse, Switched, Native, Exe

LEMMA EnterAotProbe ==
  ASSUME NEW c
  PROVE  /\ Enter(c, "aotProbe") \in {"aotProbe", "native", "jitLoad", "compile"}
         /\ Switched(c, Enter(c, "aotProbe"))
         /\ Exe(c) => Enter(c, "aotProbe") = "aotProbe"
<1>1. PICK k \in 6..15 : /\ Enter(c, "aotProbe") = Order[k] /\ InUse(c, Order[k])
                         /\ \A m \in 6..15 : InUse(c, Order[m]) => k <= m
  <2>1. Order[6] = "aotProbe"
    BY OrderIs
  <2> QED BY <2>1, EnterLater
<1>2. k <= 9
  BY <1>1, OrderIs DEF InUse
<1> QED BY <1>1, <1>2, OrderIs DEF InUse, Switched, Native, Exe

LEMMA EnterNative ==
  ASSUME NEW c
  PROVE  /\ Enter(c, "native") \in {"native", "jitLoad", "compile"}
         /\ Switched(c, Enter(c, "native"))
<1>1. PICK k \in 7..15 : /\ Enter(c, "native") = Order[k] /\ InUse(c, Order[k])
                         /\ \A m \in 7..15 : InUse(c, Order[m]) => k <= m
  <2>1. Order[7] = "native"
    BY OrderIs
  <2> QED BY <2>1, EnterLater
<1>2. k <= 9
  BY <1>1, OrderIs DEF InUse
<1> QED BY <1>1, <1>2, OrderIs DEF InUse, Switched, Native, Exe

LEMMA EnterJitLoad ==
  ASSUME NEW c
  PROVE  /\ Enter(c, "jitLoad") \in {"jitLoad", "compile"}
         /\ Switched(c, Enter(c, "jitLoad"))
<1>1. PICK k \in 8..15 : /\ Enter(c, "jitLoad") = Order[k] /\ InUse(c, Order[k])
                         /\ \A m \in 8..15 : InUse(c, Order[m]) => k <= m
  <2>1. Order[8] = "jitLoad"
    BY OrderIs
  <2> QED BY <2>1, EnterLater
<1>2. k <= 9
  BY <1>1, OrderIs DEF InUse
<1> QED BY <1>1, <1>2, OrderIs DEF InUse, Switched, Native, Exe

LEMMA EnterBcSave ==
  ASSUME NEW c
  PROVE  /\ Enter(c, "bcSave") \in {"bcSave", "nativeSave", "jitSave", "bcAgain", "aotSave", "finish"}
         /\ Switched(c, Enter(c, "bcSave"))
<1>1. PICK k \in 10..15 : /\ Enter(c, "bcSave") = Order[k] /\ InUse(c, Order[k])
                         /\ \A m \in 10..15 : InUse(c, Order[m]) => k <= m
  <2>1. Order[10] = "bcSave"
    BY OrderIs
  <2> QED BY <2>1, EnterLater
<1> QED BY <1>1, OrderIs DEF InUse, Switched, Native, Exe

LEMMA EnterNativeSave ==
  ASSUME NEW c
  PROVE  /\ Enter(c, "nativeSave") \in {"nativeSave", "jitSave", "bcAgain", "aotSave", "finish"}
         /\ Switched(c, Enter(c, "nativeSave"))
<1>1. PICK k \in 11..15 : /\ Enter(c, "nativeSave") = Order[k] /\ InUse(c, Order[k])
                         /\ \A m \in 11..15 : InUse(c, Order[m]) => k <= m
  <2>1. Order[11] = "nativeSave"
    BY OrderIs
  <2> QED BY <2>1, EnterLater
<1> QED BY <1>1, OrderIs DEF InUse, Switched, Native, Exe

LEMMA EnterJitSave ==
  ASSUME NEW c
  PROVE  /\ Enter(c, "jitSave") \in {"jitSave", "bcAgain", "aotSave", "finish"}
         /\ Switched(c, Enter(c, "jitSave"))
<1>1. PICK k \in 12..15 : /\ Enter(c, "jitSave") = Order[k] /\ InUse(c, Order[k])
                         /\ \A m \in 12..15 : InUse(c, Order[m]) => k <= m
  <2>1. Order[12] = "jitSave"
    BY OrderIs
  <2> QED BY <2>1, EnterLater
<1> QED BY <1>1, OrderIs DEF InUse, Switched, Native, Exe

LEMMA EnterBcAgain ==
  ASSUME NEW c
  PROVE  /\ Enter(c, "bcAgain") \in {"bcAgain", "aotSave", "finish"}
         /\ Switched(c, Enter(c, "bcAgain"))
<1>1. PICK k \in 13..15 : /\ Enter(c, "bcAgain") = Order[k] /\ InUse(c, Order[k])
                         /\ \A m \in 13..15 : InUse(c, Order[m]) => k <= m
  <2>1. Order[13] = "bcAgain"
    BY OrderIs
  <2> QED BY <2>1, EnterLater
<1> QED BY <1>1, OrderIs DEF InUse, Switched, Native, Exe

LEMMA EnterAotSave ==
  ASSUME NEW c
  PROVE  /\ Enter(c, "aotSave") \in {"aotSave", "finish"}
         /\ Switched(c, Enter(c, "aotSave"))
<1>1. PICK k \in 14..15 : /\ Enter(c, "aotSave") = Order[k] /\ InUse(c, Order[k])
                         /\ \A m \in 14..15 : InUse(c, Order[m]) => k <= m
  <2>1. Order[14] = "aotSave"
    BY OrderIs
  <2> QED BY <2>1, EnterLater
<1> QED BY <1>1, OrderIs DEF InUse, Switched, Native, Exe

-----------------------------------------------------------------------------
(* Facts about the constant parts of a scene, and about names *)

(* What a scene fixes stays as it is. *)
LEMMA SceneFixed ==
  ASSUME UNCHANGED scene
  PROVE  /\ Names' = Names /\ Compilers' = Compilers
         /\ \A c : me(c)' = me(c)
         /\ \A c, k : Name(c, k)' = Name(c, k)
         /\ \A c : Exe(c)' <=> Exe(c)
         /\ Turns' <=> Turns
BY DEF Names, Compilers, Name, me, Exe, Use, Turns

(* So does what is asked of a compiler's state and of a file. *)
LEMMA Judged ==
  ASSUME UNCHANGED <<scene, losses>>
  PROVE  /\ \A c, p : Local(c, p)' <=> Local(c, p)
         /\ \A n, m : GoodFor(n, m)' <=> GoodFor(n, m)
         /\ ListKept' <=> ListKept
BY DEF Local, Placed, StdWhole, Results, Switched, Exe, me, Use, MadeFor, Plain, ListKept, ExeSafe,
       Compilers, Name, GoodFor

(* What a compiler is asked to compile *)
LEMMA ProgramTyped ==
  ASSUME scene \in Scenes, NEW c \in Compilers
  PROVE  me(c).id \in Int /\ me(c).entry \in STRING /\ me(c).goal \in {"jit", "aot"}
BY CacheAssumption DEF me, Compilers, Programs

(* A name tells its kind, and the source it is for. *)
LEMMA NameTyped ==
  ASSUME scene \in Scenes, NEW c \in Compilers, NEW k \in Kinds
  PROVE  /\ Name(c, k) \in Names /\ Name(c, k) \in Kinds \X Int
         /\ Name(c, k)[1] = k
         /\ Name(c, k)[2] = IF k \in SharedKinds THEN 0 ELSE me(c).id
BY ProgramTyped DEF Name, Names

(* Every name is some compiler's name for its kind. *)
LEMMA NamesAre ==
  ASSUME scene \in Scenes, NEW n \in Names
  PROVE  /\ n[1] \in Kinds /\ n = <<n[1], n[2]>>
         /\ \E c \in Compilers : n = Name(c, n[1])
BY ProgramTyped DEF Name, Names

(* The standard library's entries have one name for all compilers. *)
LEMMA NameShared ==
  ASSUME scene \in Scenes, NEW n \in Names, NEW c \in Compilers, n[1] \in SharedKinds
  PROVE  n = Name(c, n[1])
BY NamesAre DEF Name

(* The other names are shared by the compilers of one source. *)
LEMMA NameOwn ==
  ASSUME scene \in Scenes, NEW n \in Names, NEW c \in Compilers, n[1] \notin SharedKinds, n[2] = me(c).id
  PROVE  n = Name(c, n[1])
BY NamesAre DEF Name

-----------------------------------------------------------------------------
(* A step of compiler c that leaves it in state q *)

Moves(c, q) ==
  /\ c \in Compilers /\ q \in ProcType
  /\ proc' = [proc EXCEPT ![c] = q]
  /\ UNCHANGED <<scene, losses>> /\ kills' \in {kills, kills + 1}

(* What a step of compiler c says of all compilers *)
LEMMA Moved ==
  ASSUME CacheType, NEW c, NEW q, Moves(c, q)
  PROVE  /\ c \in Compilers /\ q \in ProcType /\ proc[c] \in ProcType
         /\ proc' \in [Compilers -> ProcType]
         /\ proc'[c] = q
         /\ \A d \in Compilers : d # c => proc'[d] = proc[d]
         /\ scene' = scene /\ losses' = losses /\ kills' \in Nat
         /\ Calm' => Calm
         /\ scene \in Scenes
BY DEF CacheType, Moves, Calm

(* The others are where they were. *)
LEMMA LocalKept ==
  ASSUME CacheInv, NEW c, NEW q, Moves(c, q), Local(c, q)
  PROVE  LocalInv'
<1>1. CacheType
  BY DEF CacheInv
<1>2. /\ c \in Compilers /\ proc'[c] = q
      /\ \A d \in Compilers : d # c => proc'[d] = proc[d]
      /\ scene' = scene /\ losses' = losses
  BY <1>1, Moved
<1>3. \A d, p : Local(d, p)' <=> Local(d, p)
  BY <1>2, Judged
<1>4. Compilers' = Compilers
  BY <1>2, SceneFixed
<1>5. \A d \in Compilers : Local(d, proc[d])
  BY DEF CacheInv, LocalInv
<1> QED
  BY <1>2, <1>3, <1>4, <1>5 DEF LocalInv

(* Names are only removed. *)
Shrinks ==
  /\ dir' \in [Names -> Inodes \cup {None}]
  /\ \A n \in Names : dir'[n] = dir[n] \/ dir'[n] = None

(* A step that removes names and opens no file keeps names and inodes in   *)
(* order.                                                                  *)
LEMMA NamesShrink ==
  ASSUME CacheInv, NEW c, NEW q, Moves(c, q), Shrinks, Local(c, q),
         q.ino = None \/ (q.ino = proc[c].ino /\ q.pc = proc[c].pc /\ q.name = proc[c].name)
  PROVE  NameInv'
<1>1. CacheType
  BY DEF CacheInv
<1>2. /\ c \in Compilers /\ proc'[c] = q
      /\ \A d \in Compilers : d # c => proc'[d] = proc[d]
      /\ scene' = scene /\ losses' = losses /\ scene \in Scenes
  BY <1>1, Moved
<1>3. Names' = Names /\ Compilers' = Compilers /\ \A d, k : Name(d, k)' = Name(d, k)
  BY <1>2, SceneFixed
<1>4. \A n \in Names : dir'[n] = dir[n] \/ dir'[n] = None
  BY DEF Shrinks
<1>5. \A n, m \in Names : dir'[n] # None /\ dir'[n] = dir'[m] => n = m
  BY <1>4 DEF CacheInv, NameInv, OneName, Exists
<1>6. OneName'
  BY <1>3, <1>5 DEF OneName, Exists
<1>7. q.ino # None <=> q.pc \in {"write", "copy"}
  BY DEF Local, Placed
<1>8. \A d \in Compilers : proc[d].ino # None <=> proc[d].pc \in {"write", "copy"}
  BY DEF CacheInv, LocalInv, Local, Placed
<1>9. ASSUME NEW d \in Compilers PROVE Private(d)' /\ Reach(d)'
  <2>1. \/ proc'[d] = q /\ q.ino = None /\ q.pc # "write"
        \/ proc'[d].ino = proc[d].ino /\ proc'[d].pc = proc[d].pc /\ proc'[d].name = proc[d].name
    BY <1>2, <1>7
  <2>2. \A e \in Compilers : proc'[e].ino = None \/ proc'[e].ino = proc[e].ino
    BY <1>2
  <2>3. Private(d) /\ Reach(d)
    BY DEF CacheInv, NameInv
  <2>4. Puts(proc'[d], Renamed) => proc'[d].ino # None
    BY <1>7, <1>8, <2>1 DEF Puts
  <2>5. Private(d)'
    BY <1>3, <1>4, <2>1, <2>2, <2>3, <2>4 DEF Private, Puts
  <2>6. Reach(d)'
    BY <1>3, <1>4, <2>1, <2>3 DEF Reach, Puts
  <2> QED BY <2>5, <2>6
<1> QED BY <1>3, <1>6, <1>9 DEF NameInv

(* Compilers that take turns: nothing happens to the others' executables. *)
LEMMA TurnKept ==
  ASSUME CacheInv, NEW c, NEW q, Moves(c, q), ExecWhole', ExeStep(c)',
         \/ Busy(proc[c])
         \/ scene.seq => \A d \in Compilers : ~Busy(proc[d])
         \/ ~Busy(q) /\ UNCHANGED <<dir, file>>
  PROVE  TurnInv'
<1>1. CacheType /\ OneRuns /\ \A d \in Compilers : ExeStep(d)
  BY DEF CacheInv, TurnInv
<1>2. /\ c \in Compilers /\ proc'[c] = q
      /\ \A d \in Compilers : d # c => proc'[d] = proc[d]
      /\ scene' = scene
  BY <1>1, Moved
<1>3. /\ Compilers' = Compilers /\ (Turns' <=> Turns)
      /\ \A d, k : Name(d, k)' = Name(d, k)
      /\ \A d : Exe(d)' <=> Exe(d)
  BY <1>2, SceneFixed
<1>4. OneRuns'
  BY <1>1, <1>2, <1>3 DEF OneRuns
<1>5. ASSUME NEW d \in Compilers, d # c PROVE ExeStep(d)'
  <2>1. CASE scene.seq /\ ~Busy(proc[d])
    BY <1>2, <1>5, <2>1 DEF ExeStep, Past, Puts, Busy, Idle, Saving
  <2>2. CASE ~scene.seq
    BY <1>2, <2>2 DEF ExeStep, Turns
  <2>3. CASE UNCHANGED <<dir, file>>
    <3>1. proc'[d] = proc[d] /\ ExeStep(d)
      BY <1>1, <1>2, <1>5
    <3> QED BY <1>3, <2>3, <3>1 DEF ExeStep, Exists, Whole
  <2> QED BY <1>1, <1>2, <1>5, <2>1, <2>2, <2>3 DEF OneRuns
<1> QED BY <1>2, <1>3, <1>4, <1>5 DEF TurnInv

(* Nothing is written, and no list of libraries is removed. *)
Quiet(c, q) ==
  /\ Moves(c, q) /\ Local(c, q) /\ q.pc # "write"
  /\ Shrinks /\ UNCHANGED file
  /\ \A n \in Names : n[1] \in {"bc.libs", "so.libs"} => dir'[n] = dir[n]

(* A quiet step leaves every file good for its names. *)
LEMMA FilesQuiet ==
  ASSUME CacheInv, NEW c, NEW q, Quiet(c, q), ListThere(c)'
  PROVE  FileInv'
<1>1. CacheType /\ EntriesGood /\ RenamedWhole /\ \A d \in Compilers : TempGood(d) /\ ListThere(d)
  BY DEF CacheInv, FileInv
<1>2. /\ c \in Compilers /\ proc'[c] = q
      /\ \A d \in Compilers : d # c => proc'[d] = proc[d]
      /\ scene' = scene /\ losses' = losses /\ scene \in Scenes
  BY <1>1, Moved DEF Quiet
<1>3. Names' = Names /\ Compilers' = Compilers /\ \A d, k : Name(d, k)' = Name(d, k)
  BY <1>2, SceneFixed
<1>4. (\A n, m : GoodFor(n, m)' <=> GoodFor(n, m)) /\ (ListKept' <=> ListKept)
  BY <1>2, Judged
<1>5. file' = file /\ \A n \in Names : dir'[n] = dir[n] \/ dir'[n] = None
  BY DEF Quiet, Shrinks
<1>6. EntriesGood' /\ RenamedWhole'
  BY <1>1, <1>2, <1>3, <1>4, <1>5 DEF EntriesGood, RenamedWhole, Exists
<1>7. q.pc # "write"
  BY DEF Quiet
<1>8. ASSUME NEW d \in Compilers PROVE TempGood(d)'
  BY <1>1, <1>2, <1>4, <1>5, <1>7 DEF TempGood, Puts
<1>9. ASSUME NEW d \in Compilers, d # c PROVE ListThere(d)'
  <2>1. proc'[d] = proc[d] /\ ListThere(d)
    BY <1>1, <1>2, <1>9
  <2>2. Name(d, "bc.libs") \in Names /\ Name(d, "bc.libs")[1] = "bc.libs"
    BY <1>2, NameTyped DEF Kinds
  <2>3. dir'[Name(d, "bc.libs")] = dir[Name(d, "bc.libs")]
    BY <2>2 DEF Quiet
  <2> QED BY <1>2, <1>3, <1>4, <1>5, <2>1, <2>3 DEF ListThere, Exists, me
<1> QED BY <1>2, <1>3, <1>6, <1>8, <1>9 DEF FileInv

(* It leaves executables as they were. *)
LEMMA ExecQuiet ==
  ASSUME CacheInv, NEW c, NEW q, Quiet(c, q)
  PROVE  ExecWhole'
<1>1. CacheType /\ ExecWhole
  BY DEF CacheInv, TurnInv
<1>2. scene' = scene
  BY <1>1, Moved DEF Quiet
<1>3. Names' = Names /\ (Turns' <=> Turns)
  BY <1>2, SceneFixed
<1> QED BY <1>1, <1>3 DEF ExecWhole, Exists, Quiet, Shrinks

(* A shared object and its list of libraries have names for the same       *)
(* source.                                                                 *)
LEMMA OwnLibs ==
  ASSUME scene \in Scenes, NEW n \in Names, n[1] = "so"
  PROVE  <<"so.libs", n[2]>> \in Names /\ <<"so.libs", n[2]>>[1] = "so.libs"
<1>1. PICK d \in Compilers : n = Name(d, "so")
  BY NamesAre
<1>2. Name(d, "so.libs") \in Names
  BY NameTyped DEF Kinds
<1>3. Name(d, "so.libs") = <<"so.libs", n[2]>>
  BY <1>1 DEF Name, SharedKinds
<1> QED BY <1>2, <1>3

(* A quiet step of a compiler that had nothing to finish leaves the others *)
(* to finish theirs.                                                       *)
LEMMA SettleQuiet ==
  ASSUME CacheInv, NEW c, NEW q, Quiet(c, q),
         proc[c].pc \notin {"write", "ld", "ldDone", "soRename", "soLibs", "chmod"}
  PROVE  SettleInv'
<1>1. CacheType /\ SettleInv
  BY DEF CacheInv
<1>2. /\ c \in Compilers /\ proc'[c] = q
      /\ \A d \in Compilers : d # c => proc'[d] = proc[d]
      /\ scene' = scene /\ losses' = losses /\ (Calm' => Calm) /\ scene \in Scenes
  BY <1>1, Moved DEF Quiet
<1>3. Names' = Names /\ Compilers' = Compilers /\ \A d : me(d)' = me(d)
  BY <1>2, SceneFixed
<1>4. file' = file /\ \A n \in Names : dir'[n] = dir[n] \/ dir'[n] = None
  BY DEF Quiet, Shrinks
<1>5. SUFFICES ASSUME Calm PROVE WillBeWhole' /\ WillSettle'
  BY <1>2 DEF SettleInv
<1>6. WillBeWhole /\ WillSettle
  BY <1>1, <1>5 DEF SettleInv
<1>7. ASSUME NEW i, NEW b, Writer(i, b) PROVE Writer(i, b)'
  BY <1>2, <1>3, <1>7 DEF Writer
<1>8. WillBeWhole'
  BY <1>3, <1>4, <1>6, <1>7 DEF WillBeWhole, Exists
<1>9. WillSettle'
  <2> SUFFICES ASSUME NEW n \in Names, dir'[n] # None PROVE Settles(n)'
    BY <1>3 DEF WillSettle, Exists
  <2>1. Settles(n) /\ dir'[n] = dir[n]
    BY <1>4, <1>6 DEF Exists, WillSettle
  <2>2. n[1] = "so" => dir'[<<"so.libs", n[2]>>] = dir[<<"so.libs", n[2]>>]
    BY <1>2, OwnLibs DEF Quiet
  <2>3. ASSUME NEW L, NEW K, L \in SUBSET {"ld", "ldDone", "soRename", "soLibs", "chmod"}, Finisher(n, L, K)
        PROVE  Finisher(n, L, K)'
    BY <1>2, <1>3, <2>3 DEF Finisher, Puts
  <2> QED BY <1>2, <1>4, <2>1, <2>2, <2>3 DEF Settles, Exists
<1> QED BY <1>8, <1>9

(* The type of the state after a step of one compiler *)
LEMMA TypeKept ==
  ASSUME CacheInv, NEW c, NEW q, Moves(c, q),
         dir' \in [Names -> Inodes \cup {None}], file' \in [Inodes -> FileType]
  PROVE  CacheType'
<1>1. CacheType
  BY DEF CacheInv
<1>2. scene' = scene /\ kills' \in Nat /\ losses' = losses /\ proc' \in [Compilers -> ProcType]
  BY <1>1, Moved
<1>3. Names' = Names /\ Compilers' = Compilers
  BY <1>2, SceneFixed
<1> QED BY <1>1, <1>2, <1>3 DEF CacheType

(* A quiet step keeps the invariant, if the compiler's own list of         *)
(* libraries and executable are in order.                                  *)
LEMMA QuietStep ==
  ASSUME CacheInv, NEW c, NEW q, Quiet(c, q), ListThere(c)', ExeStep(c)',
         \/ Busy(proc[c])
         \/ scene.seq => \A d \in Compilers : ~Busy(proc[d])
         \/ ~Busy(q) /\ UNCHANGED <<dir, file>>,
         q.pc # "copy" \/ NameInv',
         proc[c].pc \notin {"write", "ld", "ldDone", "soRename", "soLibs", "chmod"} \/ SettleInv'
  PROVE  CacheInv'
<1>1. CacheType
  BY DEF CacheInv
<1>2. Moves(c, q) /\ Local(c, q) /\ (q.pc # "copy" => q.ino = None) /\ Shrinks /\ file' = file
  BY DEF Quiet, Local, Placed
<1>3. CacheType'
  BY <1>1, <1>2, TypeKept DEF Shrinks, CacheType
<1>4. LocalInv' /\ NameInv'
  BY <1>2, LocalKept, NamesShrink
<1>5. FileInv' /\ TurnInv'
  BY <1>2, FilesQuiet, ExecQuiet, TurnKept
<1>6. SettleInv'
  BY SettleQuiet
<1> QED BY <1>3, <1>4, <1>5, <1>6 DEF CacheInv

(* What the invariant says of one compiler *)
LEMMA OneCompiler ==
  ASSUME CacheInv, NEW c \in Compilers
  PROVE  /\ CacheType /\ scene \in Scenes /\ proc[c] \in ProcType
         /\ Local(c, proc[c]) /\ ListThere(c) /\ ExeStep(c)
BY DEF CacheInv, CacheType, LocalInv, FileInv, TurnInv

(* No name is removed. *)
LEMMA Unmoved ==
  ASSUME CacheType, UNCHANGED dir
  PROVE  Shrinks
BY DEF Shrinks, CacheType

(* A quiet step on the way, which neither takes the library's bitcode up   *)
(* nor looks at its list                                                   *)
LEMMA PlainStep ==
  ASSUME CacheInv, NEW c, NEW q, Quiet(c, q), Busy(proc[c]),
         proc[c].pc \notin {"write", "ld", "ldDone", "soRename", "soLibs", "chmod"} \/ SettleInv',
         q.bc => proc[c].bc, q.pc \notin {"link", "chmod", "copy"},
         Past(q) /\ Exe(c) => Past(proc[c]) \/ dir'[Name(c, "aot")] = None
  PROVE  CacheInv'
<1>1. CacheType /\ Moves(c, q)
  BY DEF CacheInv, Quiet
<1>2. c \in Compilers /\ proc'[c] = q /\ scene' = scene /\ scene \in Scenes
  BY <1>1, Moved
<1>3. ListThere(c) /\ ExeStep(c)
  BY <1>2, OneCompiler
<1>4. \A k \in Kinds : Name(c, k) \in Names /\ Name(c, k)[1] = k
  BY <1>2, NameTyped
<1>5. ListThere(c)'
  <2>1. dir'[Name(c, "bc.libs")] = dir[Name(c, "bc.libs")]
    BY <1>4 DEF Quiet, Kinds
  <2>2. Name(c, "bc.libs")' = Name(c, "bc.libs") /\ me(c)' = me(c)
    BY <1>2, SceneFixed
  <2> QED BY <1>2, <1>3, <2>1, <2>2 DEF ListThere, Exists, Quiet
<1>6. ExeStep(c)'
  <2>1. Name(c, "aot")' = Name(c, "aot") /\ (Exe(c)' <=> Exe(c)) /\ (Turns' <=> Turns)
    BY <1>2, SceneFixed
  <2>2. dir'[Name(c, "aot")] = dir[Name(c, "aot")] \/ dir'[Name(c, "aot")] = None
    BY <1>4 DEF Quiet, Shrinks, Kinds
  <2> QED BY <1>2, <1>3, <2>1, <2>2 DEF ExeStep, Exists, Quiet, Puts
<1> QED BY <1>5, <1>6, QuietStep

(* A compiler that begins relies on nothing yet. *)
LEMMA BeginStep ==
  ASSUME CacheInv, NEW c \in Compilers, Begin(c), UNCHANGED <<scene, kills, losses>>
  PROVE  CacheInv'
<1>1. /\ CacheType /\ scene \in Scenes /\ proc[c] \in ProcType
      /\ Local(c, proc[c]) /\ ListThere(c) /\ ExeStep(c)
  BY OneCompiler
<1>2. PICK label : label = Enter(c, "bcProbe")
  OBVIOUS
<1>3. label \in {"bcProbe", "stdProbe", "stdBuild"} /\ Switched(c, label)
  BY <1>2, EnterBcProbe
<1>4. PICK q : q = [proc[c] EXCEPT !.pc = label]
  OBVIOUS
<1>5. /\ proc[c].pc = "new" /\ proc' = [proc EXCEPT ![c] = q] /\ UNCHANGED <<dir, file>>
      /\ scene.seq => \A d \in Compilers : ~Busy(proc[d])
  BY <1>2, <1>4 DEF Begin, Goto, Set, At, Running, Busy
<1>6. q \in ProcType /\ q.pc = label
  BY <1>1, <1>3, <1>4 DEF ProcType, Labels, Ahead
<1>7. Local(c, q)
  <2>1. Placed(c, q)
    BY <1>1, <1>3, <1>4, <1>5 DEF Local, Placed, ProcType
  <2>2. StdWhole(c, q) /\ Results(c, q)
    BY <1>1, <1>3, <1>4, <1>5 DEF Local, StdWhole, Results, HasNothing, HasOwn, HasSome, Puts,
         ProcType, Saving, Asking, Ahead
  <2> QED BY <2>1, <2>2 DEF Local
<1>8. ~q.bc
  BY <1>1, <1>4, <1>5 DEF Local, Placed, ProcType
<1>9. Quiet(c, q)
  BY <1>1, <1>3, <1>5, <1>6, <1>7, Unmoved DEF Quiet, Moves
<1>10. proc'[c] = q
  BY <1>1, <1>9, Moved DEF Quiet
<1>11. ListThere(c)'
  BY <1>3, <1>6, <1>8, <1>10 DEF ListThere
<1>12. ExeStep(c)'
  BY <1>3, <1>6, <1>10 DEF ExeStep, Past, Puts, Saving
<1> QED BY <1>3, <1>5, <1>6, <1>9, <1>11, <1>12, QuietStep

(* The bitcode is taken up for an executable only when its list is there,  *)
(* and no step removes a list.                                             *)
LEMMA BcProbeStep ==
  ASSUME CacheInv, NEW c \in Compilers, BcProbe(c), UNCHANGED <<scene, kills, losses>>
  PROVE  CacheInv'
<1>1. /\ CacheType /\ scene \in Scenes /\ proc[c] \in ProcType
      /\ Local(c, proc[c]) /\ ListThere(c) /\ ExeStep(c)
  BY OneCompiler
<1>2. PICK label : label = Enter(c, "stdProbe")
  OBVIOUS
<1>3. label \in {"stdProbe", "stdBuild"} /\ Switched(c, label)
  BY <1>2, EnterStdProbe
<1>4. proc[c].pc = "bcProbe" /\ Use("bc")
  BY <1>1 DEF BcProbe, Local, Placed, Switched
<1>5. PICK b, l : /\ b \in BOOLEAN /\ l \in BOOLEAN
                  /\ proc' = [proc EXCEPT ![c] = [proc[c] EXCEPT !.pc = label, !.bc = b, !.needLinks = l]]
                  /\ file' = file
                  /\ b => proc[c].bc \/ ~(me(c).goal = "aot" /\ ~Exists(Name(c, "bc.libs")))
                  /\ \/ dir' = dir
                     \/ dir' = [n \in Names |-> IF n \in {Name(c, "bc")} THEN None ELSE dir[n]]
  <2>1. proc[c].bc \in BOOLEAN /\ proc[c].needLinks \in BOOLEAN
    BY <1>1 DEF ProcType
  <2>2. [proc[c] EXCEPT !.pc = label] =
          [proc[c] EXCEPT !.pc = label, !.bc = proc[c].bc, !.needLinks = proc[c].needLinks]
    BY <1>1 DEF ProcType
  <2> DEFINE missing == me(c).goal = "aot" /\ ~Exists(Name(c, "bc.libs"))
  <2>3. \/ /\ proc' = [proc EXCEPT ![c] = [proc[c] EXCEPT !.pc = label]] /\ file' = file
           /\ \/ dir' = dir
              \/ dir' = [n \in Names |-> IF n \in {Name(c, "bc")} THEN None ELSE dir[n]]
        \/ /\ proc' = [proc EXCEPT ![c] = [proc[c] EXCEPT !.pc = label, !.bc = ~missing, !.needLinks = missing]]
           /\ file' = file /\ dir' = dir
    BY <1>2 DEF BcProbe, Goto, Set, At, Discard, Unlink
  <2>4. missing \in BOOLEAN /\ (~missing) \in BOOLEAN
    OBVIOUS
  <2> HIDE DEF missing
  <2>5. CASE proc' = [proc EXCEPT ![c] = [proc[c] EXCEPT !.pc = label]]
    BY <2>1, <2>2, <2>3, <2>4, <2>5 DEF missing
  <2>6. CASE proc' = [proc EXCEPT ![c] = [proc[c] EXCEPT !.pc = label, !.bc = ~missing, !.needLinks = missing]]
    BY <2>3, <2>4, <2>6 DEF missing
  <2> QED BY <2>3, <2>5, <2>6
<1>6. PICK q : q = [proc[c] EXCEPT !.pc = label, !.bc = b, !.needLinks = l]
  OBVIOUS
<1>7. q \in ProcType /\ q.pc = label /\ q.bc = b
  BY <1>1, <1>3, <1>5, <1>6 DEF ProcType, Labels, Ahead
<1>8. Local(c, q)
  <2>1. Placed(c, q)
    BY <1>1, <1>3, <1>4, <1>6, <1>7 DEF Local, Placed, ProcType
  <2>2. StdWhole(c, q) /\ Results(c, q)
    BY <1>1, <1>3, <1>4, <1>6, <1>7 DEF Local, StdWhole, Results, HasNothing, HasOwn, HasSome, Puts,
         ProcType, Saving, Asking, Ahead
  <2> QED BY <2>1, <2>2 DEF Local
<1>9. Quiet(c, q)
  <2>1. \A n \in Names : dir'[n] = dir[n] \/ (n = Name(c, "bc") /\ dir'[n] = None)
    BY <1>5
  <2>2. Name(c, "bc")[1] = "bc"
    BY <1>1, NameTyped DEF Kinds
  <2>3. dir' \in [Names -> Inodes \cup {None}]
    BY <1>1, <1>5 DEF CacheType
  <2> QED BY <1>3, <1>5, <1>6, <1>7, <1>8, <2>1, <2>2, <2>3 DEF Quiet, Moves, Shrinks
<1>10. proc'[c] = q
  BY <1>1, <1>9, Moved DEF Quiet
<1>11. ListThere(c)'
  <2>1. Name(c, "bc.libs") \in Names /\ Name(c, "bc.libs")[1] = "bc.libs"
    BY <1>1, NameTyped DEF Kinds
  <2>2. dir'[Name(c, "bc.libs")] = dir[Name(c, "bc.libs")]
    BY <1>9, <2>1 DEF Quiet
  <2>3. Name(c, "bc.libs")' = Name(c, "bc.libs") /\ me(c)' = me(c)
    BY SceneFixed
  <2>4. Busy(proc[c])
    BY <1>4 DEF Busy, Idle
  <2> QED BY <1>1, <1>3, <1>5, <1>7, <1>10, <2>2, <2>3, <2>4 DEF ListThere, Exists
<1>12. ExeStep(c)'
  BY <1>3, <1>7, <1>10 DEF ExeStep, Past, Puts, Saving
<1>13. Busy(proc[c])
  BY <1>4 DEF Busy, Idle
<1> QED BY <1>3, <1>4, <1>7, <1>9, <1>11, <1>12, <1>13, QuietStep

(* The lists of libraries stay, and names are only removed. *)
Tidies ==
  /\ Shrinks /\ UNCHANGED file
  /\ \A n \in Names : n[1] \in {"bc.libs", "so.libs"} => dir'[n] = dir[n]

(* A step that touches no file tidies. *)
LEMMA NoTidying ==
  ASSUME CacheType, UNCHANGED <<dir, file>>
  PROVE  Tidies
BY Unmoved DEF Tidies

(* So does one that removes names which are not lists. *)
LEMMA Tidying ==
  ASSUME CacheType, NEW c \in Compilers, NEW kinds \in SUBSET (Kinds \ {"bc.libs", "so.libs"}),
         Unlink({Name(c, k) : k \in kinds})
  PROVE  Tidies /\ \A k \in kinds : dir'[Name(c, k)] = None
<1>1. file' = file /\ dir' = [n \in Names |-> IF n \in {Name(c, k) : k \in kinds} THEN None ELSE dir[n]]
  BY DEF Unlink
<1>2. \A k \in kinds : Name(c, k) \in Names /\ Name(c, k)[1] = k
  BY NameTyped DEF CacheType
<1>3. dir' \in [Names -> Inodes \cup {None}]
  BY <1>1 DEF CacheType
<1>4. \A n \in Names : dir'[n] = dir[n] \/ (dir'[n] = None /\ n[1] \in kinds)
  BY <1>1, <1>2
<1> QED BY <1>1, <1>2, <1>3, <1>4 DEF Tidies, Shrinks

(* A compiler goes on with what it has. *)
LEMMA GotoStep ==
  ASSUME CacheInv, NEW c, NEW q, Moves(c, q), Tidies,
         q.ino = proc[c].ino, q.out = proc[c].out, q.bc = proc[c].bc, q.std \in {proc[c].std, Blocks},
         \/ proc[c].pc \in Ahead \cup Asking /\ q.pc \in Ahead \cup Asking
         \/ proc[c].pc \in Saving /\ q.pc \in Saving \cup {"aotSave", "finish"},
         proc[c].pc # "copy", q.pc \notin {"copy", "link", "dlopen"}, Switched(c, q.pc),
         proc[c].pc \in Ahead /\ q.pc \notin Ahead => q.std = Blocks,
         proc[c].pc \notin {"ld", "ldDone", "soRename", "soLibs"} \/ SettleInv',
         q.pc \notin Ahead \cup {"stdSave", "early", "aotProbe", "aotDrop", "native"} /\ Exe(c) =>
           Past(proc[c]) \/ dir'[Name(c, "aot")] = None
  PROVE  CacheInv'
<1>1. c \in Compilers /\ CacheType /\ proc[c] \in ProcType /\ q \in ProcType
  BY Moved DEF CacheInv
<1>2. Local(c, proc[c])
  BY <1>1, OneCompiler
<1>3. Local(c, q)
  <2>1. Placed(c, q)
    BY <1>1, <1>2 DEF Local, Placed, Ahead, Asking, Saving
  <2>2. StdWhole(c, q)
    BY <1>2 DEF Local, StdWhole, Ahead, Asking, Saving, Busy, Idle
  <2>3. Results(c, q)
    <3>1. CASE proc[c].pc \in Ahead \cup Asking /\ q.pc \in Ahead \cup Asking
      BY <1>2, <3>1 DEF Local, Results, HasNothing, HasOwn, HasSome, Puts, Saving, Asking, Ahead
    <3>2. CASE proc[c].pc \in Saving /\ q.pc \in Saving \cup {"aotSave", "finish"}
      BY <1>2, <3>2 DEF Local, Results, HasNothing, HasOwn, HasSome, Puts, Saving, Asking, Ahead
    <3> QED BY <3>1, <3>2
  <2> QED BY <2>1, <2>2, <2>3 DEF Local
<1>4. q.pc \notin {"write", "copy", "link", "chmod"} /\ proc[c].pc \notin {"write", "chmod"}
  BY DEF Ahead, Asking, Saving
<1>5. Quiet(c, q)
  BY <1>3, <1>4 DEF Quiet, Tidies
<1>6. Busy(proc[c])
  BY DEF Busy, Idle, Ahead, Asking, Saving
<1>7. Past(q) /\ Exe(c) => Past(proc[c]) \/ dir'[Name(c, "aot")] = None
  BY <1>4 DEF Past, Puts, Ahead, Saving
<1> QED BY <1>4, <1>5, <1>6, <1>7, PlainStep

(* A compiler goes on to another label, and may remove names first. *)
LEMMA LabelStep ==
  ASSUME CacheInv, NEW c \in Compilers, NEW label, UNCHANGED <<scene, kills, losses>>,
         Set(c, At(c, label)), Tidies,
         \/ proc[c].pc \in Ahead \cup Asking /\ label \in Ahead \cup Asking
         \/ proc[c].pc \in Saving /\ label \in Saving \cup {"aotSave", "finish"},
         proc[c].pc # "copy", label \notin {"copy", "link", "dlopen"}, Switched(c, label),
         proc[c].pc \in Ahead => label \in Ahead,
         proc[c].pc \notin {"ld", "ldDone", "soRename", "soLibs"} \/ SettleInv',
         label \notin Ahead \cup {"stdSave", "early", "aotProbe", "aotDrop", "native"} /\ Exe(c) =>
           Past(proc[c]) \/ dir'[Name(c, "aot")] = None
  PROVE  CacheInv'
<1>1. CacheType
  BY DEF CacheInv
<1>2. PICK q : q = At(c, label)
  OBVIOUS
<1>3. label \in Labels /\ proc' = [proc EXCEPT ![c] = q]
  BY <1>2 DEF Labels, Ending, Set
<1>4. /\ Moves(c, q)
      /\ q.pc = label /\ q.ino = proc[c].ino /\ q.out = proc[c].out /\ q.bc = proc[c].bc
      /\ q.std = proc[c].std
  BY <1>1, <1>2, <1>3 DEF CacheType, At, ProcType, Moves
<1> QED BY <1>4, GotoStep

(* The library taken from the cache is whole: its entry came there by a    *)
(* rename and has its header.                                              *)
LEMMA StdProbeStep ==
  ASSUME CacheInv, NEW c \in Compilers, StdProbe(c), UNCHANGED <<scene, kills, losses>>
  PROVE  CacheInv'
<1>1. CacheType /\ proc[c] \in ProcType /\ proc[c].pc = "stdProbe"
  BY OneCompiler DEF StdProbe
<1>2. CASE Goto(c, "stdBuild") \/ Goto(c, "stdDrop")
  <2>1. PICK label \in {"stdBuild", "stdDrop"} : Set(c, At(c, label)) /\ UNCHANGED <<dir, file>>
    BY <1>2 DEF Goto
  <2>2. Tidies
    BY <1>1, <2>1, NoTidying
  <2>3. Switched(c, label)
    BY DEF Switched
  <2> QED BY <1>1, <2>1, <2>2, <2>3, LabelStep DEF Ahead
<1>3. CASE ~(Goto(c, "stdBuild") \/ Goto(c, "stdDrop"))
  <2>1. PICK label : label = Enter(c, "early")
    OBVIOUS
  <2>2. /\ label \in {"early", "aotProbe", "native", "jitLoad", "compile"} /\ Switched(c, label)
        /\ Exe(c) => label = "aotProbe"
    BY <2>1, EnterEarly
  <2>3. PICK std : std = file[dir[Name(c, "std")]].blocks
    OBVIOUS
  <2>4. std = Blocks
    <3>1. Exists(Name(c, "std")) /\ 1 \in std
      BY <1>3, <2>3 DEF StdProbe, HasHeader
    <3>2. Name(c, "std") \in Names /\ Name(c, "std")[1] = "std"
      BY <1>1, NameTyped DEF CacheType, Kinds
    <3> QED BY <2>3, <3>1, <3>2 DEF CacheInv, FileInv, RenamedWhole, Renamed
  <2>5. PICK q : q = [At(c, label) EXCEPT !.std = Blocks]
    OBVIOUS
  <2>6. proc' = [proc EXCEPT ![c] = q] /\ UNCHANGED <<dir, file>>
    BY <1>3, <2>1, <2>3, <2>4, <2>5 DEF StdProbe, Set
  <2>7. /\ q \in ProcType /\ q.pc = label /\ q.ino = proc[c].ino /\ q.out = proc[c].out
        /\ q.bc = proc[c].bc /\ q.std = Blocks
    BY <1>1, <2>2, <2>5 DEF At, ProcType, Labels, Asking
  <2>8. Moves(c, q) /\ Tidies
    BY <1>1, <2>6, <2>7, NoTidying DEF Moves
  <2> QED BY <1>1, <2>2, <2>7, <2>8, GotoStep DEF Ahead, Asking
<1> QED BY <1>2, <1>3

(* An entry without a header is removed; who has it open keeps the inode. *)
LEMMA StdDropStep ==
  ASSUME CacheInv, NEW c \in Compilers, StdDrop(c), UNCHANGED <<scene, kills, losses>>
  PROVE  CacheInv'
<1>1. CacheType /\ proc[c].pc = "stdDrop" /\ Set(c, At(c, "stdBuild")) /\ Unlink({Name(c, k) : k \in {"std"}})
  BY DEF CacheInv, StdDrop, Discard
<1>2. Tidies
  BY <1>1, Tidying DEF Kinds
<1> QED BY <1>1, <1>2, LabelStep DEF Ahead, Switched

(* After the removal there is no executable for the program, which is what *)
(* the stages behind rely on.                                              *)
LEMMA AotDropStep ==
  ASSUME CacheInv, NEW c \in Compilers, AotDrop(c), UNCHANGED <<scene, kills, losses>>
  PROVE  CacheInv'
<1>1. PICK label : label = Enter(c, "native")
  OBVIOUS
<1>2. /\ CacheType /\ proc[c].pc = "aotDrop"
      /\ Set(c, At(c, label)) /\ Unlink({Name(c, k) : k \in {"aot"}})
  BY <1>1 DEF CacheInv, AotDrop, Discard
<1>3. label \in {"native", "jitLoad", "compile"} /\ Switched(c, label)
  BY <1>1, EnterNative
<1>4. Tidies /\ dir'[Name(c, "aot")] = None
  BY <1>2, Tidying DEF Kinds
<1> QED BY <1>2, <1>3, <1>4, LabelStep DEF Ahead, Asking

(* Bitcode that is not whole is removed. *)
LEMMA JitDropStep ==
  ASSUME CacheInv, NEW c \in Compilers, JitDrop(c), UNCHANGED <<scene, kills, losses>>
  PROVE  CacheInv'
<1>1. CacheType /\ proc[c].pc = "jitDrop" /\ Set(c, At(c, "compile")) /\ Unlink({Name(c, k) : k \in {"jit"}})
  BY DEF CacheInv, JitDrop, Discard
<1>2. Tidies
  BY <1>1, Tidying DEF Kinds
<1> QED BY <1>1, <1>2, LabelStep DEF Ahead, Asking, Switched, Past

(* Where a compiler goes on when the library's bitcode was seen to *)
LEMMA NextAfterBc ==
  ASSUME NEW c, NEW label, label = Enter(c, AfterBc(c))
  PROVE  label \in {"nativeSave", "jitSave", "bcAgain", "aotSave", "finish"} /\ Switched(c, label)
<1>1. CASE AfterBc(c) = "nativeSave"
  BY <1>1, EnterNativeSave
<1>2. CASE AfterBc(c) = "aotSave"
  BY <1>2, EnterAotSave
<1> QED BY <1>1, <1>2 DEF AfterBc

(* The bitcode's entry is removed; its list stays. *)
LEMMA BcDropStep ==
  ASSUME CacheInv, NEW c \in Compilers, BcDrop(c), UNCHANGED <<scene, kills, losses>>
  PROVE  CacheInv'
<1>1. PICK label : label = Enter(c, AfterBc(c))
  OBVIOUS
<1>2. /\ CacheType /\ proc[c].pc \in {"bcDrop", "bcDropAgain"}
      /\ Set(c, At(c, label)) /\ Unlink({Name(c, k) : k \in {"bc"}})
  BY <1>1 DEF CacheInv, BcDrop, Discard
<1>3. label \in {"nativeSave", "jitSave", "bcAgain", "aotSave", "finish"} /\ Switched(c, label)
  BY <1>1, NextAfterBc
<1>4. Tidies
  BY <1>2, Tidying DEF Kinds
<1> QED BY <1>2, <1>3, <1>4, LabelStep DEF Ahead, Asking, Saving, Past

(* The step of BcLibs that writes nothing *)
LEMMA BcLibsOn ==
  ASSUME CacheInv, NEW c \in Compilers, proc[c].pc \in {"bcLibs", "bcLibsAgain"},
         Goto(c, Enter(c, AfterBc(c))), UNCHANGED <<scene, kills, losses>>
  PROVE  CacheInv'
<1>1. PICK label : label = Enter(c, AfterBc(c))
  OBVIOUS
<1>2. CacheType /\ Set(c, At(c, label)) /\ UNCHANGED <<dir, file>>
  BY <1>1 DEF CacheInv, Goto
<1>3. label \in {"nativeSave", "jitSave", "bcAgain", "aotSave", "finish"} /\ Switched(c, label)
  BY <1>1, NextAfterBc
<1>4. Tidies
  BY <1>2, NoTidying
<1> QED BY <1>2, <1>3, <1>4, LabelStep DEF Ahead, Asking, Saving, Past

(* The steps of BcSave that write nothing *)
LEMMA BcSaveOn ==
  ASSUME CacheInv, NEW c \in Compilers, proc[c].pc \in {"bcSave", "bcAgain"}, NEW label,
         Goto(c, label), UNCHANGED <<scene, kills, losses>>,
         label \in {Enter(c, AfterBc(c)), "bcDrop", "bcDropAgain"}
  PROVE  CacheInv'
<1>1. CacheType /\ Set(c, At(c, label)) /\ UNCHANGED <<dir, file>>
  BY DEF CacheInv, Goto
<1>2. /\ label \in {"nativeSave", "jitSave", "bcAgain", "aotSave", "finish", "bcDrop", "bcDropAgain"}
      /\ Switched(c, label)
  BY NextAfterBc DEF Switched
<1>3. Tidies
  BY <1>1, NoTidying
<1> QED BY <1>1, <1>2, <1>3, LabelStep DEF Ahead, Asking, Saving, Past

(* The bitcode is there already. *)
LEMMA BcSaveSeen ==
  ASSUME CacheInv, NEW c \in Compilers, proc[c].pc \in {"bcSave", "bcAgain"},
         UNCHANGED <<scene, kills, losses, dir, file>>,
         NEW label \in {"bcLibs", "bcLibsAgain"}, NEW l \in BOOLEAN,
         Set(c, [At(c, label) EXCEPT !.saved = TRUE, !.needLinks = l])
  PROVE  CacheInv'
<1>1. CacheType /\ proc[c] \in ProcType
  BY OneCompiler
<1>2. PICK q : q = [At(c, label) EXCEPT !.saved = TRUE, !.needLinks = l]
  OBVIOUS
<1>3. proc' = [proc EXCEPT ![c] = q]
  BY <1>2 DEF Set
<1>4. /\ q \in ProcType /\ q.pc = label /\ q.ino = proc[c].ino /\ q.out = proc[c].out
      /\ q.bc = proc[c].bc /\ q.std = proc[c].std
  BY <1>1, <1>2 DEF At, ProcType, Labels, Saving
<1>5. Moves(c, q) /\ Tidies
  BY <1>1, <1>3, <1>4, NoTidying DEF Moves
<1>6. Switched(c, label)
  BY DEF Switched
<1> QED BY <1>4, <1>5, <1>6, GotoStep DEF Ahead, Asking, Saving, Past

(* The shared object is looked for and opened in two steps; nothing is     *)
(* taken in the first.                                                     *)
LEMMA NativeProbeStep ==
  ASSUME CacheInv, NEW c \in Compilers, NativeProbe(c), UNCHANGED <<scene, kills, losses>>
  PROVE  CacheInv'
<1>1. /\ CacheType /\ scene \in Scenes /\ proc[c] \in ProcType /\ Local(c, proc[c])
      /\ proc[c].pc \in {"early", "native"}
  BY OneCompiler DEF NativeProbe
<1>2. me(c).goal = "jit" /\ ~Exe(c)
  BY <1>1 DEF Local, Placed, Switched, Exe
<1>3. PICK label : label = Enter(c, IF proc[c].pc = "early" THEN "aotProbe" ELSE "jitLoad")
  OBVIOUS
<1>4. label \in {"aotProbe", "native", "jitLoad", "compile"} /\ Switched(c, label)
  BY <1>1, <1>3, EnterAotProbe, EnterJitLoad
<1>5. CASE Goto(c, label)
  <2>1. Set(c, At(c, label)) /\ UNCHANGED <<dir, file>>
    BY <1>5 DEF Goto
  <2>2. Tidies
    BY <1>1, <2>1, NoTidying
  <2> QED BY <1>1, <1>2, <1>4, <2>1, <2>2, LabelStep DEF Ahead, Asking
<1>6. CASE ~Goto(c, label)
  <2>0. PICK l \in BOOLEAN : l = (~scene.libs \/ Whole(Name(c, "so.libs")))
    OBVIOUS
  <2>1. PICK q : q = [At(c, "dlopen") EXCEPT !.then = label, !.links = l]
    OBVIOUS
  <2>2. proc' = [proc EXCEPT ![c] = q] /\ UNCHANGED <<dir, file>>
    BY <1>3, <1>6, <2>0, <2>1 DEF NativeProbe, Set
  <2>4. /\ q \in ProcType /\ q.pc = "dlopen" /\ q.then = label /\ q.ino = proc[c].ino
        /\ q.out = proc[c].out /\ q.bc = proc[c].bc /\ q.std = proc[c].std
    BY <1>1, <1>4, <2>1 DEF At, ProcType, Labels, Asking
  <2>5. Local(c, q)
    <3>1. Placed(c, q)
      BY <1>1, <1>2, <1>4, <2>4 DEF Local, Placed, Switched
    <3>2. StdWhole(c, q) /\ Results(c, q)
      BY <1>1, <2>4 DEF Local, StdWhole, Busy, Idle, Ahead, Results, HasNothing, HasOwn, HasSome, Puts,
                        Saving, Asking
    <3> QED BY <3>1, <3>2 DEF Local
  <2>6. Quiet(c, q)
    BY <1>1, <2>2, <2>4, <2>5, NoTidying DEF Quiet, Moves, Tidies
  <2> QED BY <1>1, <1>2, <2>4, <2>6, PlainStep DEF Busy, Idle
<1> QED BY <1>5, <1>6

(* What stands under a name and is whole yields what was made for it. *)
LEMMA Yields ==
  ASSUME CacheInv, NEW n \in Names, Whole(n)
  PROVE  /\ Yield(dir[n]) \in MadeType /\ Yield(dir[n]) = file[dir[n]].made
         /\ GoodFor(n, file[dir[n]].made)
<1>1. dir[n] \in Inodes /\ file[dir[n]] \in FileType /\ file[dir[n]].blocks = Blocks
  BY DEF CacheInv, CacheType, Whole, Exists
<1>2. GoodFor(n, file[dir[n]].made) /\ file[dir[n]].made.good
  BY DEF CacheInv, FileInv, EntriesGood, Whole, GoodFor
<1>3. file[dir[n]].made \in MadeType
  BY <1>1 DEF FileType
<1>4. Yield(dir[n]) = [file[dir[n]].made EXCEPT !.good = TRUE]
  BY <1>1, <1>2 DEF Yield
<1>5. Yield(dir[n]) = file[dir[n]].made
  BY <1>2, <1>3, <1>4 DEF MadeType
<1> QED BY <1>2, <1>3, <1>5

(* A shared object that is whole holds the program of its source, whoever  *)
(* renamed it there meanwhile.                                             *)
LEMMA NativeOpenStep ==
  ASSUME CacheInv, NEW c \in Compilers, NativeOpen(c), UNCHANGED <<scene, kills, losses>>
  PROVE  CacheInv'
<1>1. /\ CacheType /\ scene \in Scenes /\ proc[c] \in ProcType /\ Local(c, proc[c])
      /\ proc[c].pc = "dlopen"
  BY OneCompiler DEF NativeOpen
<1>2. me(c).goal = "jit" /\ ~Exe(c)
  BY <1>1 DEF Local, Placed, Switched, Exe
<1>3. PICK label : label = proc[c].then
  OBVIOUS
<1>4. label \in {"aotProbe", "native", "jitLoad", "compile"} /\ Switched(c, label)
  BY <1>1, <1>3 DEF Local, Placed
<1>5. CASE Goto(c, label)
  <2>1. Set(c, At(c, label)) /\ UNCHANGED <<dir, file>>
    BY <1>5 DEF Goto
  <2>2. Tidies
    BY <1>1, <2>1, NoTidying
  <2> QED BY <1>1, <1>2, <1>4, <2>1, <2>2, LabelStep DEF Ahead, Asking
<1>6. CASE ~Goto(c, label)
  <2>1. PICK n : n = Name(c, "so")
    OBVIOUS
  <2>2. n \in Names /\ n[1] = "so" /\ n[2] = me(c).id
    BY <1>1, <2>1, NameTyped DEF Kinds, SharedKinds
  <2>3. Whole(n)
    BY <1>3, <1>6, <2>1 DEF NativeOpen
  <2>4. PICK m : m = file[dir[n]].made
    OBVIOUS
  <2>5. m \in MadeType /\ GoodFor(n, m) /\ Yield(dir[n]) = m
    BY <2>2, <2>3, <2>4, Yields
  <2>6. PICK q : q = [At(c, "finish") EXCEPT !.out = [m EXCEPT !.libs = proc[c].links]]
    OBVIOUS
  <2>7. proc' = [proc EXCEPT ![c] = q] /\ UNCHANGED <<dir, file>>
    BY <1>3, <1>6, <2>1, <2>5, <2>6 DEF NativeOpen, Set
  <2>8. /\ q \in ProcType /\ q.pc = "finish" /\ q.ino = proc[c].ino /\ q.bc = proc[c].bc
        /\ q.std = proc[c].std /\ q.out.good = m.good /\ q.out.prog = m.prog
    BY <1>1, <2>5, <2>6 DEF At, ProcType, Labels, Ending, MadeType
  <2>9. Local(c, q)
    <3>1. Placed(c, q)
      BY <1>1, <2>8 DEF Local, Placed, Switched
    <3>2. MadeFor(me(c).id, q.out)
      BY <2>2, <2>5, <2>8 DEF GoodFor, MadeFor, SharedKinds
    <3>3. StdWhole(c, q) /\ Results(c, q)
      BY <1>1, <1>2, <2>8, <3>2 DEF Local, StdWhole, Busy, Idle, Ahead, Results, HasNothing, HasOwn,
           HasSome, Puts, Saving, Asking
    <3> QED BY <3>1, <3>3 DEF Local
  <2>10. Quiet(c, q)
    BY <1>1, <2>7, <2>8, <2>9, NoTidying DEF Quiet, Moves, Tidies
  <2> QED BY <1>1, <1>2, <2>8, <2>10, PlainStep DEF Busy, Idle
<1> QED BY <1>5, <1>6

(* So does the JIT's bitcode, and its list of libraries is known if the    *)
(* bitcode cache is not in use.                                            *)
LEMMA JitLoadStep ==
  ASSUME CacheInv, NEW c \in Compilers, JitLoad(c), UNCHANGED <<scene, kills, losses>>
  PROVE  CacheInv'
<1>1. /\ CacheType /\ scene \in Scenes /\ proc[c] \in ProcType /\ Local(c, proc[c])
      /\ proc[c].pc = "jitLoad" /\ Past(proc[c])
  BY OneCompiler DEF JitLoad, Past
<1>2. CASE Goto(c, "jitDrop") \/ Goto(c, "compile")
  <2>1. PICK label \in {"jitDrop", "compile"} : Set(c, At(c, label)) /\ UNCHANGED <<dir, file>>
    BY <1>2 DEF Goto
  <2>2. Tidies /\ Switched(c, label)
    BY <1>1, <2>1, NoTidying DEF Switched
  <2> QED BY <1>1, <2>1, <2>2, LabelStep DEF Ahead, Asking
<1>3. CASE ~(Goto(c, "jitDrop") \/ Goto(c, "compile"))
  <2>1. PICK n : n = Name(c, "jit")
    OBVIOUS
  <2>2. n \in Names /\ n[1] = "jit" /\ n[2] = me(c).id
    BY <1>1, <2>1, NameTyped DEF Kinds, SharedKinds
  <2>3. Whole(n)
    BY <1>3, <2>1 DEF JitLoad
  <2>4. PICK m : m = file[dir[n]].made
    OBVIOUS
  <2>5. m \in MadeType /\ GoodFor(n, m) /\ Yield(dir[n]) = m
    BY <2>2, <2>3, <2>4, Yields
  <2>6. PICK label : label = Enter(c, "aotSave")
    OBVIOUS
  <2>7. label \in {"aotSave", "finish"} /\ Switched(c, label)
    BY <2>6, EnterAotSave
  <2>8. PICK q : q = [At(c, label) EXCEPT !.out = m]
    OBVIOUS
  <2>9. proc' = [proc EXCEPT ![c] = q] /\ UNCHANGED <<dir, file>>
    BY <1>3, <2>1, <2>5, <2>6, <2>8 DEF JitLoad, Set
  <2>10. /\ q \in ProcType /\ q.pc = label /\ q.ino = proc[c].ino /\ q.bc = proc[c].bc
         /\ q.std = proc[c].std /\ q.out = m
    BY <1>1, <2>5, <2>7, <2>8 DEF At, ProcType, Labels, Ending
  <2>11. Local(c, q)
    <3>1. Placed(c, q)
      BY <1>1, <2>7, <2>10 DEF Local, Placed
    <3>2. MadeFor(me(c).id, m) /\ (ListKept => m.libs) /\ m.good
      BY <2>2, <2>5 DEF GoodFor, MadeFor, SharedKinds
    <3>3. m # NoMade
      BY <3>2 DEF NoMade
    <3>4. StdWhole(c, q) /\ Results(c, q)
      BY <1>1, <2>7, <2>10, <3>2, <3>3 DEF Local, StdWhole, Busy, Idle, Ahead, Results, HasNothing,
           HasOwn, HasSome, Puts, Saving, Asking
    <3> QED BY <3>1, <3>4 DEF Local
  <2>12. Quiet(c, q)
    BY <1>1, <2>7, <2>9, <2>10, <2>11, NoTidying DEF Quiet, Moves, Tidies
  <2> QED BY <1>1, <2>7, <2>10, <2>12, PlainStep DEF Busy, Idle
<1> QED BY <1>2, <1>3

(* The executable is opened, or there is none.  With compilers in turn its *)
(* mode shows that it is whole.                                            *)
LEMMA AotProbeStep ==
  ASSUME CacheInv, NEW c \in Compilers, AotProbe(c), UNCHANGED <<scene, kills, losses>>
  PROVE  CacheInv'
<1>1. /\ CacheType /\ scene \in Scenes /\ proc[c] \in ProcType /\ Local(c, proc[c])
      /\ proc[c].pc = "aotProbe" /\ ListThere(c)
  BY OneCompiler DEF AotProbe
<1>2. PICK n : n = Name(c, "aot")
  OBVIOUS
<1>3. n \in Names /\ n[1] = "aot" /\ n[2] = me(c).id
  BY <1>1, <1>2, NameTyped DEF Kinds, SharedKinds
<1>4. CASE ~Exists(n) /\ Goto(c, Enter(c, "native"))
  <2>1. PICK label : label = Enter(c, "native")
    OBVIOUS
  <2>2. Set(c, At(c, label)) /\ UNCHANGED <<dir, file>> /\ dir'[n] = None
    BY <1>4, <2>1 DEF Goto, Exists
  <2>3. label \in {"native", "jitLoad", "compile"} /\ Switched(c, label)
    BY <2>1, EnterNative
  <2>4. Tidies
    BY <1>1, <2>2, NoTidying
  <2> QED BY <1>1, <1>2, <2>2, <2>3, <2>4, LabelStep DEF Ahead, Asking
<1>5. CASE Goto(c, "aotDrop")
  <2>1. Set(c, At(c, "aotDrop")) /\ UNCHANGED <<dir, file>>
    BY <1>5 DEF Goto
  <2>2. Tidies /\ Switched(c, "aotDrop")
    BY <1>1, <2>1, NoTidying DEF Local, Placed, Switched
  <2> QED BY <1>1, <2>1, <2>2, LabelStep DEF Ahead, Asking
<1>6. CASE /\ Exists(n) /\ HasHeader(n) /\ file[dir[n]].exec
           /\ Set(c, [At(c, "copy") EXCEPT !.ino = dir[n], !.left = 1, !.got = {}])
           /\ UNCHANGED <<dir, file>>
  <2>1. PICK i : i = dir[n]
    OBVIOUS
  <2>2. i \in Inodes /\ i # None
    BY <1>1, <1>3, <1>6, <2>1, CacheAssumption DEF CacheType, Exists
  <2>3. PICK q : q = [At(c, "copy") EXCEPT !.ino = i, !.left = 1, !.got = {}]
    OBVIOUS
  <2>4. proc' = [proc EXCEPT ![c] = q] /\ UNCHANGED <<dir, file>>
    BY <1>6, <2>1, <2>3 DEF Set
  <2>5. /\ q \in ProcType /\ q.pc = "copy" /\ q.ino = i /\ q.out = proc[c].out /\ q.bc = proc[c].bc
        /\ q.std = proc[c].std /\ q.left = 1 /\ q.got = {}
    <3>1. 1 \in 1..3 /\ {} \in SUBSET Blocks /\ i \in Inodes \cup {None} /\ "copy" \in Labels
      BY <2>2 DEF Labels, Asking
    <3> QED BY <1>1, <2>3, <3>1 DEF At, ProcType
  <2>6. Local(c, q)
    <3>1. Placed(c, q)
      BY <1>1, <2>2, <2>5 DEF Local, Placed, Switched
    <3>2. StdWhole(c, q) /\ Results(c, q)
      BY <1>1, <2>5 DEF Local, StdWhole, Busy, Idle, Ahead, Results, HasNothing, HasOwn, HasSome, Puts,
                        Saving, Asking
    <3> QED BY <3>1, <3>2 DEF Local
  <2>7. Quiet(c, q)
    BY <1>1, <2>4, <2>5, <2>6, NoTidying DEF Quiet, Moves, Tidies
  <2>8. /\ proc'[c] = q /\ \A d \in Compilers : d # c => proc'[d] = proc[d]
    BY <1>1, <2>7, Moved DEF Quiet
  <2>9. /\ Names' = Names /\ Compilers' = Compilers /\ Name(c, "aot")' = n
        /\ \A d, k : Name(d, k)' = Name(d, k)
        /\ (Turns' <=> Turns) /\ me(c)' = me(c)
    BY <1>2, SceneFixed
  <2>10. NameInv'
    <3>1. OneName'
      BY <2>4, <2>9 DEF CacheInv, NameInv, OneName, Exists
    <3>2. ASSUME NEW d \in Compilers, d # c PROVE Private(d)' /\ Reach(d)'
      <4>1. Private(d) /\ Reach(d) /\ proc'[d] = proc[d]
        BY <2>8, <3>2 DEF CacheInv, NameInv
      <4>2. Puts(proc[d], Renamed) => i # proc[d].ino
        BY <1>3, <2>1, <4>1 DEF Private
      <4>3. Private(d)'
        BY <2>4, <2>5, <2>8, <2>9, <4>1, <4>2 DEF Private
      <4>4. Reach(d)'
        BY <2>4, <2>9, <4>1 DEF Reach
      <4> QED BY <4>3, <4>4
    <3>3. Private(c)'
      BY <2>5, <2>8 DEF Private, Puts
    <3>4. Reach(c)'
      BY <1>3, <1>6, <2>1, <2>4, <2>5, <2>8, <2>9 DEF Reach, CacheInv, NameInv, OneName
    <3> QED BY <2>9, <3>1, <3>2, <3>3, <3>4 DEF NameInv
  <2>11. ListThere(c)'
    <3>1. ListKept => file[i].made.libs
      BY <1>3, <1>6, <2>1 DEF CacheInv, FileInv, EntriesGood, GoodFor
    <3>2. ListKept' <=> ListKept
      BY Judged
    <3>3. Busy(proc[c])
      BY <1>1 DEF Busy, Idle
    <3> QED BY <1>1, <2>4, <2>5, <2>8, <2>9, <3>1, <3>2, <3>3 DEF ListThere, Exists
  <2>12. ExeStep(c)'
    <3>1. Turns => file[i].blocks = Blocks
      BY <1>3, <1>6, <2>1 DEF CacheInv, TurnInv, ExecWhole, HasHeader
    <3>2. \A b \in Blocks : b \in q.got <=> b < q.left
      BY <2>5 DEF Blocks
    <3> QED BY <2>1, <2>4, <2>5, <2>8, <2>9, <3>1, <3>2 DEF ExeStep, Past, Puts, Saving
  <2> QED BY <1>1, <2>7, <2>10, <2>11, <2>12, QuietStep DEF Busy, Idle
<1> QED BY <1>2, <1>4, <1>5, <1>6 DEF AotProbe

(* With compilers in turn nobody cuts the executable while it is copied. *)
LEMMA CopyBlockStep ==
  ASSUME CacheInv, NEW c \in Compilers, CopyBlock(c), UNCHANGED <<scene, kills, losses>>
  PROVE  CacheInv'
<1>1. /\ CacheType /\ scene \in Scenes /\ proc[c] \in ProcType /\ Local(c, proc[c])
      /\ proc[c].pc = "copy" /\ ListThere(c) /\ ExeStep(c)
  BY OneCompiler DEF CopyBlock
<1>2. PICK p : p = proc[c]
  OBVIOUS
<1>3. PICK got : got = p.got \cup (file[p.ino].blocks \cap {p.left})
  OBVIOUS
<1>4. PICK q : q = [p EXCEPT !.got = got, !.left = p.left + 1]
  OBVIOUS
<1>5. proc' = [proc EXCEPT ![c] = q] /\ UNCHANGED <<dir, file>> /\ p.left \in Blocks
  BY <1>2, <1>3, <1>4 DEF CopyBlock, Set
<1>6. /\ q \in ProcType /\ q.pc = "copy" /\ q.ino = p.ino /\ q.out = p.out /\ q.bc = p.bc
      /\ q.std = p.std /\ q.left = p.left + 1 /\ q.got = got /\ q.name = p.name
  <2>1. got \in SUBSET Blocks /\ p.left + 1 \in 1..3
    BY <1>1, <1>2, <1>3, <1>5 DEF ProcType, Blocks
  <2> QED BY <1>1, <1>2, <1>4, <2>1 DEF ProcType
<1>7. Local(c, q)
  <2>1. Placed(c, q)
    BY <1>1, <1>2, <1>6 DEF Local, Placed
  <2>2. StdWhole(c, q) /\ Results(c, q)
    BY <1>1, <1>2, <1>6 DEF Local, StdWhole, Busy, Idle, Ahead, Results, HasNothing, HasOwn, HasSome,
         Puts, Saving, Asking
  <2> QED BY <2>1, <2>2 DEF Local
<1>8. Quiet(c, q)
  BY <1>1, <1>5, <1>6, <1>7, NoTidying DEF Quiet, Moves, Tidies
<1>9. proc'[c] = q
  BY <1>1, <1>8, Moved DEF Quiet
<1>10. /\ Name(c, "aot")' = Name(c, "aot") /\ Name(c, "bc.libs")' = Name(c, "bc.libs")
       /\ (Turns' <=> Turns) /\ (Exe(c)' <=> Exe(c)) /\ me(c)' = me(c)
  BY SceneFixed
<1>11. NameInv'
  BY <1>1, <1>2, <1>6, <1>8, NamesShrink DEF Quiet
<1>12. ListThere(c)'
  <2>1. ListKept' <=> ListKept
    BY Judged
  <2> QED BY <1>1, <1>2, <1>5, <1>6, <1>9, <1>10, <2>1 DEF ListThere, Exists, Busy
<1>13. ExeStep(c)'
  <2>1. SUFFICES ASSUME Turns, Exe(c) PROVE /\ dir[Name(c, "aot")] = q.ino /\ file[q.ino].blocks = Blocks
                                            /\ \A b \in Blocks : b \in q.got <=> b < q.left
    BY <1>5, <1>6, <1>9, <1>10 DEF ExeStep, Past, Puts, Saving
  <2>2. /\ dir[Name(c, "aot")] = p.ino /\ file[p.ino].blocks = Blocks
        /\ \A b \in Blocks : b \in p.got <=> b < p.left
    BY <1>1, <1>2, <2>1 DEF ExeStep
  <2>3. ASSUME NEW b \in Blocks PROVE b \in q.got <=> b < q.left
    <3>1. b \in q.got <=> b < p.left \/ b = p.left
      BY <1>3, <1>5, <1>6, <2>2
    <3> QED BY <1>5, <1>6, <3>1 DEF Blocks
  <2> QED BY <1>6, <2>2, <2>3
<1> QED BY <1>1, <1>8, <1>11, <1>12, <1>13, QuietStep DEF Busy, Idle

(* What was copied has all blocks, or it was not the program's executable  *)
(* that was copied in turn.                                                *)
LEMMA CopiedStep ==
  ASSUME CacheInv, NEW c \in Compilers, Copied(c), UNCHANGED <<scene, kills, losses>>
  PROVE  CacheInv'
<1>1. /\ CacheType /\ scene \in Scenes /\ proc[c] \in ProcType /\ Local(c, proc[c])
      /\ proc[c].pc = "copy" /\ ListThere(c) /\ ExeStep(c)
  BY OneCompiler DEF Copied
<1>2. PICK p : p = proc[c]
  OBVIOUS
<1>3. /\ p.left = 3 /\ Exe(c) /\ p.ino \in Inodes /\ UNCHANGED <<dir, file>>
  BY <1>1, <1>2 DEF Copied, ProcType, Blocks, Local, Placed, Switched
<1>4. Turns => /\ dir[Name(c, "aot")] = p.ino /\ file[p.ino].blocks = Blocks /\ p.got = Blocks
  BY <1>1, <1>2, <1>3 DEF ExeStep, ProcType, Blocks
<1>5. CASE 1 \in p.got
  <2>1. PICK m : m = [file[p.ino].made EXCEPT !.good = @ /\ p.got = Blocks]
    OBVIOUS
  <2>2. file[p.ino].made \in MadeType
    BY <1>1, <1>3 DEF CacheType, FileType
  <2>3. /\ m \in MadeType /\ m.prog = file[p.ino].made.prog /\ m.libs = file[p.ino].made.libs
        /\ m.good <=> file[p.ino].made.good /\ p.got = Blocks
    BY <2>1, <2>2 DEF MadeType
  <2>4. PICK q : q = [p EXCEPT !.pc = "finish", !.ino = None, !.out = m]
    OBVIOUS
  <2>5. proc' = [proc EXCEPT ![c] = q]
    BY <1>2, <1>5, <2>1, <2>4 DEF Copied, Set, Left
  <2>6. /\ q \in ProcType /\ q.pc = "finish" /\ q.ino = None /\ q.out = m /\ q.bc = p.bc
        /\ q.std = p.std
    BY <1>1, <1>2, <2>3, <2>4 DEF ProcType, Labels, Ending
  <2>7. Local(c, q)
    <3>1. Placed(c, q)
      BY <1>1, <1>2, <2>6 DEF Local, Placed, Switched
    <3>2. StdWhole(c, q)
      BY <1>1, <1>2, <2>6 DEF Local, StdWhole, Busy, Idle, Ahead
    <3>3. ListKept /\ me(c).goal = "aot" => m.libs
      BY <1>1, <1>2, <2>3 DEF ListThere
    <3>4. ExeSafe => MadeFor(me(c).id, m)
      <4>1. SUFFICES ASSUME Turns PROVE MadeFor(me(c).id, m)
        BY <1>3 DEF ExeSafe, Turns, Exe
      <4>2. Name(c, "aot") \in Names /\ Name(c, "aot")[1] = "aot" /\ Name(c, "aot")[2] = me(c).id
        BY <1>1, NameTyped DEF Kinds, SharedKinds
      <4>3. p.ino # None
        BY <1>3, CacheAssumption
      <4>4. GoodFor(Name(c, "aot"), file[p.ino].made)
        BY <1>4, <4>1, <4>2, <4>3 DEF CacheInv, FileInv, EntriesGood, Exists
      <4> QED BY <1>4, <2>3, <4>1, <4>2, <4>4 DEF GoodFor, MadeFor, SharedKinds
    <3>5. Results(c, q)
      BY <2>6, <3>3, <3>4 DEF Results, HasNothing, HasOwn, HasSome, Puts, Saving, Asking, Ahead
    <3> QED BY <3>1, <3>2, <3>5 DEF Local
  <2>8. Quiet(c, q)
    BY <1>1, <1>3, <2>5, <2>6, <2>7, NoTidying DEF Quiet, Moves, Tidies
  <2> QED BY <1>1, <1>2, <2>6, <2>8, PlainStep DEF Busy, Idle, Past, Puts, Saving
<1>6. CASE 1 \notin p.got
  <2>1. ~Turns
    BY <1>4, <1>6 DEF Blocks
  <2>2. PICK label : label = Enter(c, "native")
    OBVIOUS
  <2>3. label \in {"native", "jitLoad", "compile"} /\ Switched(c, label)
    BY <2>2, EnterNative
  <2>4. PICK q : q = [p EXCEPT !.pc = label, !.ino = None]
    OBVIOUS
  <2>5. proc' = [proc EXCEPT ![c] = q]
    BY <1>2, <1>6, <2>2, <2>4 DEF Copied, Set, Left
  <2>6. /\ q \in ProcType /\ q.pc = label /\ q.ino = None /\ q.out = p.out /\ q.bc = p.bc
        /\ q.std = p.std
    <3>1. label \in Labels
      BY <2>3 DEF Labels, Asking
    <3>2. p \in ProcType
      BY <1>1, <1>2
    <3> QED BY <2>4, <3>1, <3>2 DEF ProcType
  <2>7. Local(c, q)
    <3>1. Placed(c, q)
      BY <1>1, <1>2, <2>3, <2>6 DEF Local, Placed
    <3>2. StdWhole(c, q) /\ Results(c, q)
      BY <1>1, <1>2, <2>3, <2>6 DEF Local, StdWhole, Busy, Idle, Ahead, Results, HasNothing, HasOwn,
           HasSome, Puts, Saving, Asking
    <3> QED BY <3>1, <3>2 DEF Local
  <2>8. Quiet(c, q)
    BY <1>1, <1>3, <2>3, <2>5, <2>6, <2>7, NoTidying DEF Quiet, Moves, Tidies
  <2>9. proc'[c] = q /\ me(c)' = me(c) /\ Name(c, "bc.libs")' = Name(c, "bc.libs")
    BY <1>1, <2>8, Moved, SceneFixed DEF Quiet
  <2>10. ListThere(c)'
    BY <1>1, <1>2, <1>3, <2>3, <2>6, <2>9 DEF ListThere, Exists, Busy, Idle
  <2>11. ExeStep(c)'
    BY <2>1, SceneFixed DEF ExeStep
  <2> QED BY <1>1, <2>3, <2>6, <2>8, <2>10, <2>11, QuietStep DEF Busy, Idle
<1> QED BY <1>5, <1>6

(* A compile of one's own is the compiler's program; one on the bitcode    *)
(* goes on to link.                                                        *)
LEMMA CompileStep ==
  ASSUME CacheInv, NEW c \in Compilers, Compile(c), UNCHANGED <<scene, kills, losses>>
  PROVE  CacheInv'
<1>1. /\ CacheType /\ scene \in Scenes /\ proc[c] \in ProcType /\ Local(c, proc[c])
      /\ proc[c].pc = "compile" /\ ListThere(c) /\ ExeStep(c) /\ UNCHANGED <<dir, file>>
  BY OneCompiler DEF Compile
<1>2. Past(proc[c]) /\ Busy(proc[c]) /\ proc[c].std = Blocks
  BY <1>1 DEF Past, Busy, Idle, Local, StdWhole, Ahead
<1>3. CASE proc[c].bc
  <2>1. PICK whole : whole = Whole(Name(c, "bc.libs"))
    OBVIOUS
  <2>2. whole \in BOOLEAN /\ (whole <=> Whole(Name(c, "bc.libs")))
    BY <2>1 DEF Whole, Exists
  <2>3. PICK q : q = [At(c, "link") EXCEPT !.links = whole]
    OBVIOUS
  <2>4. proc' = [proc EXCEPT ![c] = q]
    BY <1>3, <2>1, <2>3 DEF Compile, Set
  <2>5. /\ q \in ProcType /\ q.pc = "link" /\ q.ino = proc[c].ino /\ q.out = proc[c].out
        /\ q.bc = proc[c].bc /\ q.std = proc[c].std /\ q.links = whole
    BY <1>1, <2>2, <2>3 DEF At, ProcType, Labels, Asking
  <2>6. Local(c, q)
    <3>1. Placed(c, q)
      BY <1>1, <1>3, <2>5 DEF Local, Placed, Switched
    <3>2. StdWhole(c, q) /\ Results(c, q)
      BY <1>1, <2>5 DEF Local, StdWhole, Busy, Idle, Ahead, Results, HasNothing, HasOwn, HasSome, Puts,
                        Saving, Asking
    <3> QED BY <3>1, <3>2 DEF Local
  <2>7. Quiet(c, q)
    BY <1>1, <2>4, <2>5, <2>6, NoTidying DEF Quiet, Moves, Tidies
  <2>8. /\ proc'[c] = q /\ me(c)' = me(c) /\ \A k : Name(c, k)' = Name(c, k)
        /\ (Exe(c)' <=> Exe(c)) /\ (Turns' <=> Turns)
    BY <1>1, <2>7, Moved, SceneFixed DEF Quiet
  <2>9. ListThere(c)'
    <3>1. Name(c, "bc.libs") \in Names /\ Name(c, "bc.libs")[1] = "bc.libs"
      BY <1>1, NameTyped DEF Kinds
    <3>2. losses = 0 /\ Exists(Name(c, "bc.libs")) => whole
      BY <2>2, <3>1 DEF CacheInv, FileInv, RenamedWhole, Renamed, Whole
    <3>3. me(c).goal = "aot" => Exists(Name(c, "bc.libs"))
      BY <1>1, <1>2, <1>3 DEF ListThere
    <3>4. me(c).goal = "aot" => Exists(Name(c, "bc.libs"))' /\ (losses' = 0 => proc'[c].links)
      BY <1>1, <2>5, <2>8, <3>2, <3>3 DEF Exists
    <3>5. proc'[c].pc = "link"
      BY <2>5, <2>8
    <3> QED BY <2>8, <3>4, <3>5 DEF ListThere
  <2>10. ExeStep(c)'
    BY <1>1, <1>2, <2>5, <2>8 DEF ExeStep, Puts, Exists
  <2> QED BY <1>1, <1>2, <2>5, <2>7, <2>9, <2>10, QuietStep
<1>4. CASE ~proc[c].bc
  <2>1. PICK label : label = Enter(c, "bcSave")
    OBVIOUS
  <2>2. label \in {"bcSave", "nativeSave", "jitSave", "bcAgain", "aotSave", "finish"} /\ Switched(c, label)
    BY <2>1, EnterBcSave
  <2>3. PICK m : m = Own(c)
    OBVIOUS
  <2>4. m = [prog |-> me(c).id, entry |-> me(c).entry, good |-> TRUE, libs |-> TRUE]
    BY <1>2, <2>3 DEF Own
  <2>5. m \in MadeType /\ m # NoMade /\ MadeFor(me(c).id, m) /\ m.entry = me(c).entry /\ m.libs
    BY <1>1, <2>4, ProgramTyped DEF MadeType, NoMade, MadeFor
  <2>6. PICK q : q = [At(c, label) EXCEPT !.out = m]
    OBVIOUS
  <2>7. proc' = [proc EXCEPT ![c] = q]
    BY <1>4, <2>1, <2>3, <2>6 DEF Compile, Set
  <2>8. /\ q \in ProcType /\ q.pc = label /\ q.ino = proc[c].ino /\ q.out = m
        /\ q.bc = proc[c].bc /\ q.std = proc[c].std
    BY <1>1, <2>2, <2>5, <2>6 DEF At, ProcType, Labels, Saving, Ending
  <2>9. Local(c, q)
    <3>1. Placed(c, q)
      BY <1>1, <2>2, <2>8 DEF Local, Placed
    <3>2. StdWhole(c, q) /\ Results(c, q)
      BY <1>1, <1>2, <2>2, <2>5, <2>8 DEF StdWhole, Results, HasNothing, HasOwn, HasSome, Puts,
                        Saving, Asking, Ahead
    <3> QED BY <3>1, <3>2 DEF Local
  <2>10. Quiet(c, q)
    BY <1>1, <2>2, <2>7, <2>8, <2>9, NoTidying DEF Quiet, Moves, Tidies
  <2> QED BY <1>1, <1>2, <2>2, <2>8, <2>10, PlainStep
<1> QED BY <1>3, <1>4

(* A compiler ends, well or not, and keeps only its result. *)
LEMMA EndStep ==
  ASSUME CacheInv, NEW c \in Compilers, NEW how, UNCHANGED <<scene, kills, losses>>,
         End(c, how), Tidies, Busy(proc[c]),
         proc[c].pc \notin {"write", "ld", "ldDone", "soRename", "soLibs", "chmod"},
         how = "failed" \/ (how = "ok" /\ proc[c].pc = "finish")
  PROVE  CacheInv'
<1>1. CacheType /\ proc[c] \in ProcType /\ Local(c, proc[c])
  BY OneCompiler
<1>2. PICK q : q = [Start(how) EXCEPT !.out = proc[c].out]
  OBVIOUS
<1>3. proc' = [proc EXCEPT ![c] = q]
  BY <1>2 DEF End
<1>4. q = [Start(how) EXCEPT !.out = proc[c].out] /\ proc[c].out \in MadeType
  BY <1>1, <1>2 DEF ProcType
<1>5. /\ q \in ProcType /\ q.pc = how /\ q.ino = None /\ q.out = proc[c].out /\ ~q.bc
  <2>1. how \in Labels /\ "none" \in Labels \cup {"none"} /\ <<"std", 0>> \in Kinds \X Int /\ 1 \in 1..3
    BY DEF Labels, Idle, Kinds
  <2>2. {} \in SUBSET Blocks /\ None \in Inodes \cup {None}
    OBVIOUS
  <2> QED BY <1>4, <2>1, <2>2 DEF Start, ProcType
<1>6. Local(c, q)
  <2>1. Placed(c, q)
    BY <1>5 DEF Placed, Switched
  <2>2. StdWhole(c, q)
    BY <1>5 DEF StdWhole, Busy, Idle
  <2>3. Results(c, q)
    BY <1>1, <1>5 DEF Local, Results, HasNothing, HasOwn, HasSome, Puts, Saving, Asking, Ahead
  <2> QED BY <2>1, <2>2, <2>3 DEF Local
<1>7. Quiet(c, q)
  BY <1>3, <1>5, <1>6 DEF Quiet, Moves, Tidies
<1> QED BY <1>5, <1>7, PlainStep DEF Past, Puts, Saving

(* The result of a compile that ends well is what the compiler made or     *)
(* took.                                                                   *)
LEMMA FinishStep ==
  ASSUME CacheInv, NEW c \in Compilers, Finish(c), UNCHANGED <<scene, kills, losses>>
  PROVE  CacheInv'
<1>1. CacheType /\ proc[c].pc = "finish" /\ End(c, "ok") /\ UNCHANGED <<dir, file>>
  BY DEF CacheInv, Finish
<1>2. Tidies
  BY <1>1, NoTidying
<1> QED BY <1>1, <1>2, EndStep DEF Busy, Idle

(* A compile that is run again begins with nothing. *)
LEMMA RetryStep ==
  ASSUME CacheInv, NEW c \in Compilers, Retry(c), UNCHANGED <<scene, kills, losses>>
  PROVE  CacheInv'
<1>1. CacheType /\ proc[c].pc = "failed"
  BY DEF CacheInv, Retry
<1>2. PICK q : q = Start("new")
  OBVIOUS
<1>3. proc' = [proc EXCEPT ![c] = q] /\ UNCHANGED <<dir, file>>
  BY <1>2 DEF Retry
<1>4. /\ q \in ProcType /\ q.pc = "new" /\ q.ino = None /\ q.out = NoMade /\ ~q.bc
  <2>1. "new" \in Labels /\ "none" \in Labels \cup {"none"} /\ <<"std", 0>> \in Kinds \X Int /\ 1 \in 1..3
    BY DEF Labels, Idle, Kinds
  <2>2. {} \in SUBSET Blocks /\ None \in Inodes \cup {None}
    OBVIOUS
  <2>3. NoMade \in MadeType
    <3>1. 0 \in Int /\ "none" \in STRING \cup {"none"} /\ FALSE \in BOOLEAN
      OBVIOUS
    <3> QED BY <3>1 DEF NoMade, MadeType
  <2> QED BY <1>2, <2>1, <2>2, <2>3 DEF Start, ProcType
<1>5. Local(c, q)
  <2>1. Placed(c, q) /\ StdWhole(c, q)
    BY <1>4 DEF Placed, Switched, StdWhole, Busy, Idle
  <2>2. Results(c, q)
    BY <1>4 DEF Results, HasNothing, HasOwn, HasSome, Puts, Saving, Asking, Ahead
  <2> QED BY <2>1, <2>2 DEF Local
<1>6. Quiet(c, q)
  BY <1>1, <1>3, <1>4, <1>5, NoTidying DEF Quiet, Moves, Tidies
<1>7. proc'[c] = q
  BY <1>1, <1>6, Moved DEF Quiet
<1>8. ListThere(c)' /\ ExeStep(c)' /\ ~Busy(q)
  BY <1>4, <1>7 DEF ListThere, ExeStep, Busy, Idle, Past, Puts, Saving
<1> QED BY <1>1, <1>3, <1>4, <1>6, <1>8, QuietStep

(* A library that was built is whole; without its source the compile      *)
(* ends.                                                                   *)
LEMMA StdBuildStep ==
  ASSUME CacheInv, NEW c \in Compilers, StdBuild(c), UNCHANGED <<scene, kills, losses>>
  PROVE  CacheInv'
<1>1. CacheType /\ proc[c] \in ProcType /\ proc[c].pc = "stdBuild"
  BY OneCompiler DEF StdBuild
<1> SUFFICES ASSUME scene.src PROVE CacheInv'
  <2>1. CASE ~scene.src
    <3>1. Fail(c) /\ UNCHANGED <<dir, file>>
      BY <2>1 DEF StdBuild
    <3> QED BY <1>1, <3>1, NoTidying, EndStep DEF Fail, Busy, Idle
  <2> QED BY <2>1
<1>2. PICK label : label = Enter(c, "stdSave")
  OBVIOUS
<1>3. /\ label \in {"stdSave", "early", "aotProbe", "native", "jitLoad", "compile"} /\ Switched(c, label)
      /\ Exe(c) => label \in {"stdSave", "aotProbe"}
  BY <1>2, EnterStdSave
<1>4. PICK q : q = [At(c, label) EXCEPT !.std = Blocks]
  OBVIOUS
<1>5. proc' = [proc EXCEPT ![c] = q] /\ UNCHANGED <<dir, file>>
  BY <1>2, <1>4 DEF StdBuild, Set
<1>6. /\ q \in ProcType /\ q.pc = label /\ q.ino = proc[c].ino /\ q.out = proc[c].out
      /\ q.bc = proc[c].bc /\ q.std = Blocks
  BY <1>1, <1>3, <1>4 DEF At, ProcType, Labels, Asking
<1>7. Moves(c, q) /\ Tidies
  BY <1>1, <1>5, <1>6, NoTidying DEF Moves
<1> QED BY <1>1, <1>3, <1>6, <1>7, GotoStep DEF Ahead, Asking

(* Bitcode that links gives the program, if nobody compiles its source     *)
(* with an entry of its own name.                                          *)
LEMMA LinkStep ==
  ASSUME CacheInv, NEW c \in Compilers, Link(c), UNCHANGED <<scene, kills, losses>>
  PROVE  CacheInv'
<1>1. /\ CacheType /\ scene \in Scenes /\ proc[c] \in ProcType /\ Local(c, proc[c])
      /\ proc[c].pc = "link" /\ ListThere(c)
  BY OneCompiler DEF Link
<1>2. Past(proc[c]) /\ Busy(proc[c]) /\ proc[c].std = Blocks
  BY <1>1 DEF Past, Busy, Idle, Local, StdWhole, Ahead
<1>3. PICK n : n = Name(c, "bc")
  OBVIOUS
<1>4. n \in Names /\ n[1] = "bc"
  BY <1>1, <1>3, NameTyped DEF Kinds
<1>5. CASE Fail(c) /\ (UNCHANGED <<dir, file>> \/ Unlink({n}))
  <2>1. {n} = {Name(c, k) : k \in {"bc"}}
    BY <1>3
  <2>2. Tidies
    BY <1>1, <1>5, <2>1, NoTidying, Tidying DEF Kinds
  <2> QED BY <1>1, <1>2, <1>5, <2>2, EndStep DEF Fail
<1>6. CASE Whole(n) /\ ~Fail(c)
  <2>1. PICK made : made = file[dir[n]].made
    OBVIOUS
  <2>2. made \in MadeType /\ made.good /\ made.entry # "top"
    BY <1>4, <1>6, <2>1, Yields DEF GoodFor
  <2>3. PICK label : label = Enter(c, "nativeSave")
    OBVIOUS
  <2>4. label \in {"nativeSave", "jitSave", "bcAgain", "aotSave", "finish"} /\ Switched(c, label)
    BY <2>3, EnterNativeSave
  <2>5. PICK m : m = [Own(c) EXCEPT !.prog = IF me(c).entry = made.entry THEN made.prog ELSE @,
                                    !.good = @ /\ made.good, !.libs = proc[c].links]
    OBVIOUS
  <2>6. m = [prog |-> IF me(c).entry = made.entry THEN made.prog ELSE me(c).id, entry |-> me(c).entry,
             good |-> TRUE, libs |-> proc[c].links]
    BY <1>2, <2>2, <2>5 DEF Own
  <2>7. m \in MadeType /\ m # NoMade /\ m.entry = me(c).entry /\ m.good /\ m.libs = proc[c].links
    BY <1>1, <2>2, <2>6, ProgramTyped DEF MadeType, NoMade, ProcType
  <2>8. Use("bc") /\ MadeFor(me(c).id, m)
    <3>1. Use("bc")
      BY <1>1 DEF Local, Placed
    <3>2. Plain(me(c).id) => me(c).entry = "top"
      BY <3>1 DEF Plain
    <3> QED BY <2>2, <2>6, <2>7, <3>1, <3>2 DEF MadeFor
  <2>9. PICK q : q = [At(c, label) EXCEPT !.out = m]
    OBVIOUS
  <2>10. proc' = [proc EXCEPT ![c] = q] /\ UNCHANGED <<dir, file>>
    BY <1>3, <1>6, <2>1, <2>3, <2>5, <2>9 DEF Link, Set, Exists, Whole
  <2>11. /\ q \in ProcType /\ q.pc = label /\ q.ino = proc[c].ino /\ q.out = m
         /\ q.bc = proc[c].bc /\ q.std = proc[c].std
    BY <1>1, <2>4, <2>7, <2>9 DEF At, ProcType, Labels, Saving, Ending
  <2>12. Local(c, q)
    <3>1. Placed(c, q)
      BY <1>1, <2>4, <2>11 DEF Local, Placed
    <3>2. ListKept /\ me(c).goal = "aot" => m.libs
      BY <1>1, <2>7 DEF ListThere, ListKept
    <3>3. StdWhole(c, q) /\ Results(c, q)
      BY <1>1, <1>2, <2>4, <2>7, <2>8, <2>11, <3>2 DEF StdWhole, Results, HasNothing, HasOwn, HasSome,
           Puts, Saving, Asking, Ahead
    <3> QED BY <3>1, <3>3 DEF Local
  <2>13. Quiet(c, q)
    BY <1>1, <2>4, <2>10, <2>11, <2>12, NoTidying DEF Quiet, Moves, Tidies
  <2> QED BY <1>1, <1>2, <2>4, <2>11, <2>13, PlainStep
<1> QED BY <1>3, <1>5, <1>6 DEF Link

-----------------------------------------------------------------------------
(* Steps that write a file *)

(* A new inode has no name, and nobody has it open. *)
LEMMA FreshIs ==
  ASSUME Unused # {}
  PROVE  /\ Fresh \in Inodes /\ Fresh # None
         /\ \A n \in Names : dir[n] # Fresh
         /\ \A d \in Compilers : proc[d].ino # Fresh
BY CacheAssumption DEF Fresh, Unused, Held

(* Whoever was to write a block still will, if it is not the one that      *)
(* moves.                                                                  *)
LEMMA WriterKept ==
  ASSUME CacheType, NEW c, NEW q, Moves(c, q), NEW i, NEW b, Writer(i, b),
         \/ ~(proc[c].pc = "write" /\ proc[c].ino = i /\ proc[c].left <= b)
         \/ q.pc = "write" /\ q.ino = i /\ q.left <= b
  PROVE  Writer(i, b)'
<1>1. /\ c \in Compilers /\ proc'[c] = q
      /\ \A d \in Compilers : d # c => proc'[d] = proc[d]
      /\ scene' = scene
  BY Moved
<1>2. Compilers' = Compilers
  BY <1>1, SceneFixed
<1> QED BY <1>1, <1>2 DEF Writer

(* The same of whoever was to finish what stands under a name. *)
LEMMA FinisherKept ==
  ASSUME CacheType, NEW c, NEW q, Moves(c, q), NEW n, NEW L, NEW K, Finisher(n, L, K),
         \/ ~(me(c).id = n[2] /\ (proc[c].pc \in L \/ Puts(proc[c], K)))
         \/ q.pc \in L
         \/ Puts(q, K)
  PROVE  Finisher(n, L, K)'
<1>1. /\ c \in Compilers /\ proc'[c] = q
      /\ \A d \in Compilers : d # c => proc'[d] = proc[d]
      /\ scene' = scene
  BY Moved
<1>2. Compilers' = Compilers /\ \A d : me(d)' = me(d)
  BY <1>1, SceneFixed
<1> QED BY <1>1, <1>2 DEF Finisher, Puts

(* The compiler that moves may be the one to finish it. *)
LEMMA NewFinisher ==
  ASSUME CacheType, NEW c, NEW q, Moves(c, q), NEW n, NEW L, NEW K, me(c).id = n[2],
         q.pc \in L \/ Puts(q, K)
  PROVE  Finisher(n, L, K)'
<1>1. c \in Compilers /\ proc'[c] = q /\ scene' = scene
  BY Moved
<1>2. Compilers' = Compilers /\ \A d : me(d)' = me(d)
  BY <1>1, SceneFixed
<1> QED BY <1>1, <1>2 DEF Finisher, Puts

(* What is written to inode i, whatever name it has or gets, fits. *)
LEMMA FilesWritten ==
  ASSUME CacheInv, NEW c, NEW q, Moves(c, q), NEW i \in Inodes,
         \A j \in Inodes : j # i => file'[j] = file[j],
         \A n \in Names : dir'[n] = dir[n] \/ dir'[n] = i,
         \A n \in Names : dir'[n] = i => GoodFor(n, file'[i].made) /\ n[1] \notin Renamed,
         \A d \in Compilers \ {c} : Puts(proc[d], Renamed) => proc[d].ino # i,
         \A d \in Compilers \ {c} : proc[d].pc = "copy" /\ proc[d].ino = i /\ ListKept => file'[i].made.libs,
         TempGood(c)', ListThere(c)'
  PROVE  FileInv'
<1>1. CacheType /\ EntriesGood /\ RenamedWhole /\ \A d \in Compilers : TempGood(d) /\ ListThere(d)
  BY DEF CacheInv, FileInv
<1>2. /\ c \in Compilers /\ proc'[c] = q
      /\ \A d \in Compilers : d # c => proc'[d] = proc[d]
      /\ scene' = scene /\ losses' = losses /\ scene \in Scenes
  BY <1>1, Moved
<1>3. /\ Names' = Names /\ Compilers' = Compilers /\ \A d, k : Name(d, k)' = Name(d, k)
      /\ \A d : me(d)' = me(d)
  BY <1>2, SceneFixed
<1>4. (\A n, m : GoodFor(n, m)' <=> GoodFor(n, m)) /\ (ListKept' <=> ListKept)
  BY <1>2, Judged
<1>5. \A n \in Names : dir[n] \in Inodes \cup {None}
  BY <1>1 DEF CacheType
<1>6. EntriesGood'
  <2> SUFFICES ASSUME NEW n \in Names, dir'[n] # None PROVE GoodFor(n, file'[dir'[n]].made)
    BY <1>3, <1>4 DEF EntriesGood, Exists
  <2> QED BY <1>1, <1>5 DEF EntriesGood, Exists
<1>7. RenamedWhole'
  BY <1>1, <1>2, <1>3, <1>5 DEF RenamedWhole, Exists
<1>8. ASSUME NEW d \in Compilers, d # c PROVE TempGood(d)' /\ ListThere(d)'
  <2>1. proc'[d] = proc[d] /\ TempGood(d) /\ ListThere(d) /\ proc[d].ino \in Inodes \cup {None}
    BY <1>1, <1>2, <1>8 DEF CacheType, ProcType
  <2>2. proc[d].ino # None <=> proc[d].pc \in {"write", "copy"}
    BY DEF CacheInv, LocalInv, Local, Placed
  <2>3. TempGood(d)'
    BY <1>4, <1>8, <2>1, <2>2 DEF TempGood, Puts
  <2>4. Exists(Name(d, "bc.libs")) => Exists(Name(d, "bc.libs"))'
    <3>1. Name(d, "bc.libs") \in Names
      BY <1>2, NameTyped DEF Kinds
    <3> QED BY <1>3, <3>1, CacheAssumption DEF Exists
  <2>5. proc[d].pc = "copy" /\ ListKept /\ file[proc[d].ino].made.libs => file'[proc[d].ino].made.libs
    BY <1>8, <2>1, <2>2
  <2>6. ListThere(d)'
    BY <1>2, <1>3, <1>4, <2>1, <2>4, <2>5 DEF ListThere
  <2> QED BY <2>3, <2>6
<1> QED BY <1>2, <1>3, <1>6, <1>7, <1>8 DEF FileInv

(* Compiler c opens a temporary file of its own. *)
LEMMA TempStep ==
  ASSUME CacheInv, NEW c, NEW q, Moves(c, q), Local(c, q), Puts(q, Renamed), q.left = 1,
         q.ino \in Inodes, \A n \in Names : dir[n] # q.ino, \A d \in Compilers : proc[d].ino # q.ino,
         NEW m \in MadeType, GoodFor(q.name, m),
         file' = [file EXCEPT ![q.ino] = [blocks |-> {}, exec |-> FALSE, made |-> m]],
         UNCHANGED dir, q.bc => proc[c].bc,
         proc[c].pc \in {"stdSave", "bcSave", "bcAgain", "bcLibs", "bcLibsAgain", "jitSave"},
         Past(q) => Past(proc[c])
  PROVE  CacheInv'
<1>1. CacheType
  BY DEF CacheInv
<1>2. /\ c \in Compilers /\ proc'[c] = q
      /\ \A d \in Compilers : d # c => proc'[d] = proc[d]
      /\ scene' = scene /\ losses' = losses /\ scene \in Scenes /\ (Calm' => Calm)
  BY <1>1, Moved
<1>3. /\ Names' = Names /\ Compilers' = Compilers /\ \A d, k : Name(d, k)' = Name(d, k)
      /\ (\A d : me(d)' = me(d)) /\ (Turns' <=> Turns) /\ \A d : Exe(d)' <=> Exe(d)
  BY <1>2, SceneFixed
<1>4. [blocks |-> {}, exec |-> FALSE, made |-> m] \in FileType
  BY DEF FileType
<1>5. /\ file' \in [Inodes -> FileType] /\ file'[q.ino] = [blocks |-> {}, exec |-> FALSE, made |-> m]
      /\ \A j \in Inodes : j # q.ino => file'[j] = file[j]
  BY <1>1, <1>4 DEF CacheType
<1>6. \A n \in Names : dir[n] # None => dir[n] \in Inodes /\ file'[dir[n]] = file[dir[n]]
  BY <1>1, <1>5 DEF CacheType
<1>7. q.pc = "write" /\ q.name[1] \in Renamed /\ q.ino # None
  BY CacheAssumption DEF Puts
<1>8. CacheType'
  BY <1>1, <1>5, TypeKept DEF CacheType
<1>9. LocalInv'
  BY LocalKept
<1>10. NameInv'
  <2>1. OneName'
    BY <1>3 DEF CacheInv, NameInv, OneName, Exists
  <2>2. Private(c)' /\ Reach(c)'
    BY <1>2, <1>3 DEF Private, Reach
  <2>3. ASSUME NEW d \in Compilers, d # c PROVE Private(d)' /\ Reach(d)'
    <3>1. proc'[d] = proc[d] /\ Private(d) /\ Reach(d)
      BY <1>2, <2>3 DEF CacheInv, NameInv
    <3> QED BY <1>2, <1>3, <3>1 DEF Private, Reach
  <2> QED BY <1>3, <2>1, <2>2, <2>3 DEF NameInv
<1>11. ListThere(c) /\ ExeStep(c) /\ Busy(proc[c])
  BY <1>2, OneCompiler DEF Busy, Idle
<1>12. FileInv'
  <2>1. TempGood(c)'
    <3>1. GoodFor(q.name, m)'
      BY <1>2, Judged
    <3> QED BY <1>2, <1>5, <3>1 DEF TempGood, Blocks
  <2>2. ListThere(c)'
    BY <1>2, <1>3, <1>7, <1>11 DEF ListThere, Exists
  <2> QED BY <1>5, <2>1, <2>2, FilesWritten
<1>13. TurnInv'
  <2>1. ExecWhole'
    BY <1>3, <1>6 DEF CacheInv, TurnInv, ExecWhole, Exists
  <2>2. ExeStep(c)'
    BY <1>2, <1>3, <1>7, <1>11 DEF ExeStep, Exists, Puts, Renamed
  <2> QED BY <1>11, <2>1, <2>2, TurnKept
<1>14. SettleInv'
  <2>1. SUFFICES ASSUME Calm PROVE WillBeWhole' /\ WillSettle'
    BY <1>2 DEF SettleInv
  <2>2. WillBeWhole /\ WillSettle
    BY <2>1 DEF CacheInv, SettleInv
  <2>3. WillBeWhole'
    <3> SUFFICES ASSUME NEW n \in Names, NEW b \in Blocks, dir[n] # None, b \notin file[dir[n]].blocks
                 PROVE  Writer(dir[n], b)'
      BY <1>3, <1>6 DEF WillBeWhole, Exists
    <3>1. Writer(dir[n], b)
      BY <2>2 DEF WillBeWhole, Exists
    <3>2. PICK i : i = dir[n]
      OBVIOUS
    <3>3. Writer(i, b)'
      BY <1>1, <3>1, <3>2, WriterKept
    <3> QED BY <3>2, <3>3 DEF Writer
  <2>4. WillSettle'
    <3> SUFFICES ASSUME NEW n \in Names, dir[n] # None PROVE Settles(n)'
      BY <1>3 DEF WillSettle, Exists
    <3>1. Settles(n) /\ file'[dir'[n]] = file[dir[n]]
      BY <1>6, <2>2 DEF WillSettle, Exists
    <3>2. ASSUME NEW L, NEW K, L \in SUBSET {"ld", "ldDone", "soRename", "soLibs", "chmod"}, Finisher(n, L, K)
          PROVE  Finisher(n, L, K)'
      BY <1>1, <3>2, FinisherKept DEF Puts
    <3> QED BY <1>2, <3>1, <3>2 DEF Settles, Exists
  <2> QED BY <2>3, <2>4
<1> QED BY <1>8, <1>9, <1>10, <1>12, <1>13, <1>14 DEF CacheInv

(* What is saved is what the compiler made for its program. *)
LEMMA MadeIs ==
  ASSUME CacheInv, NEW c \in Compilers, HasSome(proc[c]), NEW kind, NEW m, m = Made(c, kind)
  PROVE  /\ m \in MadeType /\ m.good /\ MadeFor(me(c).id, m) /\ m.entry = proc[c].out.entry
         /\ proc[c].out.libs /\ ~(kind = "jit" /\ proc[c].bc) => m.libs
<1>1. proc[c] \in ProcType /\ Local(c, proc[c])
  BY OneCompiler
<1>2. proc[c].out \in MadeType /\ proc[c].out # NoMade /\ MadeFor(me(c).id, proc[c].out)
  BY <1>1 DEF Local, Results, ProcType
<1>3. m = [proc[c].out EXCEPT !.libs = @ /\ ~(kind = "jit" /\ proc[c].bc)]
  BY <1>2 DEF Made
<1>4. /\ m \in MadeType /\ m.good = proc[c].out.good /\ m.prog = proc[c].out.prog
      /\ m.entry = proc[c].out.entry
      /\ proc[c].out.libs /\ ~(kind = "jit" /\ proc[c].bc) => m.libs
  BY <1>2, <1>3 DEF MadeType
<1> QED BY <1>2, <1>4 DEF MadeFor

(* A compiler that goes on to write a file *)
Opening(c, kind, i, label, l) ==
  [proc[c] EXCEPT !.pc = "write", !.then = label, !.name = Name(c, kind), !.ino = i, !.left = 1,
                  !.needLinks = l]
IsOpening(c, q, kind, i, label) ==
  /\ q \in ProcType /\ q.pc = "write" /\ q.then = label /\ q.name = Name(c, kind)
  /\ q.name[1] = kind /\ q.ino = i /\ q.ino # None /\ q.left = 1
  /\ q.bc = proc[c].bc /\ q.std = proc[c].std /\ q.out = proc[c].out

(* The state of a compiler that opened a file *)
LEMMA OpeningIs ==
  ASSUME CacheInv, NEW c \in Compilers, NEW kind \in Written, NEW i \in Inodes,
         NEW label \in Labels, NEW l \in BOOLEAN
  PROVE  IsOpening(c, Opening(c, kind, i, label, l), kind, i, label)
<1>1. proc[c] \in ProcType /\ scene \in Scenes
  BY OneCompiler
<1>2. Name(c, kind) \in Kinds \X Int /\ Name(c, kind)[1] = kind
  BY <1>1, NameTyped DEF Written, Renamed, InPlace, Kinds
<1>3. "write" \in Labels /\ i # None
  BY CacheAssumption DEF Labels
<1>4. 1 \in 1..3
  OBVIOUS
<1> QED BY <1>1, <1>2, <1>3, <1>4 DEF ProcType, Opening, IsOpening

(* Most steps leave needLinks alone. *)
LEMMA PlainOpening ==
  ASSUME NEW c, proc[c] \in ProcType, NEW kind, NEW i, NEW label
  PROVE  /\ [proc[c] EXCEPT !.pc = "write", !.then = label, !.name = Name(c, kind), !.ino = i, !.left = 1]
              = Opening(c, kind, i, label, proc[c].needLinks)
         /\ proc[c].needLinks \in BOOLEAN
BY DEF ProcType, Opening

(* The library is saved to a temporary file. *)
LEMMA StdSaveStep ==
  ASSUME CacheInv, NEW c \in Compilers, StdSave(c), UNCHANGED <<scene, kills, losses>>
  PROVE  CacheInv'
<1>1. /\ CacheType /\ scene \in Scenes /\ proc[c] \in ProcType /\ Local(c, proc[c])
      /\ proc[c].pc = "stdSave" /\ Unused # {}
  BY OneCompiler DEF StdSave, OpenTemp
<1>2. PICK i : i = Fresh
  OBVIOUS
<1>3. i \in Inodes /\ (\A n \in Names : dir[n] # i) /\ \A d \in Compilers : proc[d].ino # i
  BY <1>1, <1>2, FreshIs
<1>4. PICK label : label = Enter(c, "early")
  OBVIOUS
<1>5. /\ label \in {"early", "aotProbe", "native", "jitLoad", "compile"} /\ Switched(c, label)
      /\ Exe(c) => label = "aotProbe"
  BY <1>4, EnterEarly
<1>6. PICK m : m = Made(c, "std")
  OBVIOUS
<1>7. m \in MadeType /\ m.good
  <2>1. proc[c].out = NoMade /\ proc[c].std = Blocks
    BY <1>1 DEF Local, Results, StdWhole, HasNothing, Asking, Busy, Idle, Ahead
  <2>2. m = [[prog |-> me(c).id, entry |-> me(c).entry, good |-> TRUE, libs |-> TRUE] EXCEPT !.libs = TRUE]
    BY <1>6, <2>1 DEF Made, Own
  <2> QED BY <1>1, <2>2, ProgramTyped DEF MadeType
<1>8. PICK q : q = Opening(c, "std", i, label, proc[c].needLinks)
  OBVIOUS
<1>9. /\ proc' = [proc EXCEPT ![c] = q] /\ dir' = dir
      /\ file' = [file EXCEPT ![i] = [blocks |-> {}, exec |-> FALSE, made |-> m]]
  <2>1. q = [proc[c] EXCEPT !.pc = "write", !.then = label, !.name = Name(c, "std"), !.ino = i, !.left = 1]
    <3>1. proc[c] = [proc[c] EXCEPT !.needLinks = proc[c].needLinks]
      BY <1>1 DEF ProcType
    <3> QED BY <1>1, <1>8, <3>1 DEF Opening, ProcType
  <2> QED BY <1>2, <1>4, <1>6, <2>1 DEF StdSave, OpenTemp, Opened, Set, At, New
<1>11. IsOpening(c, q, "std", i, label)
  <2>1. label \in Labels /\ proc[c].needLinks \in BOOLEAN /\ "std" \in Written
    BY <1>1, <1>5 DEF Labels, Asking, ProcType, Written, Renamed
  <2> QED BY <1>3, <1>8, <2>1, OpeningIs
<1>12. Local(c, q)
  <2>1. Placed(c, q)
    BY <1>1, <1>5, <1>11 DEF IsOpening, Local, Placed, Switched, Onward, Written, Renamed
  <2>2. StdWhole(c, q) /\ Results(c, q)
    BY <1>1, <1>11 DEF IsOpening, Local, StdWhole, Busy, Idle, Ahead, Results, HasNothing, HasOwn,
         HasSome, Puts, Saving, Asking
  <2> QED BY <2>1, <2>2 DEF Local
<1>13. Moves(c, q) /\ Puts(q, Renamed)
  BY <1>9, <1>11 DEF IsOpening, Moves, Puts, Renamed
<1>14. GoodFor(q.name, m)
  BY <1>7, <1>11 DEF IsOpening, GoodFor, SharedKinds
<1>15. ~Past(q)
  BY <1>11 DEF IsOpening, Past, Puts, Saving
<1> QED BY <1>1, <1>3, <1>7, <1>9, <1>11, <1>12, <1>13, <1>14, <1>15, TempStep DEF IsOpening

(* The library's bitcode, its list, and the JIT's bitcode are saved. *)
LEMMA SaveStep ==
  ASSUME CacheInv, NEW c \in Compilers, NEW kind \in {"bc", "bc.libs", "jit"}, NEW label, NEW l \in BOOLEAN,
         UNCHANGED <<scene, kills, losses>>, Unused # {},
         proc[c].pc \in {"bcSave", "bcAgain", "bcLibs", "bcLibsAgain", "jitSave"},
         proc' = [proc EXCEPT ![c] = Opening(c, kind, Fresh, label, l)],
         file' = [file EXCEPT ![Fresh] = New(c, kind)], UNCHANGED dir,
         Onward(kind, label), Switched(c, label),
         kind = "bc" => me(c).entry # "top", kind = "jit" <=> proc[c].pc = "jitSave"
  PROVE  CacheInv'
<1>1. /\ CacheType /\ scene \in Scenes /\ proc[c] \in ProcType /\ Local(c, proc[c])
  BY OneCompiler
<1>2. PICK i : i = Fresh
  OBVIOUS
<1>3. i \in Inodes /\ (\A n \in Names : dir[n] # i) /\ \A d \in Compilers : proc[d].ino # i
  BY <1>2, FreshIs
<1>4. PICK m : m = Made(c, kind)
  OBVIOUS
<1>5. HasOwn(proc[c]) /\ HasSome(proc[c])
  BY DEF HasOwn, HasSome, Saving
<1>6. /\ m \in MadeType /\ m.good /\ MadeFor(me(c).id, m) /\ m.entry = proc[c].out.entry
      /\ proc[c].out.libs /\ ~(kind = "jit" /\ proc[c].bc) => m.libs
  BY <1>4, <1>5, MadeIs
<1>7. PICK q : q = Opening(c, kind, i, label, l)
  OBVIOUS
<1>8. /\ proc' = [proc EXCEPT ![c] = q]
      /\ file' = [file EXCEPT ![i] = [blocks |-> {}, exec |-> FALSE, made |-> m]]
  BY <1>2, <1>4, <1>7 DEF New
<1>9. IsOpening(c, q, kind, i, label)
  <2>1. label \in Labels /\ kind \in Written
    BY DEF Onward, Labels, Saving, Ending, Written, Renamed
  <2> QED BY <1>3, <1>7, <2>1, OpeningIs
<1>10. Local(c, q)
  <2>1. Placed(c, q)
    BY <1>1, <1>9 DEF IsOpening, Local, Placed, Switched, Written, Renamed
  <2>2. StdWhole(c, q)
    BY <1>1, <1>9 DEF IsOpening, Local, StdWhole, Busy, Idle, Ahead
  <2>3. HasOwn(q) /\ HasSome(q) /\ ~HasNothing(q)
    BY <1>9 DEF IsOpening, HasNothing, HasOwn, HasSome, Puts, Written, Renamed, Asking, Ahead
  <2>4. Results(c, q)
    BY <1>1, <1>5, <1>9, <2>3 DEF IsOpening, Local, Results
  <2> QED BY <2>1, <2>2, <2>4 DEF Local
<1>11. Moves(c, q) /\ Puts(q, Renamed)
  BY <1>8, <1>9 DEF IsOpening, Moves, Puts, Renamed
<1>12. GoodFor(q.name, m)
  <2>1. Name(c, kind)[2] = IF kind \in SharedKinds THEN 0 ELSE me(c).id
    BY <1>1, NameTyped DEF Kinds
  <2>2. kind = "bc" => m.entry # "top"
    BY <1>1, <1>5, <1>6 DEF Local, Results
  <2>3. kind = "jit" /\ ListKept => m.libs
    <3>1. kind = "jit" => Use("jit")
      BY <1>1 DEF Local, Placed, Switched
    <3>2. kind = "jit" /\ ListKept => ~Use("bc") /\ ~proc[c].bc /\ proc[c].out.libs
      BY <1>1, <1>5, <3>1 DEF Local, Placed, Results, ListKept
    <3> QED BY <1>6, <3>2
  <2> QED BY <1>6, <1>9, <2>1, <2>2, <2>3 DEF IsOpening, GoodFor, SharedKinds
<1>13. Past(proc[c])
  BY DEF Past, Saving
<1> QED BY <1>1, <1>3, <1>6, <1>8, <1>9, <1>10, <1>11, <1>12, <1>13, TempStep DEF IsOpening

(* The list is saved to a temporary file, or it was there. *)
LEMMA BcLibsStep ==
  ASSUME CacheInv, NEW c \in Compilers, BcLibs(c), UNCHANGED <<scene, kills, losses>>
  PROVE  CacheInv'
<1>1. proc[c] \in ProcType /\ proc[c].pc \in {"bcLibs", "bcLibsAgain"}
  BY OneCompiler DEF BcLibs
<1>2. CASE Goto(c, Enter(c, AfterBc(c)))
  BY <1>1, <1>2, BcLibsOn
<1>3. CASE OpenTemp(c, "bc.libs", Enter(c, AfterBc(c)))
  <2>1. PICK label : label = Enter(c, AfterBc(c))
    OBVIOUS
  <2>2. label \in {"nativeSave", "jitSave", "bcAgain", "aotSave", "finish"} /\ Switched(c, label)
    BY <2>1, NextAfterBc
  <2>4. /\ Unused # {} /\ UNCHANGED dir /\ file' = [file EXCEPT ![Fresh] = New(c, "bc.libs")]
        /\ proc' = [proc EXCEPT ![c] = Opening(c, "bc.libs", Fresh, label, proc[c].needLinks)]
    BY <1>1, <1>3, <2>1, PlainOpening DEF OpenTemp, Opened, Set, At
  <2>5. proc[c].needLinks \in BOOLEAN /\ Onward("bc.libs", label)
    BY <1>1, <2>2 DEF ProcType, Onward
  <2> QED BY <1>1, <2>2, <2>4, <2>5, SaveStep
<1> QED BY <1>2, <1>3 DEF BcLibs

(* The JIT's bitcode is saved to a temporary file. *)
LEMMA JitSaveStep ==
  ASSUME CacheInv, NEW c \in Compilers, JitSave(c), UNCHANGED <<scene, kills, losses>>
  PROVE  CacheInv'
<1>1. proc[c] \in ProcType /\ proc[c].pc = "jitSave"
  BY OneCompiler DEF JitSave
<1>2. PICK label : label = Enter(c, "bcAgain")
  OBVIOUS
<1>3. label \in {"bcAgain", "aotSave", "finish"} /\ Switched(c, label)
  BY <1>2, EnterBcAgain
<1>5. /\ Unused # {} /\ UNCHANGED dir /\ file' = [file EXCEPT ![Fresh] = New(c, "jit")]
      /\ proc' = [proc EXCEPT ![c] = Opening(c, "jit", Fresh, label, proc[c].needLinks)]
  BY <1>1, <1>2, PlainOpening DEF JitSave, OpenTemp, Opened, Set, At
<1>6. proc[c].needLinks \in BOOLEAN /\ Onward("jit", label)
  BY <1>1, <1>3 DEF ProcType, Onward
<1> QED BY <1>1, <1>3, <1>5, <1>6, SaveStep

(* The library's bitcode is saved to a temporary file, but never with the  *)
(* program's top entry.                                                    *)
LEMMA BcSaveStep ==
  ASSUME CacheInv, NEW c \in Compilers, BcSave(c), UNCHANGED <<scene, kills, losses>>
  PROVE  CacheInv'
<1>1. proc[c] \in ProcType /\ proc[c].pc \in {"bcSave", "bcAgain"}
  BY OneCompiler DEF BcSave
<1>2. PICK label : label = IF proc[c].pc = "bcAgain" THEN "bcLibsAgain" ELSE "bcLibs"
  OBVIOUS
<1>3. PICK l : l = (proc[c].needLinks \/ ~Exists(Name(c, "bc.libs"))
                      \/ (proc[c].pc = "bcAgain" /\ ~Exists(Name(c, "bc"))))
  OBVIOUS
<1>4. l \in BOOLEAN /\ label \in {"bcLibs", "bcLibsAgain"}
  BY <1>2, <1>3
<1>5. CASE Goto(c, Enter(c, AfterBc(c))) \/ Goto(c, "bcDrop") \/ Goto(c, "bcDropAgain")
  BY <1>1, <1>5, BcSaveOn
<1>6. CASE Set(c, [At(c, label) EXCEPT !.saved = TRUE, !.needLinks = l]) /\ UNCHANGED <<dir, file>>
  BY <1>1, <1>4, <1>6, BcSaveSeen
<1>7. CASE /\ me(c).entry # "top" /\ Unused # {}
           /\ Set(c, [At(c, "write") EXCEPT !.then = label, !.name = Name(c, "bc"), !.ino = Fresh, !.left = 1,
                                            !.needLinks = l])
           /\ file' = [file EXCEPT ![Fresh] = New(c, "bc")]
           /\ UNCHANGED dir
  <2>1. /\ Unused # {} /\ UNCHANGED dir /\ file' = [file EXCEPT ![Fresh] = New(c, "bc")]
        /\ proc' = [proc EXCEPT ![c] = Opening(c, "bc", Fresh, label, l)]
    BY <1>7 DEF Set, At, Opening
  <2>2. Onward("bc", label) /\ Switched(c, label)
    BY <1>4 DEF Onward, Switched
  <2> QED BY <1>1, <1>4, <1>7, <2>1, <2>2, SaveStep
<1> QED BY <1>2, <1>3, <1>5, <1>6, <1>7 DEF BcSave

(* Compiler c opens a file under its name: the one that is there, which is *)
(* cut to nothing, or a new one.                                           *)
LEMMA InPlaceStep ==
  ASSUME CacheInv, NEW c \in Compilers, NEW q, Moves(c, q), Local(c, q), NEW kind \in InPlace,
         NEW i \in Inodes, NEW label, IsOpening(c, q, kind, i, label), NEW n, n = Name(c, kind),
         \/ dir[n] = i
         \/ (\A m \in Names : dir[m] # i) /\ \A d \in Compilers : proc[d].ino # i,
         dir' = [dir EXCEPT ![n] = i],
         NEW m \in MadeType, GoodFor(n, m), NEW e \in BOOLEAN, e => dir[n] = i /\ file[i].exec,
         file' = [file EXCEPT ![i] = [blocks |-> {}, exec |-> e, made |-> m]],
         \/ proc[c].pc = "nativeSave" /\ kind = "so.o"
         \/ proc[c].pc = "ld" /\ kind = "so.tmp"
         \/ proc[c].pc = "soLibs" /\ kind = "so.libs"
         \/ proc[c].pc = "aotSave" /\ kind = "aot"
  PROVE  CacheInv'
<1>1. CacheType /\ Busy(proc[c]) /\ ListThere(c) /\ ExeStep(c)
  BY OneCompiler DEF Busy, Idle
<1>2. /\ proc'[c] = q
      /\ \A d \in Compilers : d # c => proc'[d] = proc[d]
      /\ scene' = scene /\ losses' = losses /\ scene \in Scenes /\ (Calm' => Calm)
  BY <1>1, Moved
<1>3. /\ Names' = Names /\ Compilers' = Compilers /\ \A d, k : Name(d, k)' = Name(d, k)
      /\ (\A d : me(d)' = me(d)) /\ (Turns' <=> Turns) /\ \A d : Exe(d)' <=> Exe(d)
  BY <1>2, SceneFixed
<1>4. /\ q.pc = "write" /\ q.name = n /\ n[1] = kind /\ q.ino = i /\ i # None /\ q.left = 1
      /\ q.bc = proc[c].bc
  BY DEF IsOpening
<1>5. /\ n \in Names /\ n[2] = me(c).id
      /\ \A k \in Kinds : Name(c, k) \in Names /\ Name(c, k)[1] = k
  <2>1. kind \in Kinds /\ kind \notin SharedKinds
    BY DEF InPlace, Kinds, SharedKinds
  <2> QED BY <1>2, <2>1, NameTyped
<1>6. [blocks |-> {}, exec |-> e, made |-> m] \in FileType
  BY DEF FileType
<1>7. /\ file' \in [Inodes -> FileType] /\ file'[i] = [blocks |-> {}, exec |-> e, made |-> m]
      /\ \A j \in Inodes : j # i => file'[j] = file[j]
  BY <1>1, <1>6 DEF CacheType
<1>8. /\ dir' \in [Names -> Inodes \cup {None}] /\ dir'[n] = i
      /\ \A k \in Names : k # n => dir'[k] = dir[k]
  BY <1>1, <1>5 DEF CacheType
<1>9. \A k \in Names : dir[k] = i => k = n
  BY <1>4, <1>5 DEF CacheInv, NameInv, OneName, Exists
<1>10. \A k \in Names : k # n /\ dir[k] # None => dir[k] \in Inodes /\ file'[dir[k]] = file[dir[k]]
  BY <1>1, <1>7, <1>9 DEF CacheType
<1>11. CacheType'
  BY <1>7, <1>8, TypeKept
<1>12. LocalInv'
  BY LocalKept
<1>13. NameInv'
  <2>1. \A k, l \in Names : dir'[k] # None /\ dir'[k] = dir'[l] => k = l
    BY <1>5, <1>8, <1>9 DEF CacheInv, NameInv, OneName, Exists
  <2>2. OneName'
    BY <1>3, <2>1 DEF OneName, Exists
  <2>3. kind \notin Renamed
    BY DEF InPlace, Renamed
  <2>4. Private(c)'
    BY <1>2, <1>4, <2>3 DEF Private, Puts
  <2>5. Reach(c)'
    BY <1>2, <1>3, <1>4, <1>8, <1>9 DEF Reach
  <2>6. ASSUME NEW d \in Compilers, d # c PROVE Private(d)' /\ Reach(d)'
    <3>1. proc'[d] = proc[d] /\ Private(d) /\ Reach(d)
      BY <1>2, <2>6 DEF CacheInv, NameInv
    <3>2. Puts(proc[d], Renamed) => proc[d].ino # i
      BY <1>5, <3>1 DEF Private
    <3>3. \A k \in Names : dir'[k] = proc[d].ino => dir[k] = proc[d].ino
      BY <1>5, <1>8
    <3>4. Private(d)'
      BY <1>2, <1>3, <1>4, <1>8, <3>1, <3>2 DEF Private
    <3>5. Reach(d)'
      BY <1>3, <3>1, <3>3 DEF Reach
    <3> QED BY <3>4, <3>5
  <2> QED BY <1>3, <2>2, <2>4, <2>5, <2>6 DEF NameInv
<1>14. FileInv'
  <2>1. TempGood(c)'
    BY <1>2, <1>4 DEF TempGood, Puts, InPlace, Renamed
  <2>2. ListThere(c)'
    <3>1. Name(c, "bc.libs") \in Names /\ Name(c, "bc.libs") # n
      BY <1>4, <1>5 DEF Kinds, InPlace
    <3> QED BY <1>1, <1>2, <1>3, <1>4, <1>8, <3>1 DEF ListThere, Exists
  <2>3. \A k \in Names : dir'[k] = i => GoodFor(k, file'[i].made) /\ k[1] \notin Renamed
    BY <1>4, <1>7, <1>8, <1>9 DEF InPlace, Renamed
  <2>4. ASSUME NEW d \in Compilers \ {c} PROVE Puts(proc[d], Renamed) => proc[d].ino # i
    BY <1>5 DEF CacheInv, NameInv, Private
  <2>5. ASSUME NEW d \in Compilers \ {c}, proc[d].pc = "copy", proc[d].ino = i, ListKept
        PROVE  file'[i].made.libs
    <3>1. dir[n] = i /\ Reach(d)
      BY <2>5 DEF CacheInv, NameInv
    <3>2. n = Name(d, "aot")
      BY <1>4, <1>5, <2>5, <3>1 DEF Reach, Puts
    <3>3. n[1] = "aot"
      BY <1>2, <3>2, NameTyped DEF Kinds
    <3> QED BY <1>7, <2>5, <3>3 DEF GoodFor
  <2> QED BY <1>7, <1>8, <2>1, <2>2, <2>3, <2>4, <2>5, FilesWritten
<1>15. TurnInv'
  <2>1. ExecWhole'
    <3> SUFFICES ASSUME Turns, NEW k \in Names, dir'[k] # None, k[1] = "aot", file'[dir'[k]].exec
                 PROVE  file'[dir'[k]].blocks \in {{}, Blocks}
      BY <1>3 DEF ExecWhole, Exists
    <3>1. CASE k = n
      BY <1>7, <1>8, <3>1
    <3>2. CASE k # n
      BY <1>8, <1>10, <3>2 DEF CacheInv, TurnInv, ExecWhole, Exists
    <3> QED BY <3>1, <3>2
  <2>2. ExeStep(c)'
    <3>1. CASE kind = "aot"
      <4>1. Turns /\ Exe(c) => dir[n] = None
        BY <1>1, <1>4, <3>1 DEF ExeStep, Past, Exists, IsOpening
      <4>2. Turns /\ Exe(c) => ~e
        BY <1>4, <4>1
      <4>3. \A b \in Blocks : ~(b < 1)
        BY DEF Blocks
      <4> QED BY <1>2, <1>3, <1>4, <1>7, <1>8, <3>1, <4>2, <4>3 DEF ExeStep, Past, Puts, Saving
    <3>2. CASE kind # "aot"
      <4>1. Past(proc[c]) /\ Name(c, "aot") \in Names /\ Name(c, "aot") # n
        BY <1>4, <1>5, <3>2 DEF Past, Saving, Kinds
      <4> QED BY <1>1, <1>2, <1>3, <1>4, <1>8, <3>2, <4>1 DEF ExeStep, Puts, Exists
    <3> QED BY <3>1, <3>2
  <2> QED BY <1>1, <2>1, <2>2, TurnKept
<1>16. SettleInv'
  <2>1. SUFFICES ASSUME Calm PROVE WillBeWhole' /\ WillSettle'
    BY <1>2 DEF SettleInv
  <2>2. WillBeWhole /\ WillSettle
    BY <2>1 DEF CacheInv, SettleInv
  <2>3. WillBeWhole'
    <3> SUFFICES ASSUME NEW k \in Names, NEW b \in Blocks, dir'[k] # None, b \notin file'[dir'[k]].blocks
                 PROVE  Writer(dir[k], b)'
      BY <1>3 DEF WillBeWhole, Exists
    <3>1. CASE k = n
      <4>1. 1 <= b
        BY DEF Blocks
      <4>2. Writer(i, b)'
        BY <1>2, <1>3, <1>4, <4>1 DEF Writer
      <4> QED BY <1>8, <3>1, <4>2 DEF Writer
    <3>2. CASE k # n
      <4>1. PICK j : j = dir[k]
        OBVIOUS
      <4>2. Writer(j, b)
        BY <1>8, <1>10, <2>2, <3>2, <4>1 DEF WillBeWhole, Exists
      <4>3. Writer(j, b)'
        BY <1>1, <4>2, WriterKept
      <4> QED BY <1>8, <3>2, <4>1, <4>3 DEF Writer
    <3> QED BY <3>1, <3>2
  <2>4. WillSettle'
    <3> SUFFICES ASSUME NEW k \in Names, dir'[k] # None PROVE Settles(k)'
      BY <1>3 DEF WillSettle, Exists
    <3>1. CASE k = n
      <4>1. kind # "so"
        BY DEF InPlace
      <4>2. CASE kind = "so.o"
        <5>1. Puts(q, {"so.o", "so.tmp"})
          BY <1>4, <4>2 DEF Puts
        <5>2. Finisher(n, {"ld", "ldDone"}, {"so.o", "so.tmp"})'
          BY <1>1, <1>5, <5>1, NewFinisher
        <5> QED BY <1>4, <3>1, <4>2, <5>2 DEF Settles
      <4>3. CASE kind = "so.tmp"
        <5>1. Puts(q, {"so.tmp"})
          BY <1>4, <4>3 DEF Puts
        <5>2. Finisher(n, {"ldDone", "soRename"}, {"so.tmp"})'
          BY <1>1, <1>5, <5>1, NewFinisher
        <5> QED BY <1>4, <3>1, <4>3, <5>2 DEF Settles
      <4>4. CASE kind = "aot"
        <5>1. Puts(q, {"aot"})
          BY <1>4, <4>4 DEF Puts
        <5>2. Finisher(n, {"chmod"}, {"aot"})'
          BY <1>1, <1>5, <5>1, NewFinisher
        <5> QED BY <1>4, <3>1, <4>4, <5>2 DEF Settles
      <4>5. CASE kind = "so.libs"
        BY <1>4, <3>1, <4>5 DEF Settles
      <4> QED BY <4>2, <4>3, <4>4, <4>5 DEF InPlace
    <3>2. CASE k # n
      <4>1. Settles(k) /\ dir'[k] = dir[k] /\ file'[dir[k]] = file[dir[k]]
        BY <1>8, <1>10, <2>2, <3>2 DEF WillSettle, Exists
      <4>2. k[1] = "so.o" => Finisher(k, {"ld", "ldDone"}, {"so.o", "so.tmp"})'
        <5>1. \/ proc[c].pc \notin {"ld", "ldDone"} /\ ~Puts(proc[c], {"so.o", "so.tmp"})
              \/ Puts(q, {"so.o", "so.tmp"})
          BY <1>4 DEF Puts
        <5> QED BY <1>1, <4>1, <5>1, FinisherKept DEF Settles
      <4>3. k[1] = "so.tmp" => Finisher(k, {"ldDone", "soRename"}, {"so.tmp"})'
        <5>1. proc[c].pc \notin {"ldDone", "soRename"} /\ ~Puts(proc[c], {"so.tmp"})
          BY DEF Puts
        <5> QED BY <1>1, <4>1, <5>1, FinisherKept DEF Settles
      <4>4. k[1] = "aot" => file'[dir'[k]].exec \/ Finisher(k, {"chmod"}, {"aot"})'
        <5>1. proc[c].pc \notin {"chmod"} /\ ~Puts(proc[c], {"aot"})
          BY DEF Puts
        <5> QED BY <1>1, <4>1, <5>1, FinisherKept DEF Settles
      <4>5. k[1] = "so" /\ scene.libs => dir'[<<"so.libs", k[2]>>] # None \/ Finisher(k, {"soLibs"}, {})'
        <5> SUFFICES ASSUME k[1] = "so", scene.libs PROVE dir'[<<"so.libs", k[2]>>] # None \/ Finisher(k, {"soLibs"}, {})'
          OBVIOUS
        <5>1. <<"so.libs", k[2]>> \in Names
          BY <1>2, OwnLibs
        <5>2. CASE dir[<<"so.libs", k[2]>>] # None
          BY <1>4, <1>8, <5>1, <5>2
        <5>3. CASE Finisher(k, {"soLibs"}, {}) /\ ~(proc[c].pc = "soLibs" /\ me(c).id = k[2])
          <6>1. ~(me(c).id = k[2] /\ (proc[c].pc \in {"soLibs"} \/ Puts(proc[c], {})))
            BY <5>3 DEF Puts
          <6> QED BY <1>1, <5>3, <6>1, FinisherKept
        <5>4. CASE proc[c].pc = "soLibs" /\ me(c).id = k[2]
          <6>1. kind = "so.libs"
            BY <5>4
          <6>2. n = <<"so.libs", k[2]>>
            BY <5>4, <6>1 DEF Name, SharedKinds
          <6> QED BY <1>4, <1>8, <6>2
        <5> QED BY <4>1, <5>2, <5>3, <5>4 DEF Settles, Exists
      <4> QED BY <1>2, <4>2, <4>3, <4>4, <4>5 DEF Settles, Exists
    <3> QED BY <3>1, <3>2
  <2> QED BY <2>3, <2>4
<1> QED BY <1>11, <1>12, <1>13, <1>14, <1>15, <1>16 DEF CacheInv

(* Who was to finish a name that stays, if it was compiler c, still will. *)
LEMMA SettleTidy ==
  ASSUME CacheInv, NEW c, NEW q, Moves(c, q), Tidies, proc[c].pc = "write" => proc[c].left = 3,
         \A n \in Names : dir'[n] # None /\ dir'[n] = dir[n] /\ Settles(n) => Settles(n)'
  PROVE  SettleInv'
<1>1. CacheType
  BY DEF CacheInv
<1>2. Names' = Names /\ (Calm' => Calm)
  BY <1>1, Moved, SceneFixed
<1>3. SUFFICES ASSUME Calm PROVE WillBeWhole' /\ WillSettle'
  BY <1>2 DEF SettleInv
<1>4. WillBeWhole /\ WillSettle
  BY <1>3 DEF CacheInv, SettleInv
<1>5. file' = file /\ \A n \in Names : dir'[n] = dir[n] \/ dir'[n] = None
  BY DEF Tidies, Shrinks
<1>6. WillBeWhole'
  <2> SUFFICES ASSUME NEW n \in Names, NEW b \in Blocks, dir'[n] # None, b \notin file[dir'[n]].blocks
               PROVE  Writer(dir[n], b)'
    BY <1>2, <1>5 DEF WillBeWhole, Exists
  <2>1. PICK i : i = dir[n]
    OBVIOUS
  <2>2. Writer(i, b) /\ dir'[n] = i
    BY <1>4, <1>5, <2>1 DEF WillBeWhole, Exists
  <2>3. proc[c].pc = "write" => ~(proc[c].left <= b)
    BY DEF Blocks
  <2>4. Writer(i, b)'
    BY <1>1, <2>2, <2>3, WriterKept
  <2> QED BY <2>2, <2>4 DEF Writer
<1>7. WillSettle'
  BY <1>2, <1>4, <1>5 DEF WillSettle, Exists
<1> QED BY <1>6, <1>7

(* A compiler that saves its result opens a file under its name. *)
LEMMA OpeningLocal ==
  ASSUME CacheInv, NEW c \in Compilers, NEW q, NEW kind \in InPlace, NEW i, NEW label,
         IsOpening(c, q, kind, i, label), Onward(kind, label), Switched(c, label),
         \/ proc[c].pc \in Saving /\ kind # "aot"
         \/ proc[c].pc = "aotSave" /\ kind = "aot"
  PROVE  Local(c, q)
<1>1. Local(c, proc[c])
  BY OneCompiler
<1>2. Placed(c, q)
  BY <1>1 DEF Local, Placed, Switched, IsOpening, Written, InPlace
<1>3. StdWhole(c, q)
  BY <1>1 DEF Local, StdWhole, IsOpening, Busy, Idle, Ahead, Saving
<1>4. /\ HasSome(q) /\ ~HasNothing(q) /\ HasSome(proc[c])
      /\ HasOwn(q) => HasOwn(proc[c])
      /\ q.out = proc[c].out /\ q.pc \notin {"finish", "ok"}
  BY DEF IsOpening, HasSome, HasOwn, HasNothing, Puts, Written, InPlace, Saving, Asking, Ahead
<1>5. Results(c, q)
  BY <1>1, <1>4 DEF Local, Results
<1> QED BY <1>2, <1>3, <1>5 DEF Local

(* An object, a list or an executable is written under its name. *)
LEMMA OpenInPlaceStep ==
  ASSUME CacheInv, NEW c \in Compilers, NEW kind, NEW label, UNCHANGED <<scene, kills, losses>>,
         OpenInPlace(c, kind, label), Onward(kind, label), Switched(c, label),
         \/ proc[c].pc = "nativeSave" /\ kind = "so.o"
         \/ proc[c].pc = "soLibs" /\ kind = "so.libs"
         \/ proc[c].pc = "aotSave" /\ kind = "aot"
  PROVE  CacheInv'
<1>1. /\ CacheType /\ scene \in Scenes /\ proc[c] \in ProcType /\ Local(c, proc[c])
  BY OneCompiler
<1>2. PICK n : n = Name(c, kind)
  OBVIOUS
<1>3. n \in Names /\ n[1] = kind /\ n[2] = me(c).id
  BY <1>1, <1>2, NameTyped DEF Kinds, SharedKinds
<1>4. PICK i : i = IF Exists(n) THEN dir[n] ELSE Fresh
  OBVIOUS
<1>5. /\ i \in Inodes
      /\ \/ dir[n] = i
         \/ (\A k \in Names : dir[k] # i) /\ \A d \in Compilers : proc[d].ino # i
      /\ Exists(n) => dir[n] = i
  <2>1. CASE Exists(n)
    BY <1>1, <1>3, <1>4, <2>1 DEF CacheType, Exists
  <2>2. CASE ~Exists(n)
    <3>1. Unused # {}
      BY <1>2, <2>2 DEF OpenInPlace
    <3> QED BY <1>4, <2>2, <3>1, FreshIs
  <2> QED BY <2>1, <2>2
<1>6. PICK q : q = Opening(c, kind, i, label, proc[c].needLinks)
  OBVIOUS
<1>7. PICK e : e = (Exists(n) /\ file[i].exec)
  OBVIOUS
<1>8. e \in BOOLEAN /\ (e => dir[n] = i /\ file[i].exec)
  BY <1>5, <1>7
<1>9. PICK m : m = Made(c, kind)
  OBVIOUS
<1>10. /\ proc' = [proc EXCEPT ![c] = q] /\ dir' = [dir EXCEPT ![n] = i]
       /\ file' = [file EXCEPT ![i] = [blocks |-> {}, exec |-> e, made |-> m]]
  <2>1. q = [proc[c] EXCEPT !.pc = "write", !.then = label, !.name = Name(c, kind), !.ino = i, !.left = 1]
    BY <1>1, <1>6 DEF Opening, ProcType
  <2>2. [[blocks |-> {}, exec |-> FALSE, made |-> m] EXCEPT !.exec = e] =
          [blocks |-> {}, exec |-> e, made |-> m]
    OBVIOUS
  <2> QED BY <1>2, <1>4, <1>7, <1>9, <2>1, <2>2 DEF OpenInPlace, Opened, Set, At, New
<1>11. IsOpening(c, q, kind, i, label)
  <2>1. label \in Labels /\ proc[c].needLinks \in BOOLEAN /\ kind \in Written
    BY <1>1 DEF Onward, Labels, Saving, Ending, ProcType, Written, InPlace
  <2> QED BY <1>5, <1>6, <2>1, OpeningIs
<1>12. kind \in InPlace /\ HasSome(proc[c])
  BY DEF InPlace, HasSome, HasOwn, Saving
<1>13. Local(c, q)
  BY <1>11, <1>12, OpeningLocal DEF Saving
<1>14. m \in MadeType /\ GoodFor(n, m)
  <2>1. /\ m \in MadeType /\ m.good /\ MadeFor(me(c).id, m)
        /\ proc[c].out.libs /\ ~(kind = "jit" /\ proc[c].bc) => m.libs
    BY <1>9, <1>12, MadeIs
  <2>2. kind = "aot" /\ ListKept => proc[c].out.libs
    BY <1>1, <1>12 DEF Local, Placed, Switched, Results, Exe
  <2> QED BY <1>3, <2>1, <2>2 DEF GoodFor, SharedKinds
<1>15. Moves(c, q)
  BY <1>10, <1>11 DEF Moves, IsOpening
<1> QED BY <1>2, <1>5, <1>8, <1>10, <1>11, <1>12, <1>13, <1>14, <1>15, InPlaceStep

(* The object, which others may be writing or linking *)
LEMMA NativeSaveStep ==
  ASSUME CacheInv, NEW c \in Compilers, NativeSave(c), UNCHANGED <<scene, kills, losses>>
  PROVE  CacheInv'
<1>1. Onward("so.o", "ld") /\ Switched(c, "ld")
  BY DEF Onward, Switched
<1> QED BY <1>1, OpenInPlaceStep DEF NativeSave

(* The shared object's list of libraries *)
LEMMA SoLibsStep ==
  ASSUME CacheInv, NEW c \in Compilers, SoLibs(c), UNCHANGED <<scene, kills, losses>>
  PROVE  CacheInv'
<1>1. PICK label : label = Enter(c, "jitSave")
  OBVIOUS
<1>2. label \in {"jitSave", "bcAgain", "aotSave", "finish"} /\ Switched(c, label)
  BY <1>1, EnterJitSave
<1>3. CASE scene.libs
  <2>1. Onward("so.libs", label) /\ OpenInPlace(c, "so.libs", label) /\ proc[c].pc = "soLibs"
    BY <1>1, <1>2, <1>3 DEF Onward, SoLibs
  <2> QED BY <1>2, <2>1, OpenInPlaceStep
<1>4. CASE ~scene.libs
  <2>1. /\ CacheType /\ scene \in Scenes /\ proc[c] \in ProcType
        /\ proc[c].pc = "soLibs" /\ Set(c, At(c, label)) /\ UNCHANGED <<dir, file>>
    BY <1>1, <1>4, OneCompiler DEF SoLibs, Goto
  <2>2. PICK q : q = At(c, label)
    OBVIOUS
  <2>3. Moves(c, q) /\ Tidies
    BY <1>2, <2>1, <2>2, NoTidying DEF Moves, Set, At, ProcType, Labels, Saving, Ending
  <2>4. ASSUME NEW n \in Names, dir'[n] # None, dir'[n] = dir[n], Settles(n) PROVE Settles(n)'
    <3>1. ASSUME NEW L, NEW K, Finisher(n, L, K), "soLibs" \notin L
          PROVE  Finisher(n, L, K)'
      <4>1. ~(me(c).id = n[2] /\ (proc[c].pc \in L \/ Puts(proc[c], K)))
        BY <2>1, <3>1 DEF Puts
      <4> QED BY <2>1, <2>3, <3>1, <4>1, FinisherKept
    <3> QED BY <1>4, <2>1, <2>4, <3>1 DEF Settles, Exists
  <2>5. SettleInv'
    BY <2>1, <2>3, <2>4, SettleTidy
  <2> QED BY <1>2, <2>1, <2>3, <2>5, LabelStep DEF Saving, Past, Ahead
<1> QED BY <1>3, <1>4

(* The executable: with compilers in turn there was none, so the new one   *)
(* has no mode that makes it valid.                                        *)
LEMMA AotSaveStep ==
  ASSUME CacheInv, NEW c \in Compilers, AotSave(c), UNCHANGED <<scene, kills, losses>>
  PROVE  CacheInv'
<1>1. Local(c, proc[c]) /\ proc[c].pc = "aotSave" /\ OpenInPlace(c, "aot", "chmod")
  BY OneCompiler DEF AotSave
<1>2. Onward("aot", "chmod") /\ Switched(c, "chmod")
  BY <1>1 DEF Onward, Switched, Local, Placed
<1> QED BY <1>1, <1>2, OpenInPlaceStep

(* The linker's output is a new file, made from whoever's object is whole. *)
LEMMA LdStep ==
  ASSUME CacheInv, NEW c \in Compilers, Ld(c), UNCHANGED <<scene, kills, losses>>
  PROVE  CacheInv'
<1>1. /\ CacheType /\ scene \in Scenes /\ proc[c] \in ProcType /\ Local(c, proc[c])
      /\ proc[c].pc = "ld"
  BY OneCompiler DEF Ld
<1>2. PICK o, t : o = Name(c, "so.o") /\ t = Name(c, "so.tmp")
  OBVIOUS
<1>3. o \in Names /\ o[1] = "so.o" /\ t \in Names /\ t[1] = "so.tmp" /\ o[2] = me(c).id /\ t[2] = me(c).id
  BY <1>1, <1>2, NameTyped DEF Kinds, SharedKinds
<1>4. CASE Whole(o)
  <2>1. PICK i : i = Fresh
    OBVIOUS
  <2>2. i \in Inodes /\ (\A n \in Names : dir[n] # i) /\ \A d \in Compilers : proc[d].ino # i
    BY <1>2, <1>4, <2>1, FreshIs DEF Ld
  <2>3. PICK m : m = file[dir[o]].made
    OBVIOUS
  <2>4. m \in MadeType /\ GoodFor(t, m)
    <3>1. m \in MadeType /\ GoodFor(o, m)
      BY <1>3, <1>4, <2>3, Yields
    <3> QED BY <1>3, <3>1 DEF GoodFor, SharedKinds
  <2>5. PICK q : q = Opening(c, "so.tmp", i, "ldDone", proc[c].needLinks)
    OBVIOUS
  <2>6. /\ proc' = [proc EXCEPT ![c] = q] /\ dir' = [dir EXCEPT ![t] = i]
        /\ file' = [file EXCEPT ![i] = [blocks |-> {}, exec |-> FALSE, made |-> m]]
    <3>1. q = [proc[c] EXCEPT !.pc = "write", !.then = "ldDone", !.name = Name(c, "so.tmp"),
                          !.ino = i, !.left = 1]
      BY <1>1, <2>5 DEF Opening, ProcType
    <3> QED BY <1>2, <1>4, <2>1, <2>3, <3>1 DEF Ld, Opened, Set, At, New
  <2>7. IsOpening(c, q, "so.tmp", i, "ldDone")
    <3>1. "ldDone" \in Labels /\ proc[c].needLinks \in BOOLEAN /\ "so.tmp" \in Written
      BY <1>1 DEF Labels, Saving, ProcType, Written, InPlace
    <3> QED BY <2>2, <2>5, <3>1, OpeningIs
  <2>8. Onward("so.tmp", "ldDone") /\ Switched(c, "ldDone") /\ "so.tmp" \in InPlace
    BY DEF Onward, Switched, InPlace
  <2>9. Local(c, q)
    BY <1>1, <2>7, <2>8, OpeningLocal DEF Saving
  <2>10. Moves(c, q)
    BY <2>6, <2>7 DEF Moves, IsOpening
  <2> QED BY <1>1, <1>2, <2>2, <2>4, <2>6, <2>7, <2>8, <2>9, <2>10, InPlaceStep
<1>5. CASE ~Whole(o)
  <2>1. PICK label : label = Enter(c, "jitSave")
    OBVIOUS
  <2>2. label \in {"jitSave", "bcAgain", "aotSave", "finish"} /\ Switched(c, label)
    BY <2>1, EnterJitSave
  <2>3. Set(c, At(c, label)) /\ Unlink({Name(c, k) : k \in {"so.o", "so.tmp"}})
    BY <1>2, <1>5, <2>1 DEF Ld, Discard
  <2>4. Tidies /\ dir'[o] = None /\ dir'[t] = None
    BY <1>1, <1>2, <2>3, Tidying DEF Kinds
  <2>5. PICK q : q = At(c, label)
    OBVIOUS
  <2>6. Moves(c, q)
    BY <1>1, <2>2, <2>3, <2>5 DEF Moves, Set, At, ProcType, Labels, Saving, Ending
  <2>7. SettleInv'
    <3>1. ASSUME NEW n \in Names, dir'[n] # None, dir'[n] = dir[n], Settles(n) PROVE Settles(n)'
      <4>1. n[1] \in {"so.o", "so.tmp"} => n[2] # me(c).id
        BY <1>1, <1>2, <1>3, <2>4, <3>1, NameOwn DEF SharedKinds
      <4>2. n[1] = "so" => dir'[<<"so.libs", n[2]>>] = dir[<<"so.libs", n[2]>>]
        BY <1>1, <2>4, OwnLibs DEF Tidies
      <4>3. ASSUME NEW L, NEW K, Finisher(n, L, K), n[2] # me(c).id \/ (L \in SUBSET {"chmod", "soLibs"})
            PROVE  Finisher(n, L, K)'
        <5>1. ~(me(c).id = n[2] /\ (proc[c].pc \in L \/ Puts(proc[c], K)))
          BY <1>1, <4>3 DEF Puts
        <5> QED BY <1>1, <2>6, <4>3, <5>1, FinisherKept
      <4> QED BY <2>4, <3>1, <4>1, <4>2, <4>3 DEF Settles, Exists, Tidies
    <3> QED BY <1>1, <2>4, <2>6, <3>1, SettleTidy
  <2> QED BY <1>1, <2>2, <2>3, <2>4, <2>7, LabelStep DEF Saving, Past, Ahead
<1> QED BY <1>4, <1>5

(* The object goes, and the compiler that linked is to rename. *)
LEMMA LdDoneStep ==
  ASSUME CacheInv, NEW c \in Compilers, LdDone(c), UNCHANGED <<scene, kills, losses>>
  PROVE  CacheInv'
<1>1. /\ CacheType /\ scene \in Scenes /\ proc[c] \in ProcType
      /\ proc[c].pc = "ldDone" /\ Set(c, At(c, "soRename")) /\ Unlink({Name(c, k) : k \in {"so.o"}})
  BY OneCompiler DEF LdDone, Discard
<1>2. Tidies /\ dir'[Name(c, "so.o")] = None
  BY <1>1, Tidying DEF Kinds
<1>3. PICK q : q = At(c, "soRename")
  OBVIOUS
<1>4. Moves(c, q) /\ q.pc = "soRename"
  BY <1>1, <1>3 DEF Moves, Set, At, ProcType, Labels, Saving
<1>5. ASSUME NEW n \in Names, dir'[n] # None, dir'[n] = dir[n], Settles(n) PROVE Settles(n)'
  <2>1. n[1] = "so.o" => n[2] # me(c).id
    BY <1>1, <1>2, <1>5, NameOwn DEF SharedKinds
  <2>2. n[1] = "so" => dir'[<<"so.libs", n[2]>>] = dir[<<"so.libs", n[2]>>]
    BY <1>1, <1>2, OwnLibs DEF Tidies
  <2>3. ASSUME NEW L, NEW K, Finisher(n, L, K), n[2] # me(c).id \/ "ldDone" \notin L \/ "soRename" \in L
        PROVE  Finisher(n, L, K)'
    <3>1. \/ ~(me(c).id = n[2] /\ (proc[c].pc \in L \/ Puts(proc[c], K)))
          \/ q.pc \in L
      BY <1>1, <1>4, <2>3 DEF Puts
    <3> QED BY <1>1, <1>4, <2>3, <3>1, FinisherKept
  <2> QED BY <1>2, <1>5, <2>1, <2>2, <2>3 DEF Settles, Exists, Tidies
<1>6. SettleInv'
  BY <1>1, <1>2, <1>4, <1>5, SettleTidy
<1>7. Switched(c, "soRename")
  BY DEF Switched
<1> QED BY <1>1, <1>2, <1>6, <1>7, LabelStep DEF Saving, Past, Ahead

(* A compiler has written a file and goes on. *)
LEMMA ClosedLocal ==
  ASSUME NEW c, NEW p, Local(c, p), p.pc = "write", NEW q, q.pc = p.then, q.ino = None,
         q.out = p.out, q.bc = p.bc, q.std = p.std
  PROVE  /\ Local(c, q) /\ (Past(q) /\ Exe(c) => Past(p)) /\ q.pc \notin {"write", "copy", "link"}
         /\ q.pc = "chmod" => p.name[1] = "aot"
<1>1. /\ p.name[1] \in Written /\ Onward(p.name[1], p.then) /\ Switched(c, p.then)
      /\ p.name[1] = "std" /\ Exe(c) => p.then = "aotProbe"
      /\ p.bc => Use("bc")
  BY DEF Local, Placed
<1>2. CASE p.name[1] = "std"
  <2>1. q.pc \in {"early", "aotProbe", "native", "jitLoad", "compile"} /\ (Exe(c) => q.pc = "aotProbe")
    BY <1>1, <1>2 DEF Onward
  <2>2. Placed(c, q)
    BY <1>1, <2>1 DEF Placed
  <2>3. StdWhole(c, q) /\ Results(c, q)
    BY <1>2, <2>1 DEF Local, StdWhole, Busy, Idle, Ahead, Results, HasNothing, HasOwn, HasSome, Puts,
                      Saving, Asking
  <2>4. Past(q) /\ Exe(c) => Past(p)
    BY <2>1 DEF Past, Saving, Puts
  <2> QED BY <2>1, <2>2, <2>3, <2>4 DEF Local
<1>3. CASE p.name[1] \in Written \ {"std", "aot"}
  <2>1. q.pc \in Saving \cup {"aotSave", "finish"}
    BY <1>1, <1>3 DEF Onward, Saving
  <2>2. q.pc \notin {"write", "copy", "dlopen", "link", "new", "chmod"}
    BY <2>1 DEF Saving
  <2>3. Placed(c, q)
    BY <1>1, <2>2 DEF Placed
  <2>4. HasOwn(p) /\ HasSome(p)
    BY <1>3 DEF HasOwn, HasSome, Puts
  <2>5. ~HasNothing(q) /\ q.pc # "ok"
    BY <2>1 DEF HasNothing, Puts, Asking, Ahead, Saving
  <2>6. Results(c, q)
    BY <2>4, <2>5 DEF Local, Results
  <2>7. StdWhole(c, q)
    BY <2>1 DEF Local, StdWhole, Busy, Idle, Ahead, Saving
  <2>8. Past(p)
    BY <1>3 DEF Past, Puts
  <2> QED BY <2>2, <2>3, <2>6, <2>7, <2>8 DEF Local
<1>4. CASE p.name[1] = "aot"
  <2>1. q.pc = "chmod"
    BY <1>1, <1>4 DEF Onward
  <2>2. Placed(c, q)
    BY <1>1, <2>1 DEF Placed
  <2>3. StdWhole(c, q) /\ Results(c, q)
    BY <1>4, <2>1 DEF Local, StdWhole, Busy, Idle, Ahead, Results, HasNothing, HasOwn, HasSome, Puts,
                      Saving, Asking
  <2>4. ~Past(q)
    BY <2>1 DEF Past, Saving, Puts
  <2> QED BY <1>4, <2>1, <2>2, <2>3, <2>4 DEF Local
<1> QED BY <1>1, <1>2, <1>3, <1>4

(* What was written in place is whole, unless a write failed. *)
LEMMA CloseStep ==
  ASSUME CacheInv, NEW c \in Compilers, Close(c), UNCHANGED <<scene, kills, losses>>
  PROVE  CacheInv'
<1>1. /\ CacheType /\ scene \in Scenes /\ proc[c] \in ProcType /\ Local(c, proc[c])
      /\ ListThere(c) /\ ExeStep(c) /\ UNCHANGED <<dir, file>>
      /\ proc[c].pc = "write" /\ proc[c].name[1] \in InPlace /\ proc[c].left = 3
  BY OneCompiler DEF Close, Writing, ProcType, Blocks
<1>2. PICK p : p = proc[c]
  OBVIOUS
<1>3. PICK q : q = [p EXCEPT !.pc = p.then, !.ino = None]
  OBVIOUS
<1>4. proc' = [proc EXCEPT ![c] = q]
  BY <1>2, <1>3 DEF Close, Set, Left
<1>5. p.name[1] \in Written /\ Onward(p.name[1], p.then) /\ p.name = Name(c, p.name[1]) /\ Switched(c, p.then)
  BY <1>1, <1>2 DEF Local, Placed
<1>6. p.then \in Labels
  BY <1>5 DEF Onward, Labels, Asking, Saving, Ending
<1>7. q \in ProcType /\ q.pc = p.then /\ q.ino = None /\ q.out = p.out /\ q.bc = p.bc /\ q.std = p.std
  BY <1>1, <1>2, <1>3, <1>6 DEF ProcType
<1>8. /\ Local(c, q) /\ (Past(q) /\ Exe(c) => Past(p)) /\ q.pc \notin {"write", "copy", "link"}
      /\ q.pc = "chmod" => p.name[1] = "aot"
  BY <1>1, <1>2, <1>7, ClosedLocal
<1>9. Tidies
  BY <1>1, NoTidying
<1>10. Quiet(c, q)
  BY <1>4, <1>7, <1>8, <1>9 DEF Quiet, Moves, Tidies
<1>11. Moves(c, q) /\ proc'[c] = q
  BY <1>1, <1>10, Moved DEF Quiet
<1>12. /\ me(c)' = me(c) /\ (Turns' <=> Turns) /\ (Exe(c)' <=> Exe(c))
       /\ \A k : Name(c, k)' = Name(c, k)
  BY SceneFixed
<1>13. ListThere(c)'
  BY <1>1, <1>2, <1>7, <1>8, <1>11, <1>12 DEF ListThere, Exists, Busy, Idle
<1>14. ExeStep(c)'
  <2>1. SUFFICES ASSUME Turns, Exe(c) PROVE /\ Past(q) => dir[Name(c, "aot")] = None
                                            /\ q.pc = "chmod" => Whole(Name(c, "aot"))
    BY <1>1, <1>8, <1>11, <1>12 DEF ExeStep, Exists, Whole, Puts
  <2>2. Past(q) => dir[Name(c, "aot")] = None
    BY <1>1, <1>2, <1>8, <2>1 DEF ExeStep, Exists
  <2>3. q.pc = "chmod" => Whole(Name(c, "aot"))
    <3> SUFFICES ASSUME q.pc = "chmod" PROVE Whole(Name(c, "aot"))
      OBVIOUS
    <3>1. Puts(p, {"aot"})
      BY <1>1, <1>2, <1>8 DEF Puts
    <3>2. dir[Name(c, "aot")] = p.ino /\ \A b \in Blocks : b < 3 => b \in file[p.ino].blocks
      BY <1>1, <1>2, <2>1, <3>1 DEF ExeStep
    <3>3. p.ino # None /\ p.ino \in Inodes /\ file[p.ino].blocks \in SUBSET Blocks
      BY <1>1, <1>2 DEF Local, Placed, ProcType, CacheType, FileType
    <3>4. file[p.ino].blocks = Blocks
      BY <3>2, <3>3 DEF Blocks
    <3> QED BY <3>2, <3>3, <3>4 DEF Whole, Exists
  <2> QED BY <2>2, <2>3
<1>15. ASSUME NEW n \in Names, dir'[n] # None, dir'[n] = dir[n], Settles(n) PROVE Settles(n)'
  <2>1. /\ Puts(p, {"so.o", "so.tmp"}) => q.pc \in {"ld", "ldDone"}
        /\ Puts(p, {"so.tmp"}) => q.pc \in {"ldDone", "soRename"}
        /\ Puts(p, {"aot"}) => q.pc \in {"chmod"}
    BY <1>5, <1>7 DEF Puts, Onward
  <2>2. ASSUME NEW L, NEW K, Finisher(n, L, K), "write" \notin L, Puts(p, K) => q.pc \in L
        PROVE  Finisher(n, L, K)'
    BY <1>1, <1>2, <1>11, <2>2, FinisherKept
  <2>3. ~Puts(p, {})
    BY DEF Puts
  <2> QED BY <1>1, <1>15, <2>1, <2>2, <2>3 DEF Settles, Exists
<1>16. SettleInv'
  BY <1>1, <1>9, <1>11, <1>15, SettleTidy
<1> QED BY <1>1, <1>8, <1>10, <1>13, <1>14, <1>16, QuietStep DEF Busy, Idle

(* The disk is full: what was begun is given up, and nobody relied on it. *)
LEMMA WriteFailsStep ==
  ASSUME CacheInv, NEW c \in Compilers, WriteFails(c), UNCHANGED <<scene, kills, losses>>
  PROVE  CacheInv'
<1>1. /\ CacheType /\ scene \in Scenes /\ proc[c] \in ProcType /\ Local(c, proc[c])
      /\ ListThere(c) /\ proc[c].pc = "write" /\ scene.full /\ file' = file /\ Busy(proc[c])
  BY OneCompiler DEF WriteFails, Writing, Busy, Idle
<1>2. PICK p : p = proc[c]
  OBVIOUS
<1>3. p.name[1] \in Written /\ Onward(p.name[1], p.then) /\ p.name = Name(c, p.name[1]) /\ Switched(c, p.then)
  BY <1>1, <1>2 DEF Local, Placed
<1>4. SettleInv' /\ ~Turns /\ ~Turns'
  BY <1>1 DEF SettleInv, Calm, Turns
<1>5. CASE Writing(c, Renamed) /\ Set(c, Left(c, proc[c].then)) /\ UNCHANGED dir
  <2>1. PICK q : q = [p EXCEPT !.pc = p.then, !.ino = None]
    OBVIOUS
  <2>2. proc' = [proc EXCEPT ![c] = q]
    BY <1>2, <1>5, <2>1 DEF Set, Left
  <2>3. p.then \in Labels
    BY <1>3 DEF Onward, Labels, Asking, Saving, Ending
  <2>4. q \in ProcType /\ q.pc = p.then /\ q.ino = None /\ q.out = p.out /\ q.bc = p.bc /\ q.std = p.std
    BY <1>1, <1>2, <2>1, <2>3 DEF ProcType
  <2>5. /\ Local(c, q) /\ (Past(q) /\ Exe(c) => Past(p)) /\ q.pc \notin {"write", "copy", "link"}
        /\ q.pc = "chmod" => p.name[1] = "aot"
    BY <1>1, <1>2, <2>4, ClosedLocal
  <2>6. q.pc # "chmod"
    BY <1>2, <1>5, <2>5 DEF Writing, Renamed
  <2>7. Quiet(c, q)
    BY <1>1, <1>5, <2>2, <2>4, <2>5, NoTidying DEF Quiet, Moves, Tidies
  <2> QED BY <1>1, <1>2, <1>4, <2>4, <2>5, <2>6, <2>7, PlainStep
<1>6. CASE /\ Writing(c, {"so.o", "so.tmp"})
           /\ Set(c, Left(c, Enter(c, "jitSave")))
           /\ dir' = [n \in Names |-> IF n \in {Name(c, "so.o"), proc[c].name} THEN None ELSE dir[n]]
  <2>1. PICK label : label = Enter(c, "jitSave")
    OBVIOUS
  <2>2. label \in {"jitSave", "bcAgain", "aotSave", "finish"} /\ Switched(c, label)
    BY <2>1, EnterJitSave
  <2>3. PICK q : q = [p EXCEPT !.pc = label, !.ino = None]
    OBVIOUS
  <2>4. proc' = [proc EXCEPT ![c] = q]
    BY <1>2, <1>6, <2>1, <2>3 DEF Set, Left
  <2>5. q \in ProcType /\ q.pc = label /\ q.ino = None /\ q.out = p.out /\ q.bc = p.bc /\ q.std = p.std
    <3>1. label \in Labels
      BY <2>2 DEF Labels, Saving, Ending
    <3> QED BY <1>1, <1>2, <2>3, <3>1 DEF ProcType
  <2>6. p.name[1] \in {"so.o", "so.tmp"}
    BY <1>2, <1>6 DEF Writing
  <2>7. Local(c, q)
    <3>1. Placed(c, q)
      BY <1>1, <1>2, <2>2, <2>5 DEF Local, Placed
    <3>2. HasOwn(p) /\ HasSome(p) /\ ~HasNothing(q) /\ q.pc # "ok"
      BY <1>1, <1>2, <2>2, <2>5, <2>6 DEF HasOwn, HasSome, HasNothing, Puts, Written, InPlace, Asking,
           Ahead
    <3>3. Results(c, q)
      BY <1>1, <1>2, <2>5, <3>2 DEF Local, Results
    <3>4. StdWhole(c, q)
      BY <1>1, <1>2, <2>2, <2>5 DEF Local, StdWhole, Busy, Idle, Ahead
    <3> QED BY <3>1, <3>3, <3>4 DEF Local
  <2>8. Tidies
    <3>1. Name(c, "so.o")[1] = "so.o"
      BY <1>1, NameTyped DEF Kinds
    <3>2. dir' \in [Names -> Inodes \cup {None}]
      BY <1>1, <1>6 DEF CacheType
    <3>3. \A n \in Names : dir'[n] = dir[n] \/ (dir'[n] = None /\ n[1] \in {"so.o", "so.tmp"})
      BY <1>2, <1>6, <2>6, <3>1
    <3> QED BY <1>1, <3>2, <3>3 DEF Tidies, Shrinks
  <2>9. Quiet(c, q)
    BY <1>1, <2>2, <2>4, <2>5, <2>7, <2>8 DEF Quiet, Moves, Tidies
  <2>10. Past(p)
    BY <1>1, <1>2, <2>6 DEF Past, Puts, Written, InPlace
  <2> QED BY <1>1, <1>2, <1>4, <2>2, <2>5, <2>9, <2>10, PlainStep
<1>7. CASE Writing(c, {"aot"}) /\ Set(c, Left(c, "finish")) /\ UNCHANGED dir
  <2>1. PICK q : q = [p EXCEPT !.pc = "finish", !.ino = None]
    OBVIOUS
  <2>2. proc' = [proc EXCEPT ![c] = q]
    BY <1>2, <1>7, <2>1 DEF Set, Left
  <2>3. q \in ProcType /\ q.pc = "finish" /\ q.ino = None /\ q.out = p.out /\ q.bc = p.bc /\ q.std = p.std
    BY <1>1, <1>2, <2>1 DEF ProcType, Labels, Ending
  <2>4. Local(c, q)
    <3>1. Placed(c, q)
      BY <1>1, <1>2, <2>3 DEF Local, Placed, Switched
    <3>2. HasSome(p) /\ ~HasNothing(q) /\ ~HasSome(q) /\ ~HasOwn(q)
      BY <1>1, <1>2, <1>7, <2>3 DEF HasOwn, HasSome, HasNothing, Puts, Writing, Asking, Ahead, Saving
    <3>3. Results(c, q)
      BY <1>1, <1>2, <2>3, <3>2 DEF Local, Results
    <3>4. StdWhole(c, q)
      BY <1>1, <1>2, <2>3 DEF Local, StdWhole, Busy, Idle, Ahead
    <3> QED BY <3>1, <3>3, <3>4 DEF Local
  <2>5. Quiet(c, q)
    BY <1>1, <1>7, <2>2, <2>3, <2>4, NoTidying DEF Quiet, Moves, Tidies
  <2> QED BY <1>1, <1>2, <1>4, <2>3, <2>5, PlainStep DEF Past, Puts, Saving
<1>8. CASE /\ Writing(c, {"aot", "so.libs"})
           /\ Set(c, [proc[c] EXCEPT !.left = 3]) /\ UNCHANGED dir
  <2>1. PICK q : q = [p EXCEPT !.left = 3]
    OBVIOUS
  <2>2. proc' = [proc EXCEPT ![c] = q]
    BY <1>2, <1>8, <2>1 DEF Set
  <2>3. /\ q \in ProcType /\ q.pc = "write" /\ q.ino = p.ino /\ q.out = p.out /\ q.bc = p.bc /\ q.std = p.std
        /\ q.name = p.name /\ q.then = p.then
    <3>1. 3 \in 1..3
      OBVIOUS
    <3> QED BY <1>1, <1>2, <2>1, <3>1 DEF ProcType
  <2>4. Local(c, q)
    <3>1. Placed(c, q) /\ StdWhole(c, q)
      BY <1>1, <1>2, <2>3 DEF Local, Placed, StdWhole, Busy, Idle, Ahead
    <3>2. Results(c, q)
      BY <1>1, <1>2, <2>3 DEF Local, Results, HasOwn, HasSome, HasNothing, Puts
    <3> QED BY <3>1, <3>2 DEF Local
  <2>5. Moves(c, q) /\ Tidies
    BY <1>1, <1>8, <2>2, <2>3, NoTidying DEF Moves
  <2>6. NameInv' /\ LocalInv'
    BY <1>1, <1>2, <2>3, <2>4, <2>5, NamesShrink, LocalKept DEF Tidies
  <2>7. CacheType'
    BY <1>1, <1>8, <2>5, TypeKept DEF CacheType
  <2>8. proc'[c] = q /\ \A d \in Compilers : d # c => proc'[d] = proc[d]
    BY <1>1, <2>5, Moved
  <2>9. /\ Names' = Names /\ Compilers' = Compilers /\ (\A d, k : Name(d, k)' = Name(d, k))
        /\ \A d : me(d)' = me(d)
    BY SceneFixed
  <2>10. (\A n, m : GoodFor(n, m)' <=> GoodFor(n, m)) /\ (ListKept' <=> ListKept)
    BY Judged
  <2>11. FileInv'
    <3>1. EntriesGood' /\ RenamedWhole'
      BY <1>1, <1>8, <2>9, <2>10 DEF CacheInv, FileInv, EntriesGood, RenamedWhole, Exists
    <3>2. TempGood(c)'
      BY <1>2, <1>8, <2>3, <2>8 DEF TempGood, Puts, Writing, Renamed
    <3>3. ASSUME NEW d \in Compilers, d # c PROVE TempGood(d)'
      <4>1. TempGood(d) /\ proc'[d] = proc[d]
        BY <2>8, <3>3 DEF CacheInv, FileInv
      <4> QED BY <1>1, <2>10, <4>1 DEF TempGood
    <3>4. ASSUME NEW d \in Compilers PROVE ListThere(d)'
      <4>1. ListThere(d) /\ proc'[d].pc = proc[d].pc /\ proc'[d].bc = proc[d].bc
            /\ proc'[d].ino = proc[d].ino /\ (d = c \/ proc'[d] = proc[d])
        BY <1>1, <1>2, <2>3, <2>8 DEF CacheInv, FileInv
      <4> QED BY <1>1, <1>2, <1>8, <2>3, <2>8, <2>9, <2>10, <4>1 DEF ListThere, Exists, Busy
    <3> QED BY <2>9, <3>1, <3>2, <3>3, <3>4 DEF FileInv
  <2>12. TurnInv'
    <3>1. ExecWhole' /\ ExeStep(c)'
      BY <1>4 DEF ExecWhole, ExeStep
    <3> QED BY <1>1, <2>5, <3>1, TurnKept
  <2> QED BY <1>4, <2>6, <2>7, <2>11, <2>12 DEF CacheInv
<1> QED BY <1>5, <1>6, <1>7, <1>8 DEF WriteFails

(* A temporary file is whole when it gets its name, and its writer was the *)
(* only one to have it open.                                               *)
LEMMA RenameStep ==
  ASSUME CacheInv, NEW c \in Compilers, Rename(c), UNCHANGED <<scene, kills, losses>>
  PROVE  CacheInv'
<1>1. /\ CacheType /\ scene \in Scenes /\ proc[c] \in ProcType /\ Local(c, proc[c])
      /\ ListThere(c) /\ ExeStep(c) /\ proc[c].pc = "write" /\ file' = file /\ Busy(proc[c])
      /\ proc[c].name[1] \in Renamed /\ proc[c].left = 3
  BY OneCompiler DEF Rename, Writing, Busy, Idle, ProcType, Blocks
<1>2. PICK p : p = proc[c]
  OBVIOUS
<1>3. PICK n, i : n = p.name /\ i = p.ino
  OBVIOUS
<1>4. /\ n[1] \in Renamed /\ Onward(n[1], p.then) /\ n = Name(c, n[1]) /\ Switched(c, p.then)
      /\ i \in Inodes /\ i # None
  BY <1>1, <1>2, <1>3 DEF Local, Placed, ProcType
<1>5. n \in Names
  BY <1>1, <1>4, NameTyped DEF Renamed, Kinds
<1>6. PICK s : s = (p.saved \/ Writing(c, {"bc"}))
  OBVIOUS
<1>7. PICK q : q = [[p EXCEPT !.pc = p.then, !.ino = None] EXCEPT !.saved = s]
  OBVIOUS
<1>8. proc' = [proc EXCEPT ![c] = q] /\ dir' = [dir EXCEPT ![n] = i]
  BY <1>2, <1>3, <1>6, <1>7 DEF Rename, Set, Left
<1>9. p.then \in Labels /\ s \in BOOLEAN
  BY <1>4, <1>6 DEF Onward, Labels, Asking, Saving, Ending
<1>10. q \in ProcType /\ q.pc = p.then /\ q.ino = None /\ q.out = p.out /\ q.bc = p.bc /\ q.std = p.std
  BY <1>1, <1>2, <1>7, <1>9 DEF ProcType
<1>11. /\ Local(c, q) /\ (Past(q) /\ Exe(c) => Past(p)) /\ q.pc \notin {"write", "copy", "link", "chmod"}
  <2>1. /\ Local(c, q) /\ (Past(q) /\ Exe(c) => Past(p)) /\ q.pc \notin {"write", "copy", "link"}
        /\ q.pc = "chmod" => p.name[1] = "aot"
    BY <1>1, <1>2, <1>10, ClosedLocal
  <2> QED BY <1>3, <1>4, <2>1 DEF Renamed
<1>12. Moves(c, q)
  BY <1>8, <1>10 DEF Moves
<1>13. /\ proc'[c] = q
       /\ \A d \in Compilers : d # c => proc'[d] = proc[d]
       /\ scene' = scene /\ losses' = losses /\ (Calm' => Calm)
  BY <1>1, <1>12, Moved
<1>14. /\ Names' = Names /\ Compilers' = Compilers /\ (\A d, k : Name(d, k)' = Name(d, k))
       /\ (\A d : me(d)' = me(d)) /\ (Turns' <=> Turns) /\ (\A d : Exe(d)' <=> Exe(d))
  BY SceneFixed
<1>15. (\A k, m : GoodFor(k, m)' <=> GoodFor(k, m)) /\ (ListKept' <=> ListKept)
  BY Judged
<1>16. /\ dir' \in [Names -> Inodes \cup {None}] /\ dir'[n] = i
       /\ \A k \in Names : k # n => dir'[k] = dir[k]
  BY <1>1, <1>4, <1>5, <1>8 DEF CacheType
<1>17. /\ \A k \in Names : dir[k] # i
       /\ \A d \in Compilers : d # c => proc[d].ino # i
       /\ GoodFor(n, file[i].made) /\ file[i].blocks = Blocks
  <2>1. Private(c) /\ TempGood(c) /\ Puts(proc[c], Renamed)
    BY <1>1 DEF CacheInv, NameInv, FileInv, Puts
  <2>2. GoodFor(n, file[i].made) /\ \A b \in Blocks : b < 3 => b \in file[i].blocks
    BY <1>1, <1>2, <1>3, <2>1 DEF TempGood
  <2>3. file[i].blocks \in SUBSET Blocks
    BY <1>1, <1>4 DEF CacheType, FileType
  <2>4. file[i].blocks = Blocks
    BY <2>2, <2>3 DEF Blocks
  <2> QED BY <1>2, <1>3, <2>1, <2>2, <2>4 DEF Private
<1>18. CacheType'
  BY <1>1, <1>12, <1>16, TypeKept DEF CacheType
<1>19. LocalInv'
  BY <1>11, <1>12, LocalKept
<1>20. NameInv'
  <2>1. \A k, l \in Names : dir'[k] # None /\ dir'[k] = dir'[l] => k = l
    BY <1>16, <1>17 DEF CacheInv, NameInv, OneName, Exists
  <2>2. OneName'
    BY <1>14, <2>1 DEF OneName, Exists
  <2>3. Private(c)' /\ Reach(c)'
    BY <1>10, <1>11, <1>13 DEF Private, Reach, Puts
  <2>4. ASSUME NEW d \in Compilers, d # c PROVE Private(d)' /\ Reach(d)'
    <3>1. proc'[d] = proc[d] /\ Private(d) /\ Reach(d)
      BY <1>13, <2>4 DEF CacheInv, NameInv
    <3>2. proc[d].ino # i
      BY <1>17, <2>4
    <3>3. \A k \in Names : dir'[k] = proc[d].ino => dir[k] = proc[d].ino
      BY <1>16, <3>2
    <3>4. Puts(proc[d], Renamed) => proc[d].ino # None
      BY DEF CacheInv, LocalInv, Local, Placed, Puts
    <3>5. Private(d)'
      BY <1>10, <1>13, <1>14, <3>1, <3>3, <3>4 DEF Private
    <3>6. Reach(d)'
      BY <1>14, <3>1, <3>3 DEF Reach
    <3> QED BY <3>5, <3>6
  <2> QED BY <1>14, <2>2, <2>3, <2>4 DEF NameInv
<1>21. FileInv'
  <2>1. EntriesGood' /\ RenamedWhole'
    BY <1>1, <1>13, <1>14, <1>15, <1>16, <1>17 DEF CacheInv, FileInv, EntriesGood, RenamedWhole, Exists
  <2>2. TempGood(c)'
    BY <1>11, <1>13 DEF TempGood, Puts
  <2>3. \A d \in Compilers : Exists(Name(d, "bc.libs")) => dir'[Name(d, "bc.libs")] # None
    BY <1>4, <1>16, <1>1, NameTyped DEF Exists, Kinds
  <2>4. ListThere(c)'
    BY <1>1, <1>2, <1>10, <1>11, <1>13, <1>14, <2>3 DEF ListThere, Exists
  <2>5. ASSUME NEW d \in Compilers, d # c PROVE TempGood(d)' /\ ListThere(d)'
    <3>1. proc'[d] = proc[d] /\ TempGood(d) /\ ListThere(d)
      BY <1>13, <2>5 DEF CacheInv, FileInv
    <3>2. TempGood(d)'
      BY <1>1, <1>15, <3>1 DEF TempGood
    <3>3. ListThere(d)'
      BY <1>1, <1>13, <1>14, <1>15, <2>3, <3>1 DEF ListThere, Exists
    <3> QED BY <3>2, <3>3
  <2> QED BY <1>14, <2>1, <2>2, <2>4, <2>5 DEF FileInv
<1>22. TurnInv'
  <2>1. ExecWhole'
    BY <1>1, <1>4, <1>14, <1>16 DEF CacheInv, TurnInv, ExecWhole, Exists, Renamed
  <2>2. Name(c, "aot") \in Names /\ Name(c, "aot") # n
    BY <1>1, <1>4, NameTyped DEF Kinds, Renamed
  <2>3. ExeStep(c)'
    BY <1>1, <1>2, <1>11, <1>13, <1>14, <1>16, <2>2 DEF ExeStep, Exists, Puts
  <2> QED BY <1>1, <1>12, <2>1, <2>3, TurnKept
<1>23. SettleInv'
  <2>1. SUFFICES ASSUME Calm PROVE WillBeWhole' /\ WillSettle'
    BY <1>13 DEF SettleInv
  <2>2. WillBeWhole /\ WillSettle
    BY <2>1 DEF CacheInv, SettleInv
  <2>3. WillBeWhole'
    <3> SUFFICES ASSUME NEW k \in Names, NEW b \in Blocks, dir'[k] # None, b \notin file[dir'[k]].blocks
                 PROVE  Writer(dir[k], b)'
      BY <1>1, <1>14 DEF WillBeWhole, Exists
    <3>1. k # n
      BY <1>16, <1>17
    <3>2. PICK j : j = dir[k]
      OBVIOUS
    <3>3. Writer(j, b) /\ j # i /\ dir'[k] = j
      BY <1>16, <1>17, <2>2, <3>1, <3>2 DEF WillBeWhole, Exists
    <3>4. Writer(j, b)'
      BY <1>1, <1>2, <1>3, <1>12, <3>3, WriterKept
    <3> QED BY <3>3, <3>4 DEF Writer
  <2>4. WillSettle'
    <3> SUFFICES ASSUME NEW k \in Names, dir'[k] # None PROVE Settles(k)'
      BY <1>14 DEF WillSettle, Exists
    <3>1. CASE k = n
      BY <1>4, <3>1 DEF Settles, Renamed
    <3>2. CASE k # n
      <4>1. Settles(k) /\ dir'[k] = dir[k]
        BY <1>16, <2>2, <3>2 DEF WillSettle, Exists
      <4>2. /\ ~Puts(proc[c], {"so.o", "so.tmp"}) /\ ~Puts(proc[c], {"so.tmp"})
            /\ ~Puts(proc[c], {"aot"}) /\ ~Puts(proc[c], {})
        BY <1>1 DEF Puts, Renamed
      <4>3. ASSUME NEW L, NEW K, Finisher(k, L, K), "write" \notin L, ~Puts(proc[c], K)
            PROVE  Finisher(k, L, K)'
        BY <1>1, <1>12, <4>3, FinisherKept
      <4>4. k[1] = "so" /\ dir[<<"so.libs", k[2]>>] # None => dir'[<<"so.libs", k[2]>>] # None
        BY <1>1, <1>4, <1>16, OwnLibs
      <4> QED BY <1>1, <4>1, <4>2, <4>3, <4>4 DEF Settles, Exists
    <3> QED BY <3>1, <3>2
  <2> QED BY <2>3, <2>4
<1> QED BY <1>18, <1>19, <1>20, <1>21, <1>22, <1>23 DEF CacheInv

(* A block is written to an inode that may have been cut by another or     *)
(* have lost its name.                                                     *)
LEMMA WriteBlockStep ==
  ASSUME CacheInv, NEW c \in Compilers, WriteBlock(c), UNCHANGED <<scene, kills, losses>>
  PROVE  CacheInv'
<1>1. /\ CacheType /\ scene \in Scenes /\ proc[c] \in ProcType /\ Local(c, proc[c])
      /\ ListThere(c) /\ ExeStep(c) /\ proc[c].pc = "write" /\ dir' = dir /\ Busy(proc[c])
      /\ Private(c) /\ Reach(c) /\ TempGood(c)
  BY OneCompiler DEF WriteBlock, Writing, Busy, Idle, CacheInv, NameInv, FileInv
<1>2. PICK p : p = proc[c]
  OBVIOUS
<1>3. PICK i : i = p.ino
  OBVIOUS
<1>4. PICK f : f = [file[i] EXCEPT !.blocks = @ \cup {p.left}]
  OBVIOUS
<1>5. PICK q : q = [p EXCEPT !.left = p.left + 1]
  OBVIOUS
<1>6. proc' = [proc EXCEPT ![c] = q] /\ file' = [file EXCEPT ![i] = f] /\ p.left \in Blocks
  BY <1>2, <1>3, <1>4, <1>5 DEF WriteBlock, Set
<1>7. /\ q \in ProcType /\ q.pc = "write" /\ q.ino = i /\ q.out = p.out /\ q.bc = p.bc /\ q.std = p.std
      /\ q.name = p.name /\ q.then = p.then /\ q.left = p.left + 1
  <2>1. p.left + 1 \in 1..3
    BY <1>6 DEF Blocks
  <2> QED BY <1>1, <1>2, <1>3, <1>5, <2>1 DEF ProcType
<1>8. i \in Inodes /\ i # None
  BY <1>1, <1>2, <1>3 DEF Local, Placed, ProcType
<1>9. /\ f \in FileType /\ f.made = file[i].made /\ f.exec = file[i].exec
      /\ f.blocks = file[i].blocks \cup {p.left}
  <2>1. file[i] \in FileType
    BY <1>1, <1>8 DEF CacheType
  <2> QED BY <1>4, <1>6, <2>1 DEF FileType
<1>10. /\ file' \in [Inodes -> FileType] /\ file'[i] = f
       /\ \A j \in Inodes : j # i => file'[j] = file[j]
  BY <1>1, <1>6, <1>8, <1>9 DEF CacheType
<1>11. \A j \in Inodes : file'[j].made = file[j].made /\ file'[j].exec = file[j].exec
  BY <1>9, <1>10
<1>12. \A n \in Names : dir[n] # None => dir[n] \in Inodes
  BY <1>1 DEF CacheType
<1>13. Moves(c, q)
  BY <1>6, <1>7 DEF Moves
<1>14. Local(c, q)
  <2>1. Placed(c, q) /\ StdWhole(c, q)
    BY <1>1, <1>2, <1>3, <1>7 DEF Local, Placed, StdWhole, Busy, Idle, Ahead
  <2>2. Results(c, q)
    BY <1>1, <1>2, <1>7 DEF Local, Results, HasOwn, HasSome, HasNothing, Puts
  <2> QED BY <2>1, <2>2 DEF Local
<1>15. CacheType' /\ LocalInv'
  BY <1>1, <1>10, <1>13, <1>14, TypeKept, LocalKept DEF CacheType
<1>16. NameInv'
  BY <1>1, <1>2, <1>3, <1>7, <1>13, <1>14, NamesShrink, Unmoved
<1>17. /\ proc'[c] = q
       /\ \A d \in Compilers : d # c => proc'[d] = proc[d]
       /\ Calm' => Calm
  BY <1>1, <1>13, Moved
<1>18. /\ Names' = Names /\ Compilers' = Compilers /\ (\A d, k : Name(d, k)' = Name(d, k))
       /\ (\A d : me(d)' = me(d)) /\ (Turns' <=> Turns) /\ (\A d : Exe(d)' <=> Exe(d))
  BY SceneFixed
<1>19. ASSUME NEW n \in Names, dir[n] = i
       PROVE  n[1] \notin Renamed /\ (n[1] = "aot" => p.name = n)
  <2>1. p.name = n \/ (Puts(p, {"so.tmp"}) /\ n = Name(c, "so"))
    BY <1>1, <1>2, <1>3, <1>8, <1>19 DEF Reach
  <2>2. ~Puts(p, Renamed)
    BY <1>1, <1>2, <1>3, <1>19 DEF Private
  <2>3. Name(c, "so")[1] = "so"
    BY <1>1, NameTyped DEF Kinds
  <2> QED BY <1>1, <1>2, <2>1, <2>2, <2>3 DEF Puts, Renamed
<1>20. FileInv'
  <2>1. TempGood(c)'
    <3> SUFFICES ASSUME Puts(q, Renamed)
                 PROVE  /\ GoodFor(q.name, f.made)'
                        /\ \A b \in Blocks : b < q.left => b \in f.blocks
      BY <1>7, <1>10, <1>17 DEF TempGood
    <3>1. GoodFor(p.name, file[i].made) /\ \A b \in Blocks : b < p.left => b \in file[i].blocks
      BY <1>1, <1>2, <1>3, <1>7 DEF TempGood, Puts
    <3>2. GoodFor(q.name, f.made)'
      BY <1>7, <1>9, <3>1, Judged
    <3>3. ASSUME NEW b \in Blocks, b < q.left PROVE b \in f.blocks
      <4>1. b < p.left \/ b = p.left
        BY <1>6, <1>7, <3>3 DEF Blocks
      <4> QED BY <1>9, <3>1, <4>1
    <3> QED BY <3>2, <3>3
  <2>2. ListThere(c)'
    BY <1>1, <1>2, <1>7, <1>17, <1>18 DEF ListThere, Exists, Busy
  <2>3. \A n \in Names : dir'[n] = i => GoodFor(n, file'[i].made) /\ n[1] \notin Renamed
    BY <1>1, <1>8, <1>9, <1>10, <1>19 DEF CacheInv, FileInv, EntriesGood, Exists
  <2>4. ASSUME NEW d \in Compilers \ {c} PROVE Puts(proc[d], Renamed) => proc[d].ino # i
    BY <1>2, <1>3 DEF CacheInv, NameInv, Private
  <2>5. ASSUME NEW d \in Compilers \ {c}, proc[d].pc = "copy", proc[d].ino = i, ListKept
        PROVE  file'[i].made.libs
    <3>1. me(d).goal = "aot"
      BY <2>5 DEF CacheInv, LocalInv, Local, Placed, Switched, Exe
    <3> QED BY <1>9, <1>10, <2>5, <3>1 DEF CacheInv, FileInv, ListThere
  <2> QED BY <1>1, <1>8, <1>10, <1>13, <2>1, <2>2, <2>3, <2>4, <2>5, FilesWritten
<1>21. TurnInv'
  <2>1. ExecWhole'
    <3> SUFFICES ASSUME Turns, NEW n \in Names, dir[n] # None, n[1] = "aot", file'[dir[n]].exec
                 PROVE  file'[dir[n]].blocks \in {{}, Blocks}
      BY <1>1, <1>18 DEF ExecWhole, Exists
    <3>1. dir[n] # i
      <4> SUFFICES ASSUME dir[n] = i PROVE FALSE
        OBVIOUS
      <4>1. p.name = n /\ Puts(p, {"aot"})
        BY <1>1, <1>2, <1>19 DEF Puts
      <4>2. Exe(c)
        BY <1>1, <1>2, <4>1 DEF Local, Placed, Onward, Switched, Puts
      <4>3. ~file[i].exec
        BY <1>1, <1>2, <1>3, <4>1, <4>2 DEF ExeStep
      <4> QED BY <1>9, <1>10, <4>3
    <3> QED BY <1>10, <1>12, <3>1 DEF CacheInv, TurnInv, ExecWhole, Exists
  <2>2. ExeStep(c)'
    <3>1. SUFFICES ASSUME Turns, Exe(c)
                   PROVE  /\ Past(q) => dir[Name(c, "aot")] = None
                          /\ Puts(q, {"aot"}) => /\ dir[Name(c, "aot")] = i /\ ~f.exec
                                                 /\ \A b \in Blocks : b < q.left => b \in f.blocks
      BY <1>1, <1>7, <1>10, <1>17, <1>18 DEF ExeStep, Exists
    <3>2. Past(q) => dir[Name(c, "aot")] = None
      BY <1>1, <1>2, <1>7, <3>1 DEF ExeStep, Past, Puts, Exists
    <3>3. ASSUME Puts(q, {"aot"})
          PROVE  /\ dir[Name(c, "aot")] = i /\ ~f.exec
                 /\ \A b \in Blocks : b < q.left => b \in f.blocks
      <4>1. /\ dir[Name(c, "aot")] = i /\ ~file[i].exec
            /\ \A b \in Blocks : b < p.left => b \in file[i].blocks
        BY <1>1, <1>2, <1>3, <1>7, <3>1, <3>3 DEF ExeStep, Puts
      <4>2. ASSUME NEW b \in Blocks, b < q.left PROVE b \in f.blocks
        <5>1. b < p.left \/ b = p.left
          BY <1>6, <1>7, <4>2 DEF Blocks
        <5> QED BY <1>9, <4>1, <5>1
      <4> QED BY <1>9, <4>1, <4>2
    <3> QED BY <3>2, <3>3
  <2> QED BY <1>1, <1>13, <2>1, <2>2, TurnKept
<1>22. SettleInv'
  <2>1. SUFFICES ASSUME Calm PROVE WillBeWhole' /\ WillSettle'
    BY <1>17 DEF SettleInv
  <2>2. WillBeWhole /\ WillSettle
    BY <2>1 DEF CacheInv, SettleInv
  <2>3. WillBeWhole'
    <3> SUFFICES ASSUME NEW n \in Names, NEW b \in Blocks, dir[n] # None, b \notin file'[dir[n]].blocks
                 PROVE  Writer(dir[n], b)'
      BY <1>1, <1>18 DEF WillBeWhole, Exists
    <3>1. PICK j : j = dir[n]
      OBVIOUS
    <3>2. j \in Inodes /\ b \notin file[j].blocks /\ (j = i => b # p.left)
      BY <1>9, <1>10, <1>12, <3>1
    <3>3. Writer(j, b)
      BY <2>2, <3>1, <3>2 DEF WillBeWhole, Exists
    <3>4. j = i /\ p.left <= b => q.left <= b
      BY <1>6, <1>7, <3>2 DEF Blocks
    <3>5. Writer(j, b)'
      BY <1>1, <1>2, <1>3, <1>7, <1>13, <3>3, <3>4, WriterKept
    <3> QED BY <1>1, <3>1, <3>5 DEF Writer
  <2>4. WillSettle'
    <3> SUFFICES ASSUME NEW n \in Names, dir[n] # None PROVE Settles(n)'
      BY <1>1, <1>18 DEF WillSettle, Exists
    <3>1. Settles(n) /\ file'[dir[n]].exec = file[dir[n]].exec
      BY <1>11, <1>12, <2>2 DEF WillSettle, Exists
    <3>2. ASSUME NEW L, NEW K, Finisher(n, L, K), "write" \notin L PROVE Finisher(n, L, K)'
      <4>1. Puts(proc[c], K) => Puts(q, K)
        BY <1>2, <1>7 DEF Puts
      <4> QED BY <1>1, <1>13, <3>2, <4>1, FinisherKept
    <3> QED BY <1>1, <3>1, <3>2 DEF Settles, Exists
  <2> QED BY <2>3, <2>4
<1> QED BY <1>15, <1>16, <1>20, <1>21, <1>22 DEF CacheInv

(* The mode goes to whatever file now has the executable's name; with      *)
(* compilers in turn it is one's own.                                      *)
LEMMA ChmodStep ==
  ASSUME CacheInv, NEW c \in Compilers, Chmod(c), UNCHANGED <<scene, kills, losses>>
  PROVE  CacheInv'
<1>1. /\ CacheType /\ scene \in Scenes /\ proc[c] \in ProcType /\ Local(c, proc[c])
      /\ ListThere(c) /\ ExeStep(c) /\ proc[c].pc = "chmod" /\ dir' = dir /\ Busy(proc[c])
  BY OneCompiler DEF Chmod, Busy, Idle
<1>2. PICK n : n = Name(c, "aot")
  OBVIOUS
<1>3. n \in Names /\ n[1] = "aot" /\ n[2] = me(c).id /\ Exe(c)
  BY <1>1, <1>2, NameTyped DEF Kinds, SharedKinds, Local, Placed, Switched
<1>4. PICK i : i = dir[n]
  OBVIOUS
<1>5. PICK q : q = At(c, "finish")
  OBVIOUS
<1>6. /\ proc' = [proc EXCEPT ![c] = q]
      /\ file' = [j \in Inodes |-> IF j = i THEN [file[j] EXCEPT !.exec = TRUE] ELSE file[j]]
  BY <1>2, <1>4, <1>5 DEF Chmod, Set
<1>7. /\ q \in ProcType /\ q.pc = "finish" /\ q.ino = proc[c].ino /\ q.out = proc[c].out /\ q.bc = proc[c].bc
      /\ q.std = proc[c].std
  BY <1>1, <1>5 DEF At, ProcType, Labels, Ending
<1>8. Local(c, q) /\ q.ino = None
  <2>1. Placed(c, q) /\ StdWhole(c, q)
    BY <1>1, <1>7 DEF Local, Placed, StdWhole, Busy, Idle, Ahead, Switched
  <2>2. Results(c, q)
    BY <1>1, <1>7 DEF Local, Results, HasOwn, HasSome, HasNothing, Puts, Saving, Asking, Ahead
  <2>3. q.ino = None
    BY <1>1, <1>7 DEF Local, Placed
  <2> QED BY <2>1, <2>2, <2>3 DEF Local
<1>9. /\ file' \in [Inodes -> FileType]
      /\ \A j \in Inodes : /\ file'[j].made = file[j].made /\ file'[j].blocks = file[j].blocks
                           /\ j # i => file'[j] = file[j]
                           /\ j = i => file'[j].exec
  <2>1. \A j \in Inodes : file[j] \in FileType
    BY <1>1 DEF CacheType
  <2>2. ASSUME NEW j \in Inodes
        PROVE  /\ file'[j] \in FileType
               /\ file'[j].made = file[j].made /\ file'[j].blocks = file[j].blocks
               /\ j # i => file'[j] = file[j]
               /\ j = i => file'[j].exec
    BY <1>6, <2>1 DEF FileType
  <2> QED BY <1>6, <2>2
<1>10. Moves(c, q)
  BY <1>6, <1>7 DEF Moves
<1>11. CacheType' /\ LocalInv'
  BY <1>1, <1>8, <1>9, <1>10, TypeKept, LocalKept DEF CacheType
<1>12. NameInv'
  BY <1>1, <1>8, <1>10, NamesShrink, Unmoved
<1>13. /\ proc'[c] = q
       /\ \A d \in Compilers : d # c => proc'[d] = proc[d]
       /\ Calm' => Calm
  BY <1>1, <1>10, Moved
<1>14. /\ Names' = Names /\ Compilers' = Compilers /\ (\A d, k : Name(d, k)' = Name(d, k))
       /\ (\A d : me(d)' = me(d)) /\ (Turns' <=> Turns) /\ (\A d : Exe(d)' <=> Exe(d))
  BY SceneFixed
<1>15. (\A k, m : GoodFor(k, m)' <=> GoodFor(k, m)) /\ (ListKept' <=> ListKept)
  BY Judged
<1>16. \A k \in Names : dir[k] # None => dir[k] \in Inodes
  BY <1>1 DEF CacheType
<1>17. FileInv'
  <2>1. EntriesGood' /\ RenamedWhole'
    BY <1>1, <1>9, <1>14, <1>15, <1>16 DEF CacheInv, FileInv, EntriesGood, RenamedWhole, Exists
  <2>2. TempGood(c)' /\ ListThere(c)'
    BY <1>1, <1>7, <1>13, <1>14 DEF TempGood, ListThere, Puts, Exists
  <2>3. ASSUME NEW d \in Compilers, d # c PROVE TempGood(d)' /\ ListThere(d)'
    <3>1. proc'[d] = proc[d] /\ TempGood(d) /\ ListThere(d)
      BY <1>13, <2>3 DEF CacheInv, FileInv
    <3>2. proc[d].pc \in {"write", "copy"} => proc[d].ino \in Inodes
      BY <1>1 DEF CacheType, ProcType, CacheInv, LocalInv, Local, Placed
    <3>3. TempGood(d)'
      BY <1>9, <1>15, <3>1, <3>2 DEF TempGood, Puts
    <3>4. ListThere(d)'
      BY <1>1, <1>9, <1>14, <1>15, <3>1, <3>2 DEF ListThere, Exists
    <3> QED BY <3>3, <3>4
  <2> QED BY <1>14, <2>1, <2>2, <2>3 DEF FileInv
<1>18. TurnInv'
  <2>1. ExecWhole'
    <3> SUFFICES ASSUME Turns, NEW k \in Names, dir[k] # None, k[1] = "aot", file'[dir[k]].exec
                 PROVE  file'[dir[k]].blocks \in {{}, Blocks}
      BY <1>1, <1>14 DEF ExecWhole, Exists
    <3>1. CASE dir[k] = i
      <4>1. file[i].blocks = Blocks
        BY <1>1, <1>2, <1>3, <1>4 DEF ExeStep, Whole
      <4> QED BY <1>9, <1>16, <3>1, <4>1
    <3>2. CASE dir[k] # i
      BY <1>9, <1>16, <3>2 DEF CacheInv, TurnInv, ExecWhole, Exists
    <3> QED BY <3>1, <3>2
  <2>2. ExeStep(c)'
    BY <1>7, <1>13 DEF ExeStep, Past, Puts, Saving
  <2> QED BY <1>1, <1>10, <2>1, <2>2, TurnKept
<1>19. SettleInv'
  <2>1. SUFFICES ASSUME Calm PROVE WillBeWhole' /\ WillSettle'
    BY <1>13 DEF SettleInv
  <2>2. WillBeWhole /\ WillSettle
    BY <2>1 DEF CacheInv, SettleInv
  <2>3. WillBeWhole'
    <3> SUFFICES ASSUME NEW k \in Names, NEW b \in Blocks, dir[k] # None, b \notin file'[dir[k]].blocks
                 PROVE  Writer(dir[k], b)'
      BY <1>1, <1>14 DEF WillBeWhole, Exists
    <3>1. PICK j : j = dir[k]
      OBVIOUS
    <3>2. Writer(j, b)
      BY <1>9, <1>16, <2>2, <3>1 DEF WillBeWhole, Exists
    <3>3. Writer(j, b)'
      BY <1>1, <1>10, <3>2, WriterKept
    <3> QED BY <1>1, <3>1, <3>3 DEF Writer
  <2>4. WillSettle'
    <3> SUFFICES ASSUME NEW k \in Names, dir[k] # None PROVE Settles(k)'
      BY <1>1, <1>14 DEF WillSettle, Exists
    <3>1. Settles(k)
      BY <2>2 DEF WillSettle, Exists
    <3>2. ASSUME NEW L, NEW K, Finisher(k, L, K), "chmod" \notin L \/ k[2] # me(c).id PROVE Finisher(k, L, K)'
      <4>1. ~(me(c).id = k[2] /\ (proc[c].pc \in L \/ Puts(proc[c], K)))
        BY <1>1, <3>2 DEF Puts
      <4> QED BY <1>1, <1>10, <3>2, <4>1, FinisherKept
    <3>3. k[1] = "aot" => file'[dir[k]].exec \/ Finisher(k, {"chmod"}, {"aot"})'
      <4> SUFFICES ASSUME k[1] = "aot" PROVE file'[dir[k]].exec \/ Finisher(k, {"chmod"}, {"aot"})'
        OBVIOUS
      <4>1. CASE k[2] = me(c).id
        <5>1. k = n
          BY <1>1, <1>2, <4>1, NameOwn DEF SharedKinds
        <5> QED BY <1>4, <1>9, <1>16, <5>1
      <4>2. CASE k[2] # me(c).id
        BY <1>9, <1>16, <3>1, <3>2, <4>2 DEF Settles
      <4> QED BY <4>1, <4>2
    <3> QED BY <1>1, <3>1, <3>2, <3>3 DEF Settles, Exists
  <2> QED BY <2>3, <2>4
<1> QED BY <1>11, <1>12, <1>17, <1>18, <1>19 DEF CacheInv

(* The shared object moves to its name, which may still be written by      *)
(* another linker.                                                         *)
LEMMA SoRenameStep ==
  ASSUME CacheInv, NEW c \in Compilers, SoRename(c), UNCHANGED <<scene, kills, losses>>
  PROVE  CacheInv'
<1>1. /\ CacheType /\ scene \in Scenes /\ proc[c] \in ProcType /\ Local(c, proc[c])
      /\ ListThere(c) /\ ExeStep(c) /\ proc[c].pc = "soRename" /\ file' = file /\ Busy(proc[c]) /\ Past(proc[c])
  BY OneCompiler DEF SoRename, Busy, Idle, Goto, Past, Saving
<1>2. PICK t, s : t = Name(c, "so.tmp") /\ s = Name(c, "so")
  OBVIOUS
<1>3. t \in Names /\ t[1] = "so.tmp" /\ s \in Names /\ s[1] = "so" /\ t[2] = me(c).id /\ s[2] = me(c).id
  BY <1>1, <1>2, NameTyped DEF Kinds, SharedKinds
<1>4. CASE ~Exists(t)
  <2>1. PICK label : label = Enter(c, "jitSave")
    OBVIOUS
  <2>2. label \in {"jitSave", "bcAgain", "aotSave", "finish"} /\ Switched(c, label)
    BY <2>1, EnterJitSave
  <2>3. Set(c, At(c, label)) /\ UNCHANGED <<dir, file>>
    BY <1>2, <1>4, <2>1 DEF SoRename, Goto
  <2>4. Tidies
    BY <1>1, <2>3, NoTidying
  <2>5. PICK q : q = At(c, label)
    OBVIOUS
  <2>6. Moves(c, q)
    BY <1>1, <2>2, <2>3, <2>5 DEF Moves, Set, At, ProcType, Labels, Saving, Ending
  <2>7. ASSUME NEW n \in Names, dir'[n] # None, dir'[n] = dir[n], Settles(n) PROVE Settles(n)'
    <3>1. n[1] = "so.tmp" => n[2] # me(c).id
      BY <1>1, <1>2, <1>4, <2>7, NameOwn DEF SharedKinds, Exists
    <3>2. ASSUME NEW L, NEW K, Finisher(n, L, K), n[2] # me(c).id \/ "soRename" \notin L
          PROVE  Finisher(n, L, K)'
      <4>1. ~(me(c).id = n[2] /\ (proc[c].pc \in L \/ Puts(proc[c], K)))
        BY <1>1, <3>2 DEF Puts
      <4> QED BY <1>1, <2>6, <3>2, <4>1, FinisherKept
    <3> QED BY <2>3, <2>7, <3>1, <3>2 DEF Settles, Exists
  <2>8. SettleInv'
    BY <1>1, <2>4, <2>6, <2>7, SettleTidy
  <2> QED BY <1>1, <2>2, <2>3, <2>4, <2>8, LabelStep DEF Saving, Ahead
<1>5. CASE Exists(t)
  <2>1. PICK i : i = dir[t]
    OBVIOUS
  <2>2. i \in Inodes /\ i # None
    BY <1>1, <1>3, <1>5, <2>1 DEF CacheType, Exists
  <2>3. PICK q : q = At(c, "soLibs")
    OBVIOUS
  <2>4. proc' = [proc EXCEPT ![c] = q] /\ dir' = [dir EXCEPT ![s] = i, ![t] = None]
    BY <1>2, <1>5, <2>1, <2>3 DEF SoRename, Set
  <2>5. /\ q \in ProcType /\ q.pc = "soLibs" /\ q.ino = proc[c].ino /\ q.out = proc[c].out
        /\ q.bc = proc[c].bc /\ q.std = proc[c].std
    BY <1>1, <2>3 DEF At, ProcType, Labels, Saving
  <2>6. Local(c, q) /\ q.ino = None
    <3>1. Placed(c, q) /\ StdWhole(c, q)
      BY <1>1, <2>5 DEF Local, Placed, StdWhole, Busy, Idle, Ahead, Switched
    <3>2. Results(c, q)
      BY <1>1, <2>5 DEF Local, Results, HasOwn, HasSome, HasNothing, Puts, Saving, Asking, Ahead
    <3>3. q.ino = None
      BY <1>1, <2>5 DEF Local, Placed
    <3> QED BY <3>1, <3>2, <3>3 DEF Local
  <2>7. Moves(c, q)
    BY <2>4, <2>5 DEF Moves
  <2>8. /\ dir' \in [Names -> Inodes \cup {None}] /\ dir'[s] = i /\ dir'[t] = None
        /\ \A k \in Names : k \notin {s, t} => dir'[k] = dir[k]
    BY <1>1, <1>3, <2>2, <2>4 DEF CacheType
  <2>9. \A k \in Names : dir[k] = i => k = t
    BY <1>3, <2>1, <2>2 DEF CacheInv, NameInv, OneName, Exists
  <2>10. CacheType' /\ LocalInv'
    BY <1>1, <2>6, <2>7, <2>8, TypeKept, LocalKept DEF CacheType
  <2>11. /\ proc'[c] = q
         /\ \A d \in Compilers : d # c => proc'[d] = proc[d]
         /\ Calm' => Calm
    BY <1>1, <2>7, Moved
  <2>12. /\ Names' = Names /\ Compilers' = Compilers /\ (\A d, k : Name(d, k)' = Name(d, k))
         /\ (\A d : me(d)' = me(d)) /\ (Turns' <=> Turns) /\ (\A d : Exe(d)' <=> Exe(d))
    BY SceneFixed
  <2>13. (\A k, m : GoodFor(k, m)' <=> GoodFor(k, m)) /\ (ListKept' <=> ListKept)
    BY Judged
  <2>14. NameInv'
    <3>1. \A k, l \in Names : dir'[k] # None /\ dir'[k] = dir'[l] => k = l
      BY <1>3, <2>8, <2>9 DEF CacheInv, NameInv, OneName, Exists
    <3>2. OneName'
      BY <2>12, <3>1 DEF OneName, Exists
    <3>3. Private(c)' /\ Reach(c)'
      BY <2>5, <2>6, <2>11 DEF Private, Reach, Puts
    <3>4. ASSUME NEW d \in Compilers, d # c PROVE Private(d)' /\ Reach(d)'
      <4>1. proc'[d] = proc[d] /\ Private(d) /\ Reach(d)
        BY <2>11, <3>4 DEF CacheInv, NameInv
      <4>2. Puts(proc[d], Renamed) => proc[d].ino # None /\ proc[d].ino # i
        BY <1>3, <2>1, <4>1 DEF CacheInv, LocalInv, Local, Placed, Puts, Private
      <4>3. Private(d)'
        BY <1>3, <2>6, <2>8, <2>11, <2>12, <4>1, <4>2 DEF Private
      <4>4. proc[d].ino = i => Puts(proc[d], {"so.tmp"}) /\ s = Name(d, "so")
        <5> SUFFICES ASSUME proc[d].ino = i PROVE Puts(proc[d], {"so.tmp"}) /\ s = Name(d, "so")
          OBVIOUS
        <5>1. Name(d, "aot")[1] = "aot" /\ Name(d, "so")[1] = "so" /\ Name(d, "so.tmp")[2] = me(d).id
          BY <1>1, NameTyped DEF Kinds, SharedKinds
        <5>2. proc[d].pc = "write" /\ proc[d].name = t
          BY <1>3, <2>1, <2>2, <4>1, <5>1 DEF Reach
        <5>3. t = Name(d, "so.tmp")
          BY <1>3, <5>2 DEF CacheInv, LocalInv, Local, Placed
        <5>4. me(d).id = me(c).id
          BY <1>3, <5>1, <5>3
        <5> QED BY <1>2, <1>3, <5>2, <5>4 DEF Puts, Name, SharedKinds
      <4>5. Reach(d)'
        <5> SUFFICES ASSUME NEW k \in Names, proc[d].ino # None, dir'[k] = proc[d].ino
                     PROVE  \/ proc[d].pc = "copy" /\ k = Name(d, "aot")
                            \/ proc[d].pc = "write" /\ proc[d].name = k
                            \/ Puts(proc[d], {"so.tmp"}) /\ k = Name(d, "so")
          BY <2>12, <4>1 DEF Reach
        <5>1. CASE k = s
          BY <2>8, <4>4, <5>1
        <5>2. CASE k # s
          <6>1. dir[k] = proc[d].ino
            BY <2>8, <5>2
          <6> QED BY <4>1, <6>1 DEF Reach
        <5> QED BY <5>1, <5>2
      <4> QED BY <4>3, <4>5
    <3> QED BY <2>12, <3>2, <3>3, <3>4 DEF NameInv
  <2>15. FileInv'
    <3>1. EntriesGood'
      <4> SUFFICES ASSUME NEW k \in Names, dir'[k] # None PROVE GoodFor(k, file[dir'[k]].made)
        BY <1>1, <2>12, <2>13 DEF EntriesGood, Exists
      <4>1. CASE k = s
        <5>1. GoodFor(t, file[i].made)
          BY <1>3, <1>5, <2>1 DEF CacheInv, FileInv, EntriesGood
        <5> QED BY <1>3, <2>8, <4>1, <5>1 DEF GoodFor, SharedKinds
      <4>2. CASE k # s
        BY <2>8, <4>2 DEF CacheInv, FileInv, EntriesGood, Exists
      <4> QED BY <4>1, <4>2
    <3>2. RenamedWhole'
      BY <1>1, <1>3, <2>8, <2>12 DEF CacheInv, FileInv, RenamedWhole, Exists, Renamed
    <3>3. TempGood(c)'
      BY <2>5, <2>11 DEF TempGood, Puts
    <3>4. \A d \in Compilers : dir'[Name(d, "bc.libs")] = dir[Name(d, "bc.libs")]
      BY <1>1, <1>3, <2>8, NameTyped DEF Kinds
    <3>5. ListThere(c)'
      BY <1>1, <2>5, <2>11, <2>12, <3>4 DEF ListThere, Exists
    <3>6. ASSUME NEW d \in Compilers, d # c PROVE TempGood(d)' /\ ListThere(d)'
      <4>1. proc'[d] = proc[d] /\ TempGood(d) /\ ListThere(d)
        BY <2>11, <3>6 DEF CacheInv, FileInv
      <4>2. TempGood(d)'
        BY <1>1, <2>13, <4>1 DEF TempGood
      <4>3. ListThere(d)'
        BY <1>1, <2>12, <2>13, <3>4, <4>1 DEF ListThere, Exists
      <4> QED BY <4>2, <4>3
    <3> QED BY <2>12, <3>1, <3>2, <3>3, <3>5, <3>6 DEF FileInv
  <2>16. TurnInv'
    <3>1. ExecWhole'
      BY <1>1, <1>3, <2>8, <2>12 DEF CacheInv, TurnInv, ExecWhole, Exists
    <3>2. Name(c, "aot") \in Names /\ Name(c, "aot") \notin {s, t}
      BY <1>1, <1>3, NameTyped DEF Kinds
    <3>3. ExeStep(c)'
      BY <1>1, <2>5, <2>8, <2>11, <2>12, <3>2 DEF ExeStep, Exists, Puts
    <3> QED BY <1>1, <2>7, <3>1, <3>3, TurnKept
  <2>17. SettleInv'
    <3>1. SUFFICES ASSUME Calm PROVE WillBeWhole' /\ WillSettle'
      BY <2>11 DEF SettleInv
    <3>2. WillBeWhole /\ WillSettle
      BY <3>1 DEF CacheInv, SettleInv
    <3>3. WillBeWhole'
      <4> SUFFICES ASSUME NEW k \in Names, NEW b \in Blocks, dir'[k] # None, b \notin file[dir'[k]].blocks
                   PROVE  Writer(dir[k], b)'
        BY <1>1, <2>12 DEF WillBeWhole, Exists
      <4>1. PICK j : j = dir'[k]
        OBVIOUS
      <4>2. Writer(j, b)
        <5>1. CASE k = s
          BY <1>3, <1>5, <2>1, <2>8, <3>2, <4>1, <5>1 DEF WillBeWhole
        <5>2. CASE k # s
          BY <2>8, <3>2, <4>1, <5>2 DEF WillBeWhole, Exists
        <5> QED BY <5>1, <5>2
      <4>3. Writer(j, b)'
        BY <1>1, <2>7, <4>2, WriterKept
      <4> QED BY <4>1, <4>3 DEF Writer
    <3>4. WillSettle'
      <4> SUFFICES ASSUME NEW k \in Names, dir'[k] # None PROVE Settles(k)'
        BY <2>12 DEF WillSettle, Exists
      <4>1. CASE k = s
        <5>1. Finisher(s, {"soLibs"}, {})'
          BY <1>1, <1>3, <2>5, <2>7, NewFinisher
        <5> QED BY <1>3, <4>1, <5>1 DEF Settles
      <4>2. CASE k # s
        <5>1. Settles(k) /\ dir'[k] = dir[k] /\ k # t
          BY <2>8, <3>2, <4>2 DEF WillSettle, Exists
        <5>2. k[1] = "so.tmp" => k[2] # me(c).id
          BY <1>1, <1>2, <5>1, NameOwn DEF SharedKinds
        <5>3. ASSUME NEW L, NEW K, Finisher(k, L, K), k[2] # me(c).id \/ "soRename" \notin L
              PROVE  Finisher(k, L, K)'
          <6>1. ~(me(c).id = k[2] /\ (proc[c].pc \in L \/ Puts(proc[c], K)))
            BY <1>1, <5>3 DEF Puts
          <6> QED BY <1>1, <2>7, <5>3, <6>1, FinisherKept
        <5>4. k[1] = "so" => dir'[<<"so.libs", k[2]>>] = dir[<<"so.libs", k[2]>>]
          BY <1>1, <1>3, <2>8, OwnLibs
        <5> QED BY <1>1, <5>1, <5>2, <5>3, <5>4 DEF Settles, Exists
      <4> QED BY <4>1, <4>2
    <3> QED BY <3>3, <3>4
  <2> QED BY <2>10, <2>14, <2>15, <2>16, <2>17 DEF CacheInv
<1> QED BY <1>4, <1>5

-----------------------------------------------------------------------------
(* Faults *)

(* A compiler that was killed holds nothing. *)
LEMMA KilledIs ==
  ASSUME NEW c, NEW q, q = Start("killed")
  PROVE  /\ q \in ProcType /\ q.pc = "killed" /\ q.ino = None /\ ~q.bc
         /\ Local(c, q)
<1>1. /\ q \in ProcType /\ q.pc = "killed" /\ q.ino = None /\ ~q.bc
  <2>1. "killed" \in Labels /\ "none" \in Labels \cup {"none"} /\ <<"std", 0>> \in Kinds \X Int /\ 1 \in 1..3
    BY DEF Labels, Idle, Kinds
  <2>2. {} \in SUBSET Blocks /\ None \in Inodes \cup {None}
    OBVIOUS
  <2>3. NoMade \in MadeType
    <3>1. 0 \in Int /\ "none" \in STRING \cup {"none"} /\ FALSE \in BOOLEAN
      OBVIOUS
    <3> QED BY <3>1 DEF NoMade, MadeType
  <2> QED BY <2>1, <2>2, <2>3 DEF Start, ProcType
<1>2. Placed(c, q) /\ StdWhole(c, q)
  BY <1>1 DEF Placed, Switched, StdWhole, Busy, Idle
<1>3. Results(c, q)
  BY <1>1 DEF Results, HasNothing, HasOwn, HasSome, Puts, Saving, Asking, Ahead
<1> QED BY <1>1, <1>2, <1>3 DEF Local

(* Nobody relies on a compiler that is killed: who was to finish a file    *)
(* matters only if none is.                                                *)
LEMMA KillStep ==
  ASSUME CacheInv, NEW c \in Compilers, Kill(c)
  PROVE  CacheInv'
<1>1. CacheType /\ Busy(proc[c]) /\ UNCHANGED <<scene, dir, file, losses>> /\ kills' = kills + 1
  BY DEF CacheInv, Kill, Running, Busy
<1>2. PICK q : q = Start("killed")
  OBVIOUS
<1>3. q \in ProcType /\ q.pc = "killed" /\ q.ino = None /\ ~q.bc /\ Local(c, q)
  BY <1>2, KilledIs
<1>4. proc' = [proc EXCEPT ![c] = q]
  BY <1>2 DEF Kill
<1>5. Quiet(c, q)
  BY <1>1, <1>3, <1>4, NoTidying DEF Quiet, Moves, Tidies
<1>6. SettleInv'
  <2>1. kills + 1 # 0
    BY <1>1 DEF CacheType
  <2> QED BY <1>1, <2>1 DEF SettleInv, Calm
<1> QED BY <1>1, <1>3, <1>5, <1>6, PlainStep DEF Past, Puts, Saving

(* After a power failure nobody runs, a file is as it was or empty, and no *)
(* list is relied on.                                                      *)
LEMMA PowerLossStep ==
  ASSUME CacheInv, PowerLoss
  PROVE  CacheInv'
<1>1. /\ CacheType /\ scene \in Scenes /\ losses' = losses + 1 /\ UNCHANGED <<scene, dir, kills>>
      /\ losses' \in Nat /\ losses' > 0
  BY DEF CacheInv, PowerLoss, CacheType
<1>2. PICK q : q = Start("killed")
  OBVIOUS
<1>3. q \in ProcType /\ q.pc = "killed" /\ q.ino = None /\ ~q.bc /\ \A c : Local(c, q)
  BY <1>2, KilledIs
<1>4. /\ proc' \in [Compilers -> ProcType]
      /\ \A c \in Compilers : proc'[c] = q \/ (proc'[c] = proc[c] /\ ~Busy(proc[c]))
  <2>1. proc' = [c \in Compilers |-> IF ~(proc[c].pc \notin Idle) THEN proc[c] ELSE q]
    BY <1>2 DEF PowerLoss, Running
  <2> QED BY <1>1, <1>3, <2>1 DEF CacheType, Busy
<1>5. /\ file' \in [Inodes -> FileType]
      /\ \A i \in Inodes : /\ file'[i].made = file[i].made /\ file'[i].exec = file[i].exec
                           /\ file'[i].blocks \in {file[i].blocks, {}}
  <2>1. PICK lost : file' = [i \in Inodes |-> IF i \in lost THEN [file[i] EXCEPT !.blocks = {}] ELSE file[i]]
    BY DEF PowerLoss
  <2>2. \A i \in Inodes : file[i] \in FileType
    BY <1>1 DEF CacheType
  <2>3. ASSUME NEW i \in Inodes
        PROVE  /\ file'[i] \in FileType /\ file'[i].made = file[i].made /\ file'[i].exec = file[i].exec
               /\ file'[i].blocks \in {file[i].blocks, {}}
    BY <2>1, <2>2 DEF FileType
  <2> QED BY <2>1, <2>3
<1>6. /\ Names' = Names /\ Compilers' = Compilers /\ (\A d, k : Name(d, k)' = Name(d, k))
      /\ (\A d : me(d)' = me(d)) /\ (Turns' <=> Turns)
  BY <1>1, SceneFixed
<1>7. \A c \in Compilers : ~Busy(proc'[c])
  BY <1>3, <1>4 DEF Busy, Idle
<1>8. ~ListKept' /\ ~Calm'
  BY <1>1 DEF ListKept, Calm
<1>9. CacheType'
  BY <1>1, <1>4, <1>5, <1>6 DEF CacheType
<1>10. LocalInv'
  <2>1. \A c, p : Local(c, p) => Local(c, p)'
    BY <1>1, <1>8 DEF Local, Placed, StdWhole, Results, Switched, Exe, me, Use, MadeFor, Plain, ExeSafe,
                      Compilers, Name
  <2>2. \A c \in Compilers : Local(c, proc[c])
    BY DEF CacheInv, LocalInv
  <2> QED BY <1>3, <1>4, <1>6, <2>1, <2>2 DEF LocalInv
<1>11. \A c \in Compilers : proc'[c].pc \notin {"write", "copy", "link", "chmod"} /\ proc'[c].ino = None
  <2>1. \A c \in Compilers : proc'[c].pc \notin {"write", "copy", "link", "chmod"}
    BY <1>7 DEF Busy, Idle
  <2> QED BY <1>6, <1>10, <2>1 DEF LocalInv, Local, Placed
<1>12. NameInv'
  BY <1>1, <1>6, <1>11 DEF CacheInv, NameInv, OneName, Private, Reach, Puts, Exists
<1>13. FileInv'
  <2>1. \A n \in Names : dir[n] # None => dir[n] \in Inodes
    BY <1>1 DEF CacheType
  <2>2. ASSUME NEW n, NEW m, GoodFor(n, m) PROVE GoodFor(n, m)'
    BY <1>1, <1>8, <2>2 DEF GoodFor, MadeFor, Plain, Use, Compilers, me
  <2>3. EntriesGood' /\ RenamedWhole'
    BY <1>1, <1>5, <1>6, <2>1, <2>2 DEF CacheInv, FileInv, EntriesGood, RenamedWhole, Exists
  <2>4. \A c \in Compilers : TempGood(c)' /\ ListThere(c)'
    BY <1>6, <1>7, <1>11 DEF TempGood, ListThere, Puts
  <2> QED BY <1>6, <2>3, <2>4 DEF FileInv
<1>14. TurnInv'
  <2>1. \A n \in Names : dir[n] # None => dir[n] \in Inodes
    BY <1>1 DEF CacheType
  <2>2. ExecWhole'
    BY <1>1, <1>5, <1>6, <2>1 DEF CacheInv, TurnInv, ExecWhole, Exists
  <2>3. OneRuns'
    BY <1>6, <1>7 DEF OneRuns
  <2>4. \A c \in Compilers : ~Past(proc'[c])
    BY <1>7 DEF Busy, Idle, Past, Puts, Saving
  <2>5. \A c \in Compilers : ExeStep(c)'
    BY <1>11, <2>4 DEF ExeStep, Puts
  <2> QED BY <1>6, <2>2, <2>3, <2>5 DEF TurnInv
<1>15. SettleInv'
  BY <1>8 DEF SettleInv
<1> QED BY <1>9, <1>10, <1>12, <1>13, <1>14, <1>15 DEF CacheInv

-----------------------------------------------------------------------------
(* The invariant holds in every state *)

(* With an empty cache nothing is relied on. *)
LEMMA CacheInit == Init => CacheInv
<1> SUFFICES ASSUME Init PROVE CacheInv
  OBVIOUS
<1>1. /\ scene \in Scenes /\ kills = 0 /\ losses = 0
      /\ dir = [n \in Names |-> None]
      /\ file = [i \in Inodes |-> [blocks |-> {}, exec |-> FALSE, made |-> NoMade]]
      /\ proc = [c \in Compilers |-> Start("new")]
  BY DEF Init, Compilers
<1>2. NoMade \in MadeType
  <2>1. 0 \in Int /\ "none" \in STRING \cup {"none"} /\ FALSE \in BOOLEAN
    OBVIOUS
  <2> QED BY <2>1 DEF NoMade, MadeType
<1>3. PICK q : q = Start("new")
  OBVIOUS
<1>4. /\ q \in ProcType /\ q.pc = "new" /\ q.ino = None /\ ~q.bc /\ q.out = NoMade
  <2>1. "new" \in Labels /\ "none" \in Labels \cup {"none"} /\ <<"std", 0>> \in Kinds \X Int /\ 1 \in 1..3
    BY DEF Labels, Idle, Kinds
  <2>2. {} \in SUBSET Blocks /\ None \in Inodes \cup {None}
    OBVIOUS
  <2> QED BY <1>2, <1>3, <2>1, <2>2 DEF Start, ProcType
<1>5. \A c \in Compilers : Local(c, q)
  <2>1. \A c \in Compilers : Placed(c, q) /\ StdWhole(c, q)
    BY <1>4 DEF Placed, Switched, StdWhole, Busy, Idle
  <2>2. \A c \in Compilers : Results(c, q)
    BY <1>4 DEF Results, HasNothing, HasOwn, HasSome, Puts, Saving, Asking, Ahead
  <2> QED BY <2>1, <2>2 DEF Local
<1>6. \A c \in Compilers : proc[c] = q
  BY <1>1, <1>3
<1>7. \A n \in Names : dir[n] = None
  BY <1>1
<1>8. CacheType
  <2>1. [blocks |-> {}, exec |-> FALSE, made |-> NoMade] \in FileType
    BY <1>2 DEF FileType
  <2>2. proc \in [Compilers -> ProcType]
    BY <1>1, <1>3, <1>4
  <2> QED BY <1>1, <2>1, <2>2 DEF CacheType
<1>9. LocalInv
  BY <1>5, <1>6 DEF LocalInv
<1>10. NameInv
  BY <1>4, <1>6, <1>7 DEF NameInv, OneName, Exists, Private, Reach, Puts
<1>11. FileInv
  BY <1>4, <1>6, <1>7 DEF FileInv, EntriesGood, RenamedWhole, Exists, TempGood, ListThere, Puts, Busy,
       Idle
<1>12. TurnInv
  BY <1>4, <1>6, <1>7 DEF TurnInv, OneRuns, ExecWhole, ExeStep, Exists, Past, Puts, Busy, Idle, Saving
<1>13. SettleInv
  BY <1>7 DEF SettleInv, WillBeWhole, WillSettle, Exists
<1> QED BY <1>8, <1>9, <1>10, <1>11, <1>12, <1>13 DEF CacheInv

(* A step of the world outside *)
LEMMA CacheStutters ==
  ASSUME CacheInv, UNCHANGED vars
  PROVE  CacheInv'
<1>1. UNCHANGED <<scene, dir, file, proc, kills, losses>>
  BY DEF vars
<1>2. CacheType' /\ LocalInv' /\ NameInv'
  BY <1>1 DEF CacheInv, CacheType, LocalInv, Local, Placed, StdWhole, Results, Switched, Exe, me, Use,
       MadeFor, Plain, ListKept, ExeSafe, Compilers, Name, Names, NameInv, OneName, Private, Reach, Exists
<1>3. FileInv'
  BY <1>1, SceneFixed, Judged DEF CacheInv, FileInv, EntriesGood, RenamedWhole, TempGood, ListThere,
       Exists
<1>4. TurnInv'
  <2>1. OneRuns' /\ ExecWhole'
    BY <1>1, SceneFixed DEF CacheInv, TurnInv, OneRuns, ExecWhole, Exists
  <2>2. \A c \in Compilers : ExeStep(c)'
    BY <1>1, SceneFixed DEF CacheInv, TurnInv, ExeStep, Exists, Whole
  <2> QED BY <1>1, <2>1, <2>2, SceneFixed DEF TurnInv
<1>5. SettleInv'
  BY <1>1 DEF CacheInv, SettleInv, Calm, WillBeWhole, WillSettle, Settles, Finisher, Writer, Exists,
       Names, Compilers, Name, me
<1> QED BY <1>2, <1>3, <1>4, <1>5 DEF CacheInv

(* Every step of every compiler, and every fault, keeps the invariant. *)
LEMMA CacheNext == CacheInv /\ [Next]_vars => CacheInv'
<1> SUFFICES ASSUME CacheInv, [Next]_vars PROVE CacheInv'
  OBVIOUS
<1>1. CASE UNCHANGED vars
  BY <1>1, CacheStutters
<1>2. CASE PowerLoss
  BY <1>2, PowerLossStep
<1>3. ASSUME NEW c \in Compilers, Kill(c) PROVE CacheInv'
  BY <1>3, KillStep
<1>4. ASSUME NEW c \in Compilers, Step(c) PROVE CacheInv'
  <2>1. UNCHANGED <<scene, kills, losses>>
    BY <1>4 DEF Step
  <2>2. CASE Begin(c)
    BY <2>1, <2>2, BeginStep
  <2>3. CASE BcProbe(c)
    BY <2>1, <2>3, BcProbeStep
  <2>4. CASE StdProbe(c)
    BY <2>1, <2>4, StdProbeStep
  <2>5. CASE StdDrop(c)
    BY <2>1, <2>5, StdDropStep
  <2>6. CASE StdBuild(c)
    BY <2>1, <2>6, StdBuildStep
  <2>7. CASE StdSave(c)
    BY <2>1, <2>7, StdSaveStep
  <2>8. CASE NativeProbe(c)
    BY <2>1, <2>8, NativeProbeStep
  <2>9. CASE NativeOpen(c)
    BY <2>1, <2>9, NativeOpenStep
  <2>10. CASE AotProbe(c)
    BY <2>1, <2>10, AotProbeStep
  <2>11. CASE AotDrop(c)
    BY <2>1, <2>11, AotDropStep
  <2>12. CASE CopyBlock(c)
    BY <2>1, <2>12, CopyBlockStep
  <2>13. CASE Copied(c)
    BY <2>1, <2>13, CopiedStep
  <2>14. CASE JitLoad(c)
    BY <2>1, <2>14, JitLoadStep
  <2>15. CASE JitDrop(c)
    BY <2>1, <2>15, JitDropStep
  <2>16. CASE Compile(c)
    BY <2>1, <2>16, CompileStep
  <2>17. CASE Link(c)
    BY <2>1, <2>17, LinkStep
  <2>18. CASE BcSave(c)
    BY <2>1, <2>18, BcSaveStep
  <2>19. CASE BcDrop(c)
    BY <2>1, <2>19, BcDropStep
  <2>20. CASE BcLibs(c)
    BY <2>1, <2>20, BcLibsStep
  <2>21. CASE NativeSave(c)
    BY <2>1, <2>21, NativeSaveStep
  <2>22. CASE Ld(c)
    BY <2>1, <2>22, LdStep
  <2>23. CASE LdDone(c)
    BY <2>1, <2>23, LdDoneStep
  <2>24. CASE SoRename(c)
    BY <2>1, <2>24, SoRenameStep
  <2>25. CASE SoLibs(c)
    BY <2>1, <2>25, SoLibsStep
  <2>26. CASE JitSave(c)
    BY <2>1, <2>26, JitSaveStep
  <2>27. CASE AotSave(c)
    BY <2>1, <2>27, AotSaveStep
  <2>28. CASE Chmod(c)
    BY <2>1, <2>28, ChmodStep
  <2>29. CASE Finish(c)
    BY <2>1, <2>29, FinishStep
  <2>30. CASE Retry(c)
    BY <2>1, <2>30, RetryStep
  <2>31. CASE WriteBlock(c)
    BY <2>1, <2>31, WriteBlockStep
  <2>32. CASE WriteFails(c)
    BY <2>1, <2>32, WriteFailsStep
  <2>33. CASE Rename(c)
    BY <2>1, <2>33, RenameStep
  <2>34. CASE Close(c)
    BY <2>1, <2>34, CloseStep
  <2> QED BY <1>4, <2>2, <2>3, <2>4, <2>5, <2>6, <2>7, <2>8, <2>9, <2>10, <2>11, <2>12, <2>13, <2>14,
       <2>15,
     <2>16, <2>17, <2>18, <2>19, <2>20, <2>21, <2>22, <2>23, <2>24, <2>25, <2>26, <2>27, <2>28,
     <2>29, <2>30, <2>31, <2>32, <2>33, <2>34 DEF Step
<1> QED BY <1>1, <1>2, <1>3, <1>4 DEF Next

(* So it holds in every state. *)
LEMMA CacheAlways == Spec => []CacheInv
BY CacheInit, CacheNext, PTL DEF Spec

-----------------------------------------------------------------------------
(* What it implies *)

(* A compile that ends well gives its own program on a whole library,      *)
(* whatever other compilers do to the caches between any two of its steps, *)
(* wherever a compiler is killed, a write fails or the power is lost.      *)
THEOREM CompilesAreTransparent == Spec => []Transparent
<1>1. CacheInv => Transparent
  BY DEF CacheInv, LocalInv, Local, Results, Transparent, ExeSafe, MadeFor, Plain
<1> QED BY <1>1, CacheAlways, PTL

(* An executable that was built, copied or made from bitcode knows the     *)
(* libraries that the standard library links to, wherever the compiler     *)
(* that saved the bitcode was killed.                                      *)
THEOREM LinksAreKnown == Spec => []LinksKnown
<1>1. CacheInv => LinksKnown
  BY DEF CacheInv, LocalInv, Local, Results, LinksKnown, ListKept
<1> QED BY <1>1, CacheAlways, PTL

(* When all the compilers have ended, none was killed and no write failed, *)
(* the cache directory holds whole entries and nothing that was temporary. *)
THEOREM CachesSettle == Spec => []Settled
<1>1. ASSUME CacheInv PROVE Settled
  <2> SUFFICES ASSUME \A c \in Compilers : ~Running(c), Calm, NEW n \in Names, Exists(n)
               PROVE  /\ Whole(n) /\ file[dir[n]].made.good
                      /\ n[1] \notin {"so.o", "so.tmp"}
                      /\ n[1] = "aot" => file[dir[n]].exec
                      /\ n[1] = "so" /\ scene.libs => Exists(<<"so.libs", n[2]>>)
    BY DEF Settled, Calm
  <2>1. \A c \in Compilers : proc[c].pc \in Idle
    BY DEF Running
  <2>2. WillBeWhole /\ WillSettle
    BY <1>1 DEF CacheInv, SettleInv
  <2>3. \A i, b : ~Writer(i, b)
    BY <2>1 DEF Writer, Idle
  <2>4. file[dir[n]].blocks \subseteq Blocks
    BY <1>1 DEF CacheInv, CacheType, FileType, Exists
  <2>5. Whole(n)
    BY <2>2, <2>3, <2>4 DEF WillBeWhole, Whole
  <2>6. file[dir[n]].made.good
    BY <1>1 DEF CacheInv, FileInv, EntriesGood, GoodFor
  <2>7. Settles(n)
    BY <2>2 DEF WillSettle
  <2>8. \A labels, kinds : labels \cap Idle = {} => ~Finisher(n, labels, kinds)
    BY <2>1 DEF Finisher, Puts, Idle
  <2>9. \A label : label \in {"ld", "ldDone", "soRename", "chmod", "soLibs"} => label \notin Idle
    BY DEF Idle
  <2>10. /\ ~Finisher(n, {"ld", "ldDone"}, {"so.o", "so.tmp"})
         /\ ~Finisher(n, {"ldDone", "soRename"}, {"so.tmp"})
         /\ ~Finisher(n, {"chmod"}, {"aot"}) /\ ~Finisher(n, {"soLibs"}, {})
    BY <2>8, <2>9
  <2> QED BY <2>5, <2>6, <2>7, <2>10 DEF Settles
<1> QED BY <1>1, CacheAlways, PTL

-----------------------------------------------------------------------------
(* The standard library's loader: lists of modules *)

EntryOf(M) == [mod : M, depth : Int, processed : BOOLEAN]

Named(l) == {l[k].mod : k \in DOMAIN l}

(* What adding to a list may do: entries keep their place and their        *)
(* module, and an entry that counts as processed has not changed at all.   *)
Grows(l, r, M) ==
  /\ r \in Seq(EntryOf(M)) /\ Len(l) <= Len(r)
  /\ \A k \in 1..Len(l) : r[k].mod = l[k].mod
  /\ \A k \in 1..Len(r) : r[k].processed => k <= Len(l) /\ r[k] = l[k]

-----------------------------------------------------------------------------
(* Adding modules to the list *)

(* A list that only grew still names every module. *)
LEMMA GrowsNamed ==
  ASSUME NEW M, NEW l \in Seq(EntryOf(M)), NEW r, Grows(l, r, M)
  PROVE  Named(l) \subseteq Named(r)
<1> SUFFICES ASSUME NEW k \in DOMAIN l PROVE l[k].mod \in Named(r)
  BY DEF Named
<1>1. k \in DOMAIN r /\ r[k].mod = l[k].mod
  BY DEF Grows
<1> QED
  BY <1>1 DEF Named

(* Growing twice is growing. *)
LEMMA GrowsTwice ==
  ASSUME NEW M, NEW l \in Seq(EntryOf(M)), NEW r, NEW s, Grows(l, r, M), Grows(r, s, M)
  PROVE  Grows(l, s, M)
<1>1. s \in Seq(EntryOf(M)) /\ r \in Seq(EntryOf(M)) /\ Len(l) <= Len(r) /\ Len(r) <= Len(s)
  BY DEF Grows
<1>2. ASSUME NEW k \in 1..Len(l) PROVE s[k].mod = l[k].mod
  <2>1. k \in 1..Len(r)
    BY <1>1
  <2> QED
    BY <2>1 DEF Grows
<1>3. ASSUME NEW k \in 1..Len(s), s[k].processed PROVE k <= Len(l) /\ s[k] = l[k]
  <2>1. k <= Len(r) /\ s[k] = r[k]
    BY <1>3 DEF Grows
  <2>2. k \in 1..Len(r) /\ r[k].processed
    BY <1>1, <1>3, <2>1
  <2> QED
    BY <2>1, <2>2 DEF Grows
<1>4. Len(l) <= Len(s)
  BY <1>1
<1> QED
  BY <1>1, <1>2, <1>3, <1>4 DEF Grows

(* mod_list_add_ex: the module is then listed; an entry it changes is no   *)
(* longer processed, and one it appends is not yet.                        *)
LEMMA AddGrows ==
  ASSUME NEW M, NEW l \in Seq(EntryOf(M)), NEW m \in M, NEW d \in Int
  PROVE  Grows(l, Add(l, m, d), M) /\ m \in Named(Add(l, m, d))
<1> DEFINE e == Entry(m, d)
           c == [k \in DOMAIN l |-> IF l[k].mod = m /\ MorePermissive(d, l[k].depth) THEN e ELSE l[k]]
           a == Append(l, e)
<1>1. e \in EntryOf(M) /\ e.mod = m /\ e.processed = FALSE
  BY DEF Entry, EntryOf
<1> HIDE DEF e
<1>2. CASE \E k \in DOMAIN l : l[k].mod = m
  <2>1. DOMAIN l = 1..Len(l) /\ Len(l) \in Nat /\ \A k \in 1..Len(l) : l[k] \in EntryOf(M)
    OBVIOUS
  <2>2. c \in [1..Len(l) -> EntryOf(M)]
    BY <1>1, <2>1
  <2>3. c \in Seq(EntryOf(M)) /\ Len(c) = Len(l)
    BY <2>1, <2>2
  <2>4. \A k \in 1..Len(l) : (c[k] = e /\ l[k].mod = m) \/ c[k] = l[k]
    BY <2>1
  <2> HIDE DEF c
  <2>5. Grows(l, c, M)
    BY <1>1, <2>1, <2>3, <2>4 DEF Grows
  <2>6. m \in Named(c)
    <3>1. PICK k \in 1..Len(l) : l[k].mod = m
      BY <1>2, <2>1
    <3>2. k \in DOMAIN c /\ c[k].mod = m
      BY <1>1, <2>3, <2>4, <3>1
    <3> QED
      BY <3>2 DEF Named
  <2>7. Add(l, m, d) = c
    BY <1>2 DEF Add, c, e
  <2> QED
    BY <2>5, <2>6, <2>7
<1>3. CASE ~\E k \in DOMAIN l : l[k].mod = m
  <2>1. /\ a \in Seq(EntryOf(M)) /\ Len(a) = Len(l) + 1 /\ a[Len(l) + 1] = e
        /\ \A k \in 1..Len(l) : a[k] = l[k]
    BY <1>1
  <2> HIDE DEF a
  <2>2. Grows(l, a, M)
    BY <1>1, <2>1 DEF Grows
  <2>3. m \in Named(a)
    <3>1. Len(l) + 1 \in DOMAIN a
      BY <2>1
    <3> QED
      BY <1>1, <2>1, <3>1 DEF Named
  <2>4. Add(l, m, d) = a
    BY <1>3 DEF Add, a, e
  <2> QED
    BY <2>2, <2>3, <2>4
<1> QED
  BY <1>2, <1>3

(* A set of numbers that is not empty has a least element. *)
LEMMA NatMin ==
  ASSUME NEW T, T \subseteq Nat, T # {}
  PROVE  \E x \in T : \A y \in T : x <= y
<1>1. PICK x \in T : \A y \in T : ~(<<y, x>> \in OpToRel(<, Nat))
  BY WFMin, NatLessThanWellFounded, Zenon
<1>2. ASSUME NEW y \in T PROVE ~(y < x)
  <2>1. y \in Nat /\ x \in Nat
    OBVIOUS
  <2> QED
    BY <1>1, <2>1, Zenon DEF OpToRel
<1> QED
  BY <1>2

Adding(f, l, ms, d) == f = [n \in 0..Len(ms) |-> IF n = 0 THEN l ELSE Add(f[n - 1], ms[n], d)]

(* The loop over the names to add can be followed to its end. *)
LEMMA AddingExists ==
  ASSUME NEW M, NEW l \in Seq(EntryOf(M)), NEW ms \in Seq(M), NEW d \in Int
  PROVE  \E f : Adding(f, l, ms, d)
<1> DEFINE N == Len(ms)
           L == Seq(EntryOf(M))
           Follows(f, b) == f[0] = l /\ \A n \in 1..b : f[n] = Add(f[n - 1], ms[n], d)
           T == {t \in 0..N : \E f \in [0..N -> L] : Follows(f, N - t)}
<1>1. N \in Nat /\ \A n \in 1..N : ms[n] \in M
  OBVIOUS
<1>2. ASSUME NEW r \in L, NEW n \in 1..N PROVE Add(r, ms[n], d) \in L
  BY <1>1, AddGrows DEF Grows
<1> HIDE DEF N, L
<1>3. T # {}
  <2> DEFINE f == [n \in 0..N |-> l]
  <2>1. l \in L
    BY DEF L
  <2>2. f \in [0..N -> L] /\ Follows(f, N - N)
    BY <1>1, <2>1
  <2>3. N \in 0..N
    BY <1>1
  <2> HIDE DEF f
  <2> QED
    BY <2>2, <2>3, Zenon
<1>4. PICK t \in T : \A y \in T : t <= y
  <2>1. T \subseteq Nat
    BY <1>1
  <2> HIDE DEF T
  <2> QED
    BY <1>3, <2>1, NatMin
<1>5. PICK f \in [0..N -> L] : Follows(f, N - t)
  BY Zenon
<1>6. t \in 0..N
  OBVIOUS
<1>7. t = 0
  <2> SUFFICES ASSUME t # 0 PROVE FALSE
    OBVIOUS
  <2> DEFINE b == N - t
             g == [f EXCEPT ![b + 1] = Add(f[b], ms[b + 1], d)]
  <2>1. b \in 0..N /\ b + 1 \in 1..N /\ t - 1 \in 0..N /\ N - (t - 1) = b + 1
    BY <1>1, <1>6
  <2>2. f[b] \in L /\ Add(f[b], ms[b + 1], d) \in L
    BY <1>2, <2>1
  <2> HIDE DEF b
  <2>3. /\ g \in [0..N -> L] /\ g[b + 1] = Add(f[b], ms[b + 1], d)
        /\ \A n \in 0..N : n # b + 1 => g[n] = f[n]
    BY <2>1, <2>2
  <2>4. f[0] = l /\ \A n \in 1..b : f[n] = Add(f[n - 1], ms[n], d)
    BY <1>5 DEF b
  <2> HIDE DEF g
  <2>5. ASSUME NEW n \in 1..(b + 1)
        PROVE  g[n] = Add(g[n - 1], ms[n], d)
    <3>1. n \in 0..N /\ n - 1 \in 0..N /\ n - 1 # b + 1
      BY <1>1, <2>1
    <3>2. g[n - 1] = f[n - 1]
      BY <2>3, <3>1
    <3>3. CASE n = b + 1
      <4>1. n - 1 = b
        BY <2>1, <3>3
      <4> QED
        BY <2>3, <3>2, <3>3, <4>1
    <3>4. CASE n # b + 1
      <4>1. n \in 1..b
        BY <2>1, <3>4
      <4> QED
        BY <2>3, <2>4, <3>1, <3>2, <3>4, <4>1
    <3> QED
      BY <3>3, <3>4
  <2>6. g[0] = l
    <3>1. 0 \in 0..N /\ 0 # b + 1
      BY <1>1, <2>1
    <3> QED
      BY <2>3, <2>4, <3>1
  <2>7. Follows(g, N - (t - 1))
    BY <2>1, <2>5, <2>6
  <2>8. t - 1 \in T
    BY <2>1, <2>3, <2>7, Zenon
  <2>9. ~(t <= t - 1)
    BY <1>6
  <2> QED
    BY <1>4, <2>8, <2>9, Zenon
<1>8. f = [n \in 0..N |-> IF n = 0 THEN l ELSE Add(f[n - 1], ms[n], d)]
  <2>1. N - t = N
    BY <1>1, <1>7
  <2>2. f[0] = l /\ \A n \in 1..N : f[n] = Add(f[n - 1], ms[n], d)
    BY <1>5, <2>1
  <2> QED
    BY <1>1, <2>2
<1> QED
  BY <1>8 DEF Adding, N

(* Afterwards all of them are listed, and the list has only grown. *)
LEMMA AddAllGrows ==
  ASSUME NEW M, NEW l \in Seq(EntryOf(M)), NEW ms \in Seq(M), NEW d \in Int
  PROVE  Grows(l, AddAll(l, ms, d), M) /\ Range(ms) \subseteq Named(AddAll(l, ms, d))
<1> DEFINE N == Len(ms)
           f == CHOOSE g : Adding(g, l, ms, d)
           Good(n) == Grows(l, f[n], M) /\ \A j \in 1..n : ms[j] \in Named(f[n])
           B == {n \in 0..N : ~Good(n)}
<1>1. Adding(f, l, ms, d)
  BY AddingExists, Zenon
<1> HIDE DEF f
<1>2. N \in Nat /\ DOMAIN ms = 1..N /\ \A n \in 1..N : ms[n] \in M
  OBVIOUS
<1>3. f = [n \in 0..N |-> IF n = 0 THEN l ELSE Add(f[n - 1], ms[n], d)]
  BY <1>1, Zenon DEF Adding
<1> HIDE DEF N
<1>4. f[0] = l /\ \A n \in 1..N : f[n] = Add(f[n - 1], ms[n], d)
  BY <1>2, <1>3
<1>5. B = {}
  <2> SUFFICES ASSUME B # {} PROVE FALSE
    OBVIOUS
  <2>1. PICK n \in B : \A y \in B : n <= y
    <3>1. B \subseteq Nat
      BY <1>2
    <3> HIDE DEF B
    <3> QED
      BY <3>1, NatMin
  <2>2. n \in 0..N /\ ~Good(n)
    BY Zenon
  <2>3. Good(0)
    BY <1>4 DEF Grows
  <2>4. n \in 1..N /\ n - 1 \in 0..N /\ ~(n <= n - 1)
    BY <1>2, <2>2, <2>3
  <2>5. Good(n - 1)
    BY <2>1, <2>4, Zenon
  <2> DEFINE r == f[n - 1]
  <2>6. Grows(l, r, M) /\ \A j \in 1..(n - 1) : ms[j] \in Named(r)
    BY <2>5
  <2>7. f[n] = Add(r, ms[n], d) /\ ms[n] \in M
    BY <1>2, <1>4, <2>4
  <2>8. r \in Seq(EntryOf(M))
    BY <2>6 DEF Grows
  <2> HIDE DEF r
  <2>9. Grows(r, f[n], M) /\ ms[n] \in Named(f[n])
    BY <2>7, <2>8, AddGrows
  <2>10. Grows(l, f[n], M)
    BY <2>6, <2>9, GrowsTwice
  <2>11. Named(r) \subseteq Named(f[n])
    BY <2>8, <2>9, GrowsNamed
  <2>12. \A j \in 1..n : j = n \/ j \in 1..(n - 1)
    BY <1>2, <2>4
  <2>13. \A j \in 1..n : ms[j] \in Named(f[n])
    BY <2>6, <2>9, <2>11, <2>12, Zenon
  <2> QED
    BY <2>2, <2>10, <2>13
<1>6. Good(N)
  <2>1. N \in 0..N
    BY <1>2
  <2> QED
    BY <1>5, <2>1, Zenon
<1>7. AddAll(l, ms, d) = f[N]
  BY DEF AddAll, Adding, f, N
<1>8. Range(ms) \subseteq Named(f[N])
  BY <1>2, <1>6, Zenon DEF Range
<1> QED
  BY <1>6, <1>7, <1>8

-----------------------------------------------------------------------------
(* The search for modules *)

GraphType ==
  /\ graph.before \in [Modules -> Seq(Modules)] /\ graph.uses \in [Modules -> Seq(Modules)]
  /\ graph.exports \in [Modules -> Seq(Modules)]
  /\ graph.seeds \in Seq(Modules)

(* The first loop stays within the list. *)
ListType ==
  /\ list \in Seq(EntryOf(Modules))
  /\ at \in Nat \ {0} /\ len \in Nat /\ len <= Len(list)

(* An entry that is processed has had its uses and exports listed. *)
ScannedListed ==
  \A k \in 1..Len(list) : list[k].processed /\ list[k].mod \in graph.readable =>
    /\ (Range(graph.before[list[k].mod]) \cup Range(graph.uses[list[k].mod])) \subseteq Listed
    /\ list[k].depth # 0 => Range(graph.exports[list[k].mod]) \subseteq Listed

(* The last pass has had the uses listed of every entry it has gone by,    *)
(* also of those that are to be scanned again.                             *)
PassedListed ==
  phase # "closure" => \A k \in 1..Len(list) : k < at /\ list[k].mod \in graph.readable =>
    (Range(graph.before[list[k].mod]) \cup Range(graph.uses[list[k].mod])) \subseteq Listed

(* It has gone by all of them. *)
AllPassed == phase \notin {"closure", "final"} => at > Len(list)

ClosedInv == GraphType /\ ListType /\ ScannedListed /\ PassedListed /\ AllPassed

(* What scan_dependencies of entry k leaves: an entry that counts as       *)
(* processed either did before and is the same, or is the one scanned, and *)
(* then what it uses and, at a depth other than 0, exports is listed.      *)
LEMMA ScanLists ==
  ASSUME GraphType, NEW l \in Seq(EntryOf(Modules)), NEW k \in 1..Len(l)
  PROVE  LET r == Scan(l, k)
             m == l[k].mod
         IN
         /\ r \in Seq(EntryOf(Modules)) /\ Len(l) <= Len(r) /\ Named(l) \subseteq Named(r)
         /\ \A j \in 1..Len(l) : r[j].mod = l[j].mod
         /\ m \in graph.readable => l[k].processed \/ (Range(graph.before[m]) \cup Range(graph.uses[m])) \subseteq Named(r)
         /\ \A j \in 1..Len(r) : r[j].processed =>
              \/ j <= Len(l) /\ r[j] = l[j] /\ l[j].processed
              \/ /\ j = k
                 /\ m \in graph.readable =>
                      /\ (Range(graph.before[m]) \cup Range(graph.uses[m])) \subseteq Named(r)
                      /\ r[j].depth # 0 => Range(graph.exports[m]) \subseteq Named(r)
<1> DEFINE M == Modules
           e == l[k]
           marked == [l EXCEPT ![k].processed = TRUE]
           first == AddAll(marked, graph.before[e.mod], -1)
           exported == Exported(first, k)
           used == AddAll(exported, graph.uses[e.mod], -1)
<1>1. /\ e \in EntryOf(M) /\ e.mod \in M /\ e.depth \in Int
      /\ graph.before[e.mod] \in Seq(M) /\ graph.uses[e.mod] \in Seq(M)
      /\ graph.exports[e.mod] \in Seq(M)
  <2>1. e \in EntryOf(M)
    OBVIOUS
  <2> HIDE DEF e
  <2>2. e.mod \in M /\ e.depth \in Int
    BY <2>1 DEF EntryOf
  <2> HIDE DEF M
  <2> QED
    BY <2>1, <2>2 DEF GraphType, M
<1>2. /\ marked \in Seq(EntryOf(M)) /\ Len(marked) = Len(l)
      /\ \A j \in 1..Len(l) : marked[j].mod = l[j].mod /\ marked[j].depth = l[j].depth
      /\ \A j \in 1..Len(l) : j # k => marked[j] = l[j]
  <2> DEFINE x == [e EXCEPT !.processed = TRUE]
  <2>1. x \in EntryOf(M) /\ x.mod = e.mod /\ x.depth = e.depth
    BY <1>1 DEF EntryOf
  <2>2. marked = [l EXCEPT ![k] = x]
    OBVIOUS
  <2> HIDE DEF x, marked, M
  <2>3. marked \in Seq(EntryOf(M)) /\ Len(marked) = Len(l)
    BY <2>1, <2>2, ExceptSeq DEF M
  <2> QED
    BY <2>1, <2>2, <2>3
<1>3. CASE e.processed
  <2>1. Scan(l, k) = l
    BY <1>3 DEF Scan
  <2> QED
    BY <1>3, <2>1
<1>4. CASE ~e.processed /\ e.mod \notin graph.readable
  <2>1. Scan(l, k) = marked
    BY <1>4 DEF Scan
  <2> HIDE DEF marked
  <2>2. Named(l) \subseteq Named(marked)
    BY <1>2 DEF Named
  <2> QED
    BY <1>2, <1>4, <2>1, <2>2
<1>5. CASE ~e.processed /\ e.mod \in graph.readable
  <2>1. Scan(l, k) = used
    BY <1>5 DEF Scan
  <2> HIDE DEF e, marked
  <2>2. Grows(marked, first, M) /\ Range(graph.before[e.mod]) \subseteq Named(first)
    BY <1>1, <1>2, AddAllGrows
  <2> HIDE DEF first
  <2>3. /\ first \in Seq(EntryOf(M)) /\ k \in 1..Len(first) /\ first[k].mod = e.mod
        /\ first[k] \in EntryOf(M)
    BY <1>2, <2>2 DEF Grows, e
  <2>4. Grows(first, exported, M) /\ (first[k].depth # 0 => Range(graph.exports[e.mod]) \subseteq Named(exported))
    <3>1. CASE first[k].depth = 0
      BY <2>3, <3>1 DEF Grows, Exported
    <3>2. CASE first[k].depth # 0
      <4>1. ChildDepth(first[k]) \in Int
        BY <2>3 DEF ChildDepth, EntryOf
      <4>2. exported = AddAll(first, graph.exports[e.mod], ChildDepth(first[k]))
        BY <2>3, <3>2 DEF Exported
      <4> QED
        BY <1>1, <2>3, <4>1, <4>2, AddAllGrows
    <3> QED
      BY <3>1, <3>2
  <2> HIDE DEF exported
  <2>5. exported \in Seq(EntryOf(M))
    BY <2>4 DEF Grows
  <2>6. Grows(exported, used, M) /\ Range(graph.uses[e.mod]) \subseteq Named(used)
    BY <1>1, <2>5, AddAllGrows
  <2> HIDE DEF used
  <2>7. Grows(first, used, M)
    BY <2>3, <2>4, <2>6, GrowsTwice
  <2>8. Grows(marked, used, M)
    BY <1>2, <2>2, <2>7, GrowsTwice
  <2>9. Named(exported) \subseteq Named(used) /\ Named(first) \subseteq Named(used) /\ Named(marked) \subseteq Named(used)
    BY <1>2, <2>3, <2>5, <2>6, <2>7, <2>8, GrowsNamed
  <2>10. Named(l) \subseteq Named(used)
    <3>1. Named(l) \subseteq Named(marked)
      BY <1>2 DEF Named
    <3> QED
      BY <2>9, <3>1
  <2>11. used \in Seq(EntryOf(M)) /\ Len(l) <= Len(used) /\ \A j \in 1..Len(l) : used[j].mod = l[j].mod
    BY <1>2, <2>8 DEF Grows
  <2>12. ASSUME NEW j \in 1..Len(used), used[j].processed
         PROVE  \/ j <= Len(l) /\ used[j] = l[j] /\ l[j].processed
                \/ j = k /\ used[j].depth = first[k].depth
    <3>1. j <= Len(l) /\ used[j] = marked[j]
      BY <1>2, <2>8, <2>12 DEF Grows
    <3>2. j <= Len(first) /\ used[j] = first[j]
      BY <2>3, <2>7, <2>12 DEF Grows
    <3>3. j \in 1..Len(l)
      BY <3>1
    <3> QED
      BY <1>2, <2>12, <3>1, <3>2, <3>3 DEF e
  <2>13. (Range(graph.before[e.mod]) \cup Range(graph.uses[e.mod])) \subseteq Named(used)
    BY <2>2, <2>6, <2>9
  <2>14. first[k].depth # 0 => Range(graph.exports[e.mod]) \subseteq Named(used)
    BY <2>4, <2>9
  <2> QED
    BY <2>1, <2>10, <2>11, <2>12, <2>13, <2>14 DEF e
<1> QED
  BY <1>1, <1>3, <1>4, <1>5

(* A turn of either loop loses nothing that was listed, and has what the   *)
(* entry it scanned uses listed.                                           *)
LEMMA ScanStep ==
  ASSUME ClosedInv, at \in 1..Len(list), list' = Scan(list, at), UNCHANGED graph
  PROVE  /\ GraphType' /\ list' \in Seq(EntryOf(Modules')) /\ Len(list) <= Len(list') /\ ScannedListed'
         /\ \A k \in 1..Len(list) : list'[k].mod = list[k].mod
         /\ Listed \subseteq Listed'
         /\ list[at].mod \in graph.readable => (Range(graph.before[list[at].mod]) \cup Range(graph.uses[list[at].mod])) \subseteq Listed'
<1> DEFINE m == list[at].mod
<1>1. GraphType /\ list \in Seq(EntryOf(Modules)) /\ ScannedListed
  BY DEF ClosedInv, ListType
<1>2. Listed = Named(list) /\ Listed' = Named(list') /\ Modules' = Modules
  BY DEF Listed, Named, Modules
<1>3. /\ list' \in Seq(EntryOf(Modules)) /\ Len(list) <= Len(list') /\ Named(list) \subseteq Named(list')
      /\ \A j \in 1..Len(list) : list'[j].mod = list[j].mod
      /\ m \in graph.readable => list[at].processed \/ (Range(graph.before[m]) \cup Range(graph.uses[m])) \subseteq Named(list')
      /\ \A j \in 1..Len(list') : list'[j].processed =>
           \/ j <= Len(list) /\ list'[j] = list[j] /\ list[j].processed
           \/ /\ j = at
              /\ m \in graph.readable =>
                   /\ (Range(graph.before[m]) \cup Range(graph.uses[m])) \subseteq Named(list')
                   /\ list'[j].depth # 0 => Range(graph.exports[m]) \subseteq Named(list')
  BY <1>1, ScanLists
<1>4. GraphType'
  BY <1>1, <1>2 DEF GraphType
<1>5. ASSUME NEW j \in 1..Len(list'), list'[j].processed, list'[j].mod \in graph.readable
      PROVE  /\ (Range(graph.before[list'[j].mod]) \cup Range(graph.uses[list'[j].mod])) \subseteq Listed'
             /\ list'[j].depth # 0 => Range(graph.exports[list'[j].mod]) \subseteq Listed'
  <2>1. CASE j <= Len(list) /\ list'[j] = list[j] /\ list[j].processed
    <3>1. j \in 1..Len(list)
      BY <2>1
    <3>2. /\ (Range(graph.before[list[j].mod]) \cup Range(graph.uses[list[j].mod])) \subseteq Listed
          /\ list[j].depth # 0 => Range(graph.exports[list[j].mod]) \subseteq Listed
      BY <1>1, <1>5, <2>1, <3>1 DEF ScannedListed
    <3> QED
      BY <1>2, <1>3, <2>1, <3>2
  <2>2. CASE /\ j = at
             /\ m \in graph.readable =>
                  /\ (Range(graph.before[m]) \cup Range(graph.uses[m])) \subseteq Named(list')
                  /\ list'[j].depth # 0 => Range(graph.exports[m]) \subseteq Named(list')
    <3>1. list'[j].mod = m
      BY <1>3, <2>2
    <3> QED
      BY <1>2, <1>5, <2>2, <3>1
  <2> QED
    BY <1>3, <1>5, <2>1, <2>2
<1>6. ScannedListed'
  BY <1>5 DEF ScannedListed
<1>7. m \in graph.readable => (Range(graph.before[m]) \cup Range(graph.uses[m])) \subseteq Listed'
  <2>1. list[at].processed /\ m \in graph.readable => (Range(graph.before[m]) \cup Range(graph.uses[m])) \subseteq Listed
    BY <1>1 DEF ScannedListed
  <2> QED
    BY <1>2, <1>3, <2>1
<1> QED
  BY <1>2, <1>3, <1>4, <1>6, <1>7

(* The seeds are listed, and none of them is processed. *)
LEMMA InitClosed == BundleInit => ClosedInv
<1> SUFFICES ASSUME BundleInit PROVE ClosedInv
  OBVIOUS
<1>1. GraphType
  BY GraphsAssumption DEF BundleInit, GraphType, Modules
<1> DEFINE none == <<>>
<1>2. none \in Seq(EntryOf(Modules)) /\ Len(none) = 0
  OBVIOUS
<1>3. list = AddAll(none, graph.seeds, -1) /\ at = 1 /\ len = Len(list) /\ phase = "closure"
  BY DEF BundleInit
<1> HIDE DEF none
<1>4. Grows(none, list, Modules)
  <2>1. graph.seeds \in Seq(Modules) /\ -1 \in Int
    BY <1>1 DEF GraphType
  <2> QED
    BY <1>2, <1>3, <2>1, AddAllGrows, Zenon
<1>5. list \in Seq(EntryOf(Modules)) /\ \A k \in 1..Len(list) : ~list[k].processed
  <2>1. /\ list \in Seq(EntryOf(Modules))
        /\ \A k \in 1..Len(list) : list[k].processed => k <= Len(none)
    BY <1>4 DEF Grows
  <2> QED
    BY <1>2, <2>1
<1>6. ListType
  BY <1>3, <1>5 DEF ListType
<1>7. ScannedListed /\ PassedListed /\ AllPassed
  BY <1>3, <1>5 DEF ScannedListed, PassedListed, AllPassed
<1> QED
  BY <1>1, <1>6, <1>7 DEF ClosedInv

(* A step that leaves the list alone preserves the invariant. *)
LEMMA SameList ==
  ASSUME ClosedInv, UNCHANGED <<graph, list, at, len>>,
         phase' = phase \/ phase \notin {"closure", "final"}
  PROVE  ClosedInv'
<1>1. Listed' = Listed /\ Modules' = Modules
  BY DEF Listed, Modules
<1>2. GraphType' /\ ListType'
  BY <1>1 DEF ClosedInv, GraphType, ListType
<1>3. ScannedListed' /\ PassedListed' /\ AllPassed'
  BY <1>1 DEF ClosedInv, ScannedListed, PassedListed, AllPassed
<1> QED
  BY <1>2, <1>3 DEF ClosedInv

(* The first loop preserves the invariant. *)
LEMMA ClosureClosed == ClosedInv /\ Closure => ClosedInv'
<1> SUFFICES ASSUME ClosedInv, Closure PROVE ClosedInv'
  OBVIOUS
<1>1. phase = "closure" /\ UNCHANGED graph
  BY DEF Closure
<1>2. list \in Seq(EntryOf(Modules)) /\ at \in Nat \ {0} /\ len \in Nat /\ len <= Len(list)
  BY DEF ClosedInv, ListType
<1>3. CASE at <= len /\ list' = Scan(list, at) /\ at' = at + 1 /\ UNCHANGED <<phase, len>>
  <2>1. at \in 1..Len(list)
    BY <1>2, <1>3
  <2>2. GraphType' /\ list' \in Seq(EntryOf(Modules')) /\ Len(list) <= Len(list') /\ ScannedListed'
    BY <1>1, <1>3, <2>1, ScanStep
  <2>3. ListType' /\ PassedListed' /\ AllPassed'
    BY <1>1, <1>2, <1>3, <2>2 DEF ListType, PassedListed, AllPassed
  <2> QED
    BY <2>2, <2>3 DEF ClosedInv
<1>4. CASE /\ at' = 1 /\ UNCHANGED list
           /\ \/ len' = Len(list) /\ UNCHANGED phase
              \/ phase' = "final" /\ UNCHANGED len
  <2>1. Listed' = Listed /\ Modules' = Modules
    BY <1>1, <1>4 DEF Listed, Modules
  <2>2. GraphType' /\ ListType' /\ ScannedListed'
    BY <1>1, <1>2, <1>4, <2>1 DEF ClosedInv, GraphType, ListType, ScannedListed
  <2>3. PassedListed' /\ AllPassed'
    BY <1>1, <1>2, <1>4 DEF PassedListed, AllPassed
  <2> QED
    BY <2>2, <2>3 DEF ClosedInv
<1> QED
  BY <1>3, <1>4 DEF Closure

(* So does the last pass, which goes by every entry, new ones included. *)
LEMMA FinalClosed == ClosedInv /\ Final => ClosedInv'
<1> SUFFICES ASSUME ClosedInv, Final PROVE ClosedInv'
  OBVIOUS
<1>1. phase = "final" /\ UNCHANGED <<graph, len>>
  BY DEF Final
<1>2. list \in Seq(EntryOf(Modules)) /\ at \in Nat \ {0} /\ len \in Nat /\ len <= Len(list)
  BY DEF ClosedInv, ListType
<1>3. CASE at <= Len(list) /\ list' = Scan(list, at) /\ at' = at + 1 /\ UNCHANGED phase
  <2>1. at \in 1..Len(list)
    BY <1>2, <1>3
  <2>2. /\ GraphType' /\ list' \in Seq(EntryOf(Modules')) /\ Len(list) <= Len(list') /\ ScannedListed'
        /\ \A k \in 1..Len(list) : list'[k].mod = list[k].mod
        /\ Listed \subseteq Listed'
        /\ list[at].mod \in graph.readable => (Range(graph.before[list[at].mod]) \cup Range(graph.uses[list[at].mod])) \subseteq Listed'
    BY <1>1, <1>3, <2>1, ScanStep
  <2>3. ListType' /\ AllPassed'
    BY <1>1, <1>2, <1>3, <2>2 DEF ListType, AllPassed
  <2>4. ASSUME NEW k \in 1..Len(list'), k < at + 1, list'[k].mod \in graph.readable
        PROVE  (Range(graph.before[list'[k].mod]) \cup Range(graph.uses[list'[k].mod])) \subseteq Listed'
    <3>1. k \in 1..Len(list) /\ (k = at \/ k < at)
      BY <1>2, <2>1, <2>4
    <3>2. list'[k].mod = list[k].mod
      BY <2>2, <3>1
    <3>3. k < at => (Range(graph.before[list[k].mod]) \cup Range(graph.uses[list[k].mod])) \subseteq Listed
      BY <1>1, <2>4, <3>1, <3>2 DEF ClosedInv, PassedListed
    <3> QED
      BY <2>2, <2>4, <3>1, <3>2, <3>3
  <2>5. PassedListed'
    BY <1>1, <1>3, <2>4 DEF PassedListed
  <2> QED
    BY <2>2, <2>3, <2>5 DEF ClosedInv
<1>4. CASE at > Len(list) /\ phase' = "spawn" /\ UNCHANGED <<list, at>>
  <2>1. Listed' = Listed /\ Modules' = Modules
    BY <1>1, <1>4 DEF Listed, Modules
  <2>2. GraphType' /\ ListType' /\ ScannedListed'
    BY <1>1, <1>4, <2>1 DEF ClosedInv, GraphType, ListType, ScannedListed
  <2>3. PassedListed' /\ AllPassed'
    BY <1>1, <1>4, <2>1 DEF ClosedInv, PassedListed, AllPassed
  <2> QED
    BY <2>2, <2>3 DEF ClosedInv
<1> QED
  BY <1>3, <1>4 DEF Final

(* So does every step. *)
LEMMA NextClosed == ClosedInv /\ [BundleNext]_bundleVars => ClosedInv'
<1> SUFFICES ASSUME ClosedInv, [BundleNext]_bundleVars PROVE ClosedInv'
  OBVIOUS
<1>1. CASE UNCHANGED bundleVars
  BY <1>1, SameList DEF bundleVars
<1>2. CASE Alone
  BY <1>2, SameList DEF Alone, scan
<1>3. CASE Spawn
  BY <1>3, SameList DEF Spawn, scan
<1>4. CASE Joined
  BY <1>4, SameList DEF Joined, scan
<1>5. ASSUME NEW w \in Threads, Take(w) \/ Build(w)
      PROVE  ClosedInv'
  BY <1>5, SameList DEF Take, Build, scan
<1> QED
  BY <1>1, <1>2, <1>3, <1>4, <1>5, ClosureClosed, FinalClosed DEF BundleNext

(* For every import graph, with cycles and unreadable files, in whatever   *)
(* order and at whatever depths modules are met: the modules               *)
(* ny_build_std_source_ex lists are closed under what they use, and under  *)
(* what they export where exports are followed.                            *)
THEOREM BundleIsClosed == BundleSpec => []BundleClosed
<1>1. ClosedInv => BundleClosed
  <2> SUFFICES ASSUME ClosedInv, phase \notin {"closure", "final"},
                      NEW k \in DOMAIN list, list[k].mod \in graph.readable
               PROVE  /\ (Range(graph.before[list[k].mod]) \cup Range(graph.uses[list[k].mod])) \subseteq Listed
                      /\ list[k].processed /\ list[k].depth # 0
                           => Range(graph.exports[list[k].mod]) \subseteq Listed
    BY DEF BundleClosed
  <2>1. k \in 1..Len(list) /\ k < at
    BY DEF ClosedInv, ListType, AllPassed
  <2>2. phase # "closure"
    OBVIOUS
  <2> QED
    BY <2>1, <2>2 DEF ClosedInv, PassedListed, ScannedListed
<1> QED
  BY <1>1, InitClosed, NextClosed, PTL DEF BundleSpec

-----------------------------------------------------------------------------
(* The threads *)

(* Threads are started from the first on; until the search is over there   *)
(* is none.                                                                *)
StartedInOrder ==
  /\ threads \in Threads
  /\ worker \in [Threads -> {"none", "take", "build", "end"}] /\ idx \in [Threads -> Nat]
  /\ next \in Nat \ {0}
  /\ \E c \in Nat : Created = 1..c
  /\ phase \in {"closure", "final"} => Created = {} /\ next = 1 /\ chunk = {}

(* An index that was taken has its chunk, or a thread that builds it; who  *)
(* has ended has seen the counter pass the end of the list.                *)
TakenBuilt ==
  /\ chunk \subseteq AllChunks
  /\ \A w \in Threads : worker[w] = "build" => idx[w] \in 1..Len(list)
  /\ \A w \in Threads : worker[w] = "end" => next > Len(list)
  /\ \A k \in AllChunks : k < next =>
       k \in chunk \/ \E w \in Threads : worker[w] = "build" /\ idx[w] = k

(* When the text is put together, every chunk of the list is in it, no     *)
(* matter how many threads could be started, which of them took an index   *)
(* and in which order they came to their ends.                             *)
BundleWhole == phase = "done" => bundle = Join(AllChunks)

WholeInv == ClosedInv /\ StartedInOrder /\ TakenBuilt /\ BundleWhole

LEMMA ListIndices == ClosedInv => DOMAIN list = 1..Len(list) /\ Len(list) \in Nat
BY DEF ClosedInv, ListType

(* What the chunks of the list are depends on the list and the files. *)
LEMMA SameChunks ==
  ASSUME UNCHANGED <<graph, list>>
  PROVE  /\ AllChunks' = AllChunks
         /\ Join(AllChunks)' = Join(AllChunks)
<1>1. AllChunks' = AllChunks
  BY DEF AllChunks, HasChunk, Skipped
<1> QED
  BY <1>1 DEF Join, Prefix

LEMMA InitWhole == BundleInit => WholeInv
<1> SUFFICES ASSUME BundleInit PROVE WholeInv
  OBVIOUS
<1>1. ClosedInv
  BY InitClosed
<1>2. /\ threads \in Threads /\ worker = [w \in Threads |-> "none"] /\ idx = [w \in Threads |-> 0]
      /\ next = 1 /\ chunk = {} /\ phase = "closure"
  BY DEF BundleInit
<1>3. Created = {} /\ 1..0 = {}
  BY <1>2 DEF Created
<1>4. StartedInOrder
  BY <1>2, <1>3 DEF StartedInOrder
<1>5. AllChunks \subseteq 1..Len(list)
  BY <1>1, ListIndices DEF AllChunks
<1>6. TakenBuilt
  BY <1>2, <1>5 DEF TakenBuilt
<1>7. BundleWhole
  BY <1>2 DEF BundleWhole
<1> QED
  BY <1>1, <1>4, <1>6, <1>7 DEF WholeInv

(* The search runs before any thread. *)
LEMMA SearchWhole ==
  ASSUME WholeInv, ClosedInv', Closure \/ Final
  PROVE  WholeInv'
<1>1. /\ phase \in {"closure", "final"} /\ phase' \in {"closure", "final", "spawn"}
      /\ threads' = threads /\ worker' = worker /\ idx' = idx /\ next' = next /\ chunk' = chunk
  BY DEF Closure, Final, build
<1>2. StartedInOrder /\ Created = {} /\ next = 1 /\ chunk = {}
  BY <1>1 DEF WholeInv, StartedInOrder
<1>3. Created' = Created
  BY <1>1 DEF Created
<1>4. StartedInOrder'
  BY <1>1, <1>2, <1>3 DEF StartedInOrder
<1>5. DOMAIN list' = 1..Len(list') /\ Len(list') \in Nat
  BY ListIndices, ClosedInv' DEF ClosedInv, ListType
<1>6. \A w \in Threads : worker[w] = "none"
  BY <1>2 DEF Created
<1>7. AllChunks' \subseteq 1..Len(list')
  BY <1>5 DEF AllChunks
<1>8. TakenBuilt'
  BY <1>1, <1>2, <1>6, <1>7 DEF TakenBuilt
<1>9. BundleWhole'
  BY <1>1 DEF BundleWhole
<1> QED
  BY <1>4, <1>8, <1>9 DEF WholeInv

(* pthread_create starts the first thread that was not started. *)
LEMMA SpawnWhole ==
  ASSUME WholeInv, ClosedInv', Spawn
  PROVE  WholeInv'
<1>1. ClosedInv /\ StartedInOrder /\ TakenBuilt
  BY DEF WholeInv
<1>2. /\ phase = "spawn" /\ phase' \in {"spawn", "join"}
      /\ graph' = graph /\ list' = list /\ threads' = threads /\ idx' = idx /\ next' = next
      /\ chunk' = chunk
  BY DEF Spawn, scan
<1>3. AllChunks' = AllChunks
  BY <1>2, SameChunks
<1>4. BundleWhole'
  BY <1>2 DEF BundleWhole
<1>5. CASE worker' = worker
  <2>1. Created' = Created
    BY <1>5 DEF Created
  <2>2. StartedInOrder'
    BY <1>1, <1>2, <1>5, <2>1 DEF StartedInOrder
  <2>3. TakenBuilt'
    BY <1>1, <1>2, <1>3, <1>5 DEF TakenBuilt
  <2> QED
    BY <1>4, <2>2, <2>3 DEF WholeInv
<1>6. CASE worker' # worker
  <2>1. PICK c \in Nat : Created = 1..c
    BY <1>1 DEF StartedInOrder
  <2>2. Cardinality(Created) = c
    <3>1. Cardinality(1..c) = IF 1 > c THEN 0 ELSE c - 1 + 1
      BY FS_Interval
    <3> QED
      BY <2>1, <3>1
  <2>3. c + 1 <= Wanted /\ worker' = [worker EXCEPT ![c + 1] = "take"]
    BY <1>6, <2>2 DEF Spawn
  <2>4. c + 1 \in Threads
    <3>1. threads \in Threads /\ Len(list) \in Nat /\ MaxThreads \in Nat
      BY <1>1, ListIndices, ThreadsPositive DEF StartedInOrder
    <3> QED
      BY <2>3, <3>1 DEF Wanted, Threads
  <2>5. c + 1 \notin Created
    BY <2>1
  <2>6. /\ worker \in [Threads -> {"none", "take", "build", "end"}]
        /\ worker' \in [Threads -> {"none", "take", "build", "end"}]
        /\ worker'[c + 1] = "take" /\ worker[c + 1] = "none"
        /\ \A w \in Threads : w # c + 1 => worker'[w] = worker[w]
    BY <1>1, <2>3, <2>4, <2>5 DEF StartedInOrder, Created
  <2>7. Created' = Created \cup {c + 1}
    BY <2>4, <2>6 DEF Created
  <2>8. Created' = 1..(c + 1)
    BY <2>1, <2>7
  <2>9. StartedInOrder'
    BY <1>1, <1>2, <2>6, <2>8 DEF StartedInOrder
  <2>10. \A w \in Threads : /\ worker'[w] = "build" <=> worker[w] = "build"
                            /\ worker'[w] = "end" => worker[w] = "end"
    BY <2>6
  <2>11. TakenBuilt'
    BY <1>1, <1>2, <1>3, <2>10 DEF TakenBuilt
  <2> QED
    BY <1>4, <2>9, <2>11 DEF WholeInv
<1> QED
  BY <1>5, <1>6

(* ny_std_source_worker takes an index and answers for it. *)
LEMMA TakeWhole ==
  ASSUME WholeInv, ClosedInv', NEW w \in Threads, Take(w)
  PROVE  WholeInv'
<1>1. ClosedInv /\ StartedInOrder /\ TakenBuilt /\ BundleWhole
  BY DEF WholeInv
<1>2. /\ worker[w] = "take" /\ next' = next + 1 /\ idx' = [idx EXCEPT ![w] = next]
      /\ worker' = [worker EXCEPT ![w] = IF next > Len(list) THEN "end" ELSE "build"]
      /\ graph' = graph /\ list' = list /\ phase' = phase /\ threads' = threads /\ chunk' = chunk
      /\ bundle' = bundle
  BY DEF Take, scan
<1>3. AllChunks' = AllChunks /\ Join(AllChunks)' = Join(AllChunks)
  BY <1>2, SameChunks
<1>4. BundleWhole'
  BY <1>1, <1>2, <1>3 DEF BundleWhole
<1>5. /\ worker \in [Threads -> {"none", "take", "build", "end"}] /\ idx \in [Threads -> Nat]
      /\ next \in Nat \ {0} /\ Len(list) \in Nat /\ AllChunks \subseteq 1..Len(list)
  BY <1>1, ListIndices DEF StartedInOrder, AllChunks
<1>6. /\ worker' \in [Threads -> {"none", "take", "build", "end"}] /\ idx' \in [Threads -> Nat]
      /\ worker'[w] = IF next > Len(list) THEN "end" ELSE "build"
      /\ idx'[w] = next
      /\ \A v \in Threads : v # w => worker'[v] = worker[v] /\ idx'[v] = idx[v]
  BY <1>2, <1>5
<1>7. Created' = Created /\ w \in Created
  BY <1>2, <1>6 DEF Created
<1>8. StartedInOrder'
  BY <1>1, <1>2, <1>5, <1>6, <1>7 DEF StartedInOrder
<1>9. ASSUME NEW k \in AllChunks, k < next', k \notin chunk
      PROVE  \E v \in Threads : worker'[v] = "build" /\ idx'[v] = k
  <2>1. k \in 1..Len(list)
    BY <1>5
  <2>2. CASE k = next
    <3>1. worker'[w] = "build" /\ idx'[w] = k
      BY <1>5, <1>6, <2>1, <2>2
    <3> QED
      BY <3>1
  <2>3. CASE k < next
    <3>1. PICK v \in Threads : worker[v] = "build" /\ idx[v] = k
      BY <1>1, <1>9, <2>3 DEF TakenBuilt
    <3>2. v # w
      BY <1>2, <3>1
    <3>3. worker'[v] = "build" /\ idx'[v] = k
      BY <1>6, <3>1, <3>2
    <3> QED
      BY <3>3
  <2> QED
    BY <1>2, <1>5, <1>9, <2>1, <2>2, <2>3
<1>10. /\ \A v \in Threads : worker'[v] = "build" => idx'[v] \in 1..Len(list')
       /\ \A v \in Threads : worker'[v] = "end" => next' > Len(list')
  <2> SUFFICES ASSUME NEW v \in Threads
               PROVE  /\ worker'[v] = "build" => idx'[v] \in 1..Len(list')
                      /\ worker'[v] = "end" => next' > Len(list')
    OBVIOUS
  <2>1. CASE v = w
    BY <1>2, <1>5, <1>6, <2>1
  <2>2. CASE v # w
    <3>1. /\ worker[v] = "build" => idx[v] \in 1..Len(list)
          /\ worker[v] = "end" => next > Len(list)
      BY <1>1 DEF TakenBuilt
    <3> QED
      BY <1>2, <1>5, <1>6, <2>2, <3>1
  <2> QED
    BY <2>1, <2>2
<1>11. TakenBuilt'
  BY <1>1, <1>2, <1>3, <1>9, <1>10 DEF TakenBuilt
<1> QED
  BY <1>4, <1>8, <1>11 DEF WholeInv

LEMMA BuildWhole ==
  ASSUME WholeInv, ClosedInv', NEW w \in Threads, Build(w)
  PROVE  WholeInv'
<1>1. ClosedInv /\ StartedInOrder /\ TakenBuilt /\ BundleWhole
  BY DEF WholeInv
<1>2. /\ worker[w] = "build" /\ worker' = [worker EXCEPT ![w] = "take"]
      /\ chunk' = IF HasChunk(idx[w]) THEN chunk \cup {idx[w]} ELSE chunk
      /\ graph' = graph /\ list' = list /\ phase' = phase /\ threads' = threads /\ idx' = idx
      /\ next' = next /\ bundle' = bundle
  BY DEF Build, scan
<1>3. AllChunks' = AllChunks /\ Join(AllChunks)' = Join(AllChunks)
  BY <1>2, SameChunks
<1>4. BundleWhole'
  BY <1>1, <1>2, <1>3 DEF BundleWhole
<1>5. /\ worker \in [Threads -> {"none", "take", "build", "end"}]
      /\ DOMAIN list = 1..Len(list) /\ idx[w] \in 1..Len(list)
  BY <1>1, <1>2, ListIndices DEF StartedInOrder, TakenBuilt
<1>6. /\ worker' \in [Threads -> {"none", "take", "build", "end"}]
      /\ worker'[w] = "take"
      /\ \A v \in Threads : v # w => worker'[v] = worker[v]
  BY <1>2, <1>5
<1>7. Created' = Created /\ w \in Created
  BY <1>2, <1>6 DEF Created
<1>8. StartedInOrder'
  BY <1>1, <1>2, <1>6, <1>7 DEF StartedInOrder
<1>9. chunk' \subseteq AllChunks
  BY <1>1, <1>2, <1>5 DEF TakenBuilt, AllChunks
<1>10. ASSUME NEW k \in AllChunks, k < next, k \notin chunk'
       PROVE  \E v \in Threads : worker'[v] = "build" /\ idx'[v] = k
  <2>1. HasChunk(k) /\ k \notin chunk
    BY <1>2, <1>10 DEF AllChunks
  <2>2. PICK v \in Threads : worker[v] = "build" /\ idx[v] = k
    BY <1>1, <1>10, <2>1 DEF TakenBuilt
  <2>3. v # w
    BY <1>2, <1>10, <2>1, <2>2
  <2>4. worker'[v] = "build" /\ idx'[v] = k
    BY <1>2, <1>6, <2>2, <2>3
  <2> QED
    BY <2>4
<1>11. \A v \in Threads : /\ worker'[v] = "build" => worker[v] = "build"
                          /\ worker'[v] = "end" => worker[v] = "end"
  BY <1>2, <1>6
<1>12. TakenBuilt'
  BY <1>1, <1>2, <1>3, <1>9, <1>10, <1>11 DEF TakenBuilt
<1> QED
  BY <1>4, <1>8, <1>12 DEF WholeInv

(* When the threads that were started have all ended, the counter is past  *)
(* the list and nobody still builds; without any, the main thread has built*)
(* all.                                                                    *)
LEMMA FinishWhole ==
  ASSUME WholeInv, ClosedInv', Alone \/ Joined
  PROVE  WholeInv'
<1>1. ClosedInv /\ StartedInOrder /\ TakenBuilt
  BY DEF WholeInv
<1>2. /\ phase' = "done" /\ bundle' = Join(chunk')
      /\ graph' = graph /\ list' = list /\ threads' = threads /\ worker' = worker /\ idx' = idx
      /\ next' = next
  BY DEF Alone, Joined, scan, BundleFinish, Join, Prefix
<1>3. AllChunks' = AllChunks /\ Join(AllChunks)' = Join(AllChunks)
  BY <1>2, SameChunks
<1>4. chunk' = AllChunks
  <2>1. CASE Alone
    BY <2>1 DEF Alone, BundleFinish
  <2>2. CASE Joined /\ Created = {}
    BY <2>2 DEF Joined, BundleFinish
  <2>3. CASE Joined /\ Created # {}
    <3>1. chunk' = chunk /\ \A v \in Created : worker[v] = "end"
      BY <2>3 DEF Joined, BundleFinish
    <3>2. PICK v \in Threads : worker[v] = "end"
      BY <2>3, <3>1 DEF Created
    <3>3. next > Len(list)
      BY <1>1, <3>2 DEF TakenBuilt
    <3>4. \A u \in Threads : worker[u] # "build"
      BY <3>1 DEF Created
    <3>5. \A k \in AllChunks : k \in 1..Len(list)
      BY <1>1, ListIndices DEF AllChunks
    <3>6. next \in Nat /\ Len(list) \in Nat
      BY <1>1, ListIndices DEF StartedInOrder
    <3>7. \A k \in AllChunks : k < next
      BY <3>3, <3>5, <3>6
    <3> QED
      BY <1>1, <3>1, <3>4, <3>7 DEF TakenBuilt
  <2> QED
    BY <2>1, <2>2, <2>3
<1>5. BundleWhole'
  BY <1>2, <1>3, <1>4 DEF BundleWhole
<1>6. Created' = Created
  BY <1>2 DEF Created
<1>7. StartedInOrder'
  BY <1>1, <1>2, <1>6 DEF StartedInOrder
<1>8. TakenBuilt'
  BY <1>1, <1>2, <1>3, <1>4 DEF TakenBuilt
<1> QED
  BY <1>5, <1>7, <1>8 DEF WholeInv

LEMMA NextWhole == WholeInv /\ [BundleNext]_bundleVars => WholeInv'
<1> SUFFICES ASSUME WholeInv, [BundleNext]_bundleVars PROVE WholeInv'
  OBVIOUS
<1>1. ClosedInv'
  BY NextClosed DEF WholeInv
<1>2. CASE UNCHANGED bundleVars
  <2>1. AllChunks' = AllChunks /\ Join(AllChunks)' = Join(AllChunks) /\ Created' = Created
    BY <1>2, SameChunks DEF bundleVars, Created
  <2> QED
    BY <1>1, <1>2, <2>1 DEF bundleVars, WholeInv, StartedInOrder, TakenBuilt, BundleWhole
<1>3. ASSUME NEW w \in Threads, Take(w) \/ Build(w)
      PROVE  WholeInv'
  BY <1>1, <1>3, TakeWhole, BuildWhole
<1> QED
  BY <1>1, <1>2, <1>3, SearchWhole, SpawnWhole, FinishWhole DEF BundleNext

(* For every list and any number of threads, of which any number could be  *)
(* started, whoever of ny_std_source_worker takes which index: the text    *)
(* ny_build_std_source_ex puts together has every chunk, in the order of   *)
(* the list.                                                               *)
THEOREM BundleIsWhole == BundleSpec => []BundleWhole
<1>1. WholeInv => BundleWhole
  BY DEF WholeInv
<1> QED
  BY <1>1, InitWhole, NextWhole, PTL DEF BundleSpec
================================================================================
