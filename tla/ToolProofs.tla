----------------------------- MODULE ToolProofs -----------------------------
(***************************************************************************)
(* The command line tools and the library, for all files and any number of *)
(* calls.                                                                  *)
(*                                                                         *)
(* Calls of amc, for every way it is called:                               *)
(* the AMC object is filled in by whichever command needs a part of it     *)
(* first.  The invariant says of each part that it is either as it was     *)
(* given or what the command line stands for, whatever filled it in; and   *)
(* of the disk, what the commands behind the process have left there.      *)
(*                                                                         *)
(* Trees of modules, for every set of model files: TreeInv, further down.  *)
(***************************************************************************)
EXTENDS Amc, ModelBuilder, SequenceTheorems, TLAPS

(* What a command line stands for.                                         *)
BuildPath(args) ==
    IF args.buildDir = NoPath THEN Abs("build/" \o args.model \o "/pm")
    ELSE Abs(args.buildDir[2])

ExePath(args) ==
    IF args.exe = NoPath THEN Join(BuildPath(args), args.model) ELSE Abs(args.exe[2])

RunPath(args) ==
    IF args.runDir = NoPath
    THEN Abs("build/" \o args.model \o "/bm/" \o args.benchmark)
    ELSE Abs(args.runDir[2])

NoRunner == << NoPath, NoPath >>

AmcFields == {"model", "builder", "benchmark", "runner", "args", "cmds",
              "buildDir", "exe", "runDir"}

AmcShape(a) == a = [f \in AmcFields |-> a[f]]

Parts(a) ==
    /\ AmcShape(a) /\ a.model \in BOOLEAN
    /\ a.buildDir \in {Given(a.args.buildDir), BuildPath(a.args)}
    /\ a.exe \in {Given(a.args.exe), ExePath(a.args)}
    /\ a.runDir \in {Given(a.args.runDir), RunPath(a.args)}
    /\ a.model => a.exe = ExePath(a.args)
    /\ a.builder # NoPath => a.model
    /\ a.runner \in {NoRunner, << RunPath(a.args), ExePath(a.args) >>}

(* The commands still to come are the last of those that were given.       *)
Behind(a) == Len(a.args.cmds) - Len(a.cmds)

Queue(a) ==
    /\ a.args \in CommandLines
    /\ a.cmds \in Seq(STRING)
    /\ Behind(a) \in Nat
    /\ \A j \in 1..Len(a.cmds) : a.cmds[j] = a.args.cmds[Behind(a) + j]

ScriptAt(a) == Get(runs, RunDirOf(a), NoScript)

WholeScript(a) == [there |-> TRUE, whole |-> TRUE, models |-> << ExeOf(a) >>, args |-> 1]

AmcInv ==
    /\ doing \in {"shell", "command", "rewrite"}
    /\ doing # "shell" =>
          /\ Parts(amc)
          /\ Queue(amc)
          /\ BuiltBefore(amc) => ExeOf(amc) \in exes
    /\ doing = "command" /\ SetupBefore(amc) =>
          /\ amc.runner # NoRunner
          /\ complained \/ ScriptAt(amc) = WholeScript(amc)
    /\ doing = "rewrite" =>
          /\ amc.cmds # << >>
          /\ amc.runner # NoRunner
          /\ Head(amc.cmds) = "setup"
          /\ ScriptAt(amc) = Fresh

-----------------------------------------------------------------------------
(***************************************************************************)
(* Paths.                                                                  *)
(***************************************************************************)
LEMMA AbsPath ==
    ASSUME NEW name, NEW dir
    PROVE  /\ Abs(name) # NoPath
           /\ Resolve(Abs(name), dir) = << Home, name >>
           /\ \A n : /\ Join(Abs(name), n) = Abs(name \o "/" \o n)
                     /\ Join(<< Home, name >>, n) = << Home, name \o "/" \o n >>
<1>1. Abs(name) # NoPath
  <2>1. DOMAIN Abs(name) = 1..2 /\ DOMAIN NoPath = {}
    BY DEF Abs, NoPath
  <2> QED
    BY <2>1
<1>2. Abs(name)[1] = "/" /\ Abs(name)[2] = name
  BY DEF Abs
<1>3. Resolve(Abs(name), dir) = << Home, name >>
  BY <1>2 DEF Resolve
<1>4. ASSUME NEW n
      PROVE  /\ Join(Abs(name), n) = Abs(name \o "/" \o n)
             /\ Join(<< Home, name >>, n) = << Home, name \o "/" \o n >>
  <2>1. << Home, name >>[1] = Home /\ << Home, name >>[2] = name
    OBVIOUS
  <2>2. Join(Abs(name), n) = << Abs(name)[1], Abs(name)[2] \o "/" \o n >>
    BY DEF Join
  <2>3. Join(<< Home, name >>, n) = << << Home, name >>[1], << Home, name >>[2] \o "/" \o n >>
    BY DEF Join
  <2> QED
    BY <1>2, <2>1, <2>2, <2>3 DEF Abs
<1> QED
  BY <1>1, <1>3, <1>4

LEMMA JoinedPath ==
    ASSUME NEW name, NEW n, NEW dir
    PROVE  /\ Resolve(Join(Abs(name), n), dir) = Join(<< Home, name >>, n)
           /\ Join(Abs(name), n) # NoPath
<1> DEFINE long == name \o "/" \o n
<1>1. Join(Abs(name), n) = Abs(long) /\ Join(<< Home, name >>, n) = << Home, long >>
  BY AbsPath
<1> HIDE DEF long
<1>2. Resolve(Abs(long), dir) = << Home, long >> /\ Abs(long) # NoPath
  BY AbsPath
<1> QED
  BY <1>1, <1>2

(* Wherever the process stands, a path leads to what was asked for.        *)
LEMMA PathsLead ==
    ASSUME NEW a, NEW dir
    PROVE  /\ Resolve(ExePath(a.args), dir) = ExeOf(a)
           /\ Resolve(RunPath(a.args), dir) = RunDirOf(a)
           /\ BuildPath(a.args) # NoPath /\ ExePath(a.args) # NoPath
           /\ RunPath(a.args) # NoPath
<1> DEFINE args == a.args
           own == "build/" \o args.model \o "/pm"
           ran == "build/" \o args.model \o "/bm/" \o args.benchmark
<1>1. /\ BuildPath(args) = IF args.buildDir = NoPath THEN Abs(own) ELSE Abs(args.buildDir[2])
      /\ ExePath(args) = IF args.exe = NoPath THEN Join(BuildPath(args), args.model)
                         ELSE Abs(args.exe[2])
      /\ RunPath(args) = IF args.runDir = NoPath THEN Abs(ran) ELSE Abs(args.runDir[2])
  BY DEF BuildPath, ExePath, RunPath
<1>2. /\ ExeOf(a) = IF args.exe # NoPath THEN << Home, args.exe[2] >>
                    ELSE Join(Asked(a, args.buildDir, << Home, own >>), args.model)
      /\ RunDirOf(a) = Asked(a, args.runDir, << Home, ran >>)
  BY DEF ExeOf, RunDirOf
<1>3. \A path, default : Asked(a, path, default) =
          IF path = NoPath THEN default ELSE << Home, path[2] >>
  BY DEF Asked
<1> HIDE DEF args, own, ran
<1>4. Resolve(RunPath(args), dir) = RunDirOf(a) /\ RunPath(args) # NoPath
  BY <1>1, <1>2, <1>3, AbsPath
<1>5. CASE args.exe # NoPath
  BY <1>1, <1>2, <1>4, <1>5, AbsPath DEF args
<1>6. CASE args.exe = NoPath /\ args.buildDir = NoPath
  <2>1. BuildPath(args) = Abs(own) /\ ExePath(args) = Join(Abs(own), args.model)
    BY <1>1, <1>6
  <2>2. ExeOf(a) = Join(<< Home, own >>, args.model)
    BY <1>2, <1>3, <1>6
  <2> QED
    BY <1>4, <2>1, <2>2, AbsPath, JoinedPath DEF args
<1>7. CASE args.exe = NoPath /\ args.buildDir # NoPath
  <2> DEFINE given == args.buildDir[2]
  <2>1. BuildPath(args) = Abs(given) /\ ExePath(args) = Join(Abs(given), args.model)
    BY <1>1, <1>7
  <2>2. ExeOf(a) = Join(<< Home, given >>, args.model)
    BY <1>2, <1>3, <1>7
  <2> HIDE DEF given
  <2> QED
    BY <1>4, <2>1, <2>2, AbsPath, JoinedPath DEF args
<1> QED
  BY <1>5, <1>6, <1>7

-----------------------------------------------------------------------------
(***************************************************************************)
(* Filling in the AMC object.                                              *)
(***************************************************************************)
LEMMA GivenPath ==
    ASSUME NEW args
    PROVE  /\ Given(args.buildDir) \in {NoPath, BuildPath(args)}
           /\ Given(args.exe) \in {NoPath, ExePath(args)}
           /\ Given(args.runDir) \in {NoPath, RunPath(args)}
BY DEF Given, BuildPath, ExePath, RunPath

LEMMA Translated ==
    ASSUME NEW a, Parts(a)
    PROVE  /\ TranslateBuildDir(a) = BuildPath(a.args)
           /\ (IF a.exe = NoPath THEN DefaultExe(a) ELSE a.exe) = ExePath(a.args)
           /\ (IF a.runDir = NoPath
               THEN Abs("build/" \o a.args.model \o "/bm/" \o a.args.benchmark)
               ELSE a.runDir) = RunPath(a.args)
<1>1. a.buildDir \in {Given(a.args.buildDir), BuildPath(a.args)}
      /\ a.exe \in {Given(a.args.exe), ExePath(a.args)}
      /\ a.runDir \in {Given(a.args.runDir), RunPath(a.args)}
  BY DEF Parts
<1>2. BuildPath(a.args) # NoPath /\ ExePath(a.args) # NoPath /\ RunPath(a.args) # NoPath
  BY PathsLead
<1>3. \A args : /\ args.buildDir # NoPath => Given(args.buildDir) = BuildPath(args)
                /\ args.exe # NoPath => Given(args.exe) = ExePath(args)
                /\ args.runDir # NoPath => Given(args.runDir) = RunPath(args)
  BY DEF Given, BuildPath, ExePath, RunPath
<1>4. \A path : path # NoPath => Given(path) # NoPath
  BY AbsPath DEF Given
<1>5. TranslateBuildDir(a) = BuildPath(a.args)
  <2>1. CASE a.buildDir = NoPath
    <3>1. a.args.buildDir = NoPath
      BY <1>1, <1>2, <1>4, <2>1
    <3> QED
      BY <2>1, <3>1 DEF TranslateBuildDir, BuildPath
  <2>2. CASE a.buildDir # NoPath
    <3>1. a.buildDir = BuildPath(a.args)
      BY <1>1, <1>3, <2>2 DEF Given
    <3> QED
      BY <2>2, <3>1 DEF TranslateBuildDir
  <2> QED
    BY <2>1, <2>2
<1>6. (IF a.exe = NoPath THEN DefaultExe(a) ELSE a.exe) = ExePath(a.args)
  <2>1. CASE a.exe = NoPath
    <3>1. a.args.exe = NoPath
      BY <1>1, <1>2, <1>4, <2>1
    <3> QED
      BY <1>5, <2>1, <3>1 DEF DefaultExe, ExePath
  <2>2. CASE a.exe # NoPath
    BY <1>1, <1>3, <2>2 DEF Given
  <2> QED
    BY <2>1, <2>2
<1>7. (IF a.runDir = NoPath
       THEN Abs("build/" \o a.args.model \o "/bm/" \o a.args.benchmark)
       ELSE a.runDir) = RunPath(a.args)
  <2>1. CASE a.runDir = NoPath
    <3>1. a.args.runDir = NoPath
      BY <1>1, <1>2, <1>4, <2>1
    <3> QED
      BY <2>1, <3>1 DEF RunPath
  <2>2. CASE a.runDir # NoPath
    BY <1>1, <1>3, <2>2 DEF Given
  <2> QED
    BY <2>1, <2>2
<1> QED
  BY <1>5, <1>6, <1>7

LEMMA ModelFilled ==
    ASSUME NEW a, Parts(a)
    PROVE  /\ Parts(WithModel(a)) /\ WithModel(a).model = TRUE
           /\ WithModel(a).exe = ExePath(a.args)
           /\ WithModel(a).args = a.args /\ WithModel(a).cmds = a.cmds
           /\ WithModel(a).runner = a.runner
<1>1. CASE a.model
  BY <1>1 DEF WithModel, Parts
<1>2. CASE ~a.model
  <2> DEFINE dir == BuildPath(a.args)
             exe == ExePath(a.args)
             b   == [a EXCEPT !.model = TRUE, !.buildDir = dir, !.exe = exe]
  <2>1. WithModel(a) = b
    <3>1. WithModel(a) = [a EXCEPT !.model = TRUE, !.buildDir = TranslateBuildDir(a),
                              !.exe = IF a.exe = NoPath THEN DefaultExe(a) ELSE a.exe]
      BY <1>2 DEF WithModel
    <3> QED
      BY <3>1, Translated
  <2> HIDE DEF dir, exe
  <2>2. AmcShape(b)
    BY DEF Parts, AmcShape, AmcFields
  <2>3. /\ b.model = TRUE /\ b.builder = a.builder /\ b.benchmark = a.benchmark
        /\ b.runner = a.runner /\ b.args = a.args /\ b.cmds = a.cmds
        /\ b.buildDir = dir /\ b.exe = exe /\ b.runDir = a.runDir
    BY DEF Parts, AmcShape, AmcFields
  <2> HIDE DEF b
  <2>5. Parts(b)
    BY <2>2, <2>3 DEF Parts, dir, exe
  <2>6. b.exe = ExePath(a.args)
    BY <2>3 DEF exe
  <2> QED
    BY <2>1, <2>3, <2>5, <2>6
<1> QED
  BY <1>1, <1>2

LEMMA BuilderFilled ==
    ASSUME NEW a, Parts(a)
    PROVE  /\ Parts(WithBuilder(a)) /\ WithBuilder(a).model = TRUE
           /\ WithBuilder(a).exe = ExePath(a.args)
           /\ WithBuilder(a).args = a.args /\ WithBuilder(a).cmds = a.cmds
           /\ WithBuilder(a).runner = a.runner
<1>1. CASE a.builder # NoPath
  BY <1>1 DEF WithBuilder, Parts
<1>2. CASE a.builder = NoPath
  <2> DEFINE m == WithModel(a)
             b == [m EXCEPT !.builder = m.buildDir]
  <2>1. WithBuilder(a) = b
    BY <1>2 DEF WithBuilder
  <2>2. /\ Parts(m) /\ m.model = TRUE /\ m.exe = ExePath(a.args)
        /\ m.args = a.args /\ m.cmds = a.cmds /\ m.runner = a.runner
    BY ModelFilled
  <2> HIDE DEF m
  <2>3. AmcShape(b)
    BY <2>2 DEF Parts, AmcShape, AmcFields
  <2>4. /\ b.model = m.model /\ b.builder = m.buildDir /\ b.benchmark = m.benchmark
        /\ b.runner = m.runner /\ b.args = m.args /\ b.cmds = m.cmds
        /\ b.buildDir = m.buildDir /\ b.exe = m.exe /\ b.runDir = m.runDir
    BY <2>2 DEF Parts, AmcShape, AmcFields
  <2> HIDE DEF b
  <2>6. Parts(b)
    BY <2>2, <2>3, <2>4 DEF Parts
  <2> QED
    BY <2>1, <2>2, <2>4, <2>6
<1> QED
  BY <1>1, <1>2

LEMMA RunnerFilled ==
    ASSUME NEW a, Parts(a)
    PROVE  /\ Parts(WithRunner(a))
           /\ WithRunner(a).runner = << RunPath(a.args), ExePath(a.args) >>
           /\ WithRunner(a).args = a.args /\ WithRunner(a).cmds = a.cmds
<1>1. CASE a.runner # NoRunner
  BY <1>1 DEF WithRunner, Parts, NoRunner
<1>2. CASE a.runner = NoRunner
  <2> DEFINE dir == RunPath(a.args)
             exe == ExePath(a.args)
             b   == [a EXCEPT !.benchmark = TRUE, !.exe = exe, !.runDir = dir,
                              !.runner = << dir, exe >>]
  <2>1. WithRunner(a) = b
    <3> DEFINE e == IF a.exe = NoPath THEN DefaultExe(a) ELSE a.exe
               d == IF a.runDir = NoPath
                    THEN Abs("build/" \o a.args.model \o "/bm/" \o a.args.benchmark)
                    ELSE a.runDir
    <3>1. WithRunner(a) = [a EXCEPT !.benchmark = TRUE, !.exe = e, !.runDir = d,
                                    !.runner = << d, e >>]
      BY <1>2 DEF WithRunner, NoRunner
    <3>2. e = exe /\ d = dir
      BY Translated
    <3> QED
      BY <3>1, <3>2
  <2> HIDE DEF dir, exe
  <2>2. AmcShape(b)
    BY DEF Parts, AmcShape, AmcFields
  <2>3. /\ b.model = a.model /\ b.builder = a.builder /\ b.benchmark = TRUE
        /\ b.runner = << dir, exe >> /\ b.args = a.args /\ b.cmds = a.cmds
        /\ b.buildDir = a.buildDir /\ b.exe = exe /\ b.runDir = dir
    BY DEF Parts, AmcShape, AmcFields
  <2> HIDE DEF b
  <2>5. Parts(b)
    BY <2>2, <2>3 DEF Parts, dir, exe
  <2>6. b.runner = << RunPath(a.args), ExePath(a.args) >>
    BY <2>3 DEF exe, dir
  <2> QED
    BY <2>1, <2>3, <2>5, <2>6
<1> QED
  BY <1>1, <1>2

LEMMA RunnerIsOne ==
    ASSUME NEW args
    PROVE  /\ << RunPath(args), ExePath(args) >> # NoRunner
           /\ << RunPath(args), ExePath(args) >>[1] = RunPath(args)
           /\ << RunPath(args), ExePath(args) >>[2] = ExePath(args)
<1>1. RunPath(args) # NoPath
  <2> DEFINE a == [args |-> args]
  <2>1. a.args = args
    OBVIOUS
  <2> HIDE DEF a
  <2> QED
    BY <2>1, PathsLead
<1> QED
  BY <1>1 DEF NoRunner

-----------------------------------------------------------------------------
(***************************************************************************)
(* Going from one command to the next.                                     *)
(***************************************************************************)
LEMMA SameLine ==
    ASSUME NEW a, NEW b, a.args = b.args
    PROVE  /\ ExeOf(a) = ExeOf(b) /\ RunDirOf(a) = RunDirOf(b)
           /\ WholeScript(a) = WholeScript(b) /\ ScriptAt(a) = ScriptAt(b)
           /\ a.cmds = b.cmds => /\ Queue(b) => Queue(a)
                                 /\ SetupBefore(a) <=> SetupBefore(b)
                                 /\ BuiltBefore(a) <=> BuiltBefore(b)
<1>1. ExeOf(a) = ExeOf(b) /\ RunDirOf(a) = RunDirOf(b)
  BY DEF ExeOf, RunDirOf, Asked
<1>2. WholeScript(a) = WholeScript(b) /\ ScriptAt(a) = ScriptAt(b)
  BY <1>1 DEF WholeScript, ScriptAt
<1>3. ASSUME a.cmds = b.cmds
      PROVE  /\ Queue(b) => Queue(a)
             /\ SetupBefore(a) <=> SetupBefore(b)
             /\ BuiltBefore(a) <=> BuiltBefore(b)
  BY <1>3 DEF Queue, Behind, SetupBefore, BuiltBefore
<1> QED
  BY <1>1, <1>2, <1>3

LEMMA Advanced ==
    ASSUME NEW a, Parts(a), Queue(a), a.cmds # << >>,
           NEW b, b = [a EXCEPT !.cmds = Tail(@)]
    PROVE  /\ Parts(b) /\ Queue(b)
           /\ b.args = a.args /\ b.runner = a.runner
           /\ Behind(b) = Behind(a) + 1
           /\ a.args.cmds[Behind(b)] = Head(a.cmds)
<1> DEFINE s == a.cmds
           c == Tail(s)
           n == Len(s)
           w == a.args.cmds
           k == Behind(a)
<1>1. AmcShape(b) /\ b.cmds = c
  BY DEF Parts, AmcShape, AmcFields
<1>2. /\ b.model = a.model /\ b.builder = a.builder /\ b.benchmark = a.benchmark
      /\ b.runner = a.runner /\ b.args = a.args /\ b.buildDir = a.buildDir
      /\ b.exe = a.exe /\ b.runDir = a.runDir
  BY DEF Parts, AmcShape, AmcFields
<1>3. Parts(b)
  BY <1>1, <1>2 DEF Parts
<1>4. /\ s \in Seq(STRING) /\ s # << >> /\ k \in Nat /\ a.args \in CommandLines
      /\ \A j \in 1..n : s[j] = w[k + j]
  BY DEF Queue
<1>5. w \in Seq(STRING)
  BY <1>4, CommandLinesAssumption
<1>6. k = Len(w) - n
  BY DEF Behind
<1>7. Behind(b) = Len(w) - Len(c)
  BY <1>1, <1>2 DEF Behind
<1> HIDE DEF s, w, k
<1>8. n \in Nat /\ n > 0 /\ Len(w) \in Nat
  BY <1>4, <1>5, EmptySeq
<1>9. c \in Seq(STRING) /\ Len(c) = n - 1 /\ \A j \in 1..(n - 1) : c[j] = s[j + 1]
  BY <1>4, HeadTailProperties
<1>10. Head(s) = s[1]
  BY <1>4
<1> HIDE DEF c, n
<1>11. Behind(b) = k + 1
  BY <1>6, <1>7, <1>8, <1>9
<1>12. \A j \in 1..(n - 1) : c[j] = w[(k + 1) + j]
  <2> SUFFICES ASSUME NEW j \in 1..(n - 1)
               PROVE  c[j] = w[(k + 1) + j]
    OBVIOUS
  <2>1. j + 1 \in 1..n /\ k + (j + 1) = (k + 1) + j
    BY <1>4, <1>8
  <2> QED
    BY <1>4, <1>9, <2>1
<1>13. w[k + 1] = Head(s)
  BY <1>4, <1>8, <1>10
<1>14. Queue(b)
  <2>1. b.cmds \in Seq(STRING) /\ Len(b.cmds) = n - 1 /\ Behind(b) \in Nat
    <3>1. k + 1 \in Nat
      BY <1>4
    <3> QED
      BY <1>1, <1>9, <1>11, <3>1, Zenon
  <2>2. \A j \in 1..Len(b.cmds) : b.cmds[j] = b.args.cmds[Behind(b) + j]
    BY <1>1, <1>2, <1>11, <1>12, <2>1 DEF w
  <2> QED
    BY <1>2, <1>4, <2>1, <2>2 DEF Queue
<1> QED
  BY <1>2, <1>3, <1>11, <1>13, <1>14 DEF k, w, s

(* What stands behind the process after a command.                         *)
LEMMA NowBehind ==
    ASSUME NEW a, Parts(a), Queue(a), a.cmds # << >>,
           NEW b, b = [a EXCEPT !.cmds = Tail(@)]
    PROVE  /\ SetupBefore(b) <=> SetupBefore(a) \/ Head(a.cmds) = "setup"
           /\ Head(a.cmds) # "build" /\ BuiltBefore(b) => BuiltBefore(a)
           /\ Head(a.cmds) = "nuke" => ~BuiltBefore(b)
<1> DEFINE k == Behind(a)
           w == a.args.cmds
<1>1. b.args = a.args /\ Behind(b) = k + 1 /\ w[k + 1] = Head(a.cmds) /\ k \in Nat
  BY Advanced DEF Queue
<1>2. /\ SetupBefore(a) <=> \E i \in 1..k : w[i] = "setup"
      /\ SetupBefore(b) <=> \E i \in 1..(k + 1) : w[i] = "setup"
  BY <1>1 DEF SetupBefore, Behind
<1>3. /\ BuiltBefore(a) <=>
            \E i \in 1..k : w[i] = "build" /\ \A j \in (i + 1)..k : w[j] # "nuke"
      /\ BuiltBefore(b) <=>
            \E i \in 1..(k + 1) :
               w[i] = "build" /\ \A j \in (i + 1)..(k + 1) : w[j] # "nuke"
  <2> DEFINE Built(m) == \E i \in 1..m : w[i] = "build" /\ \A j \in (i + 1)..m : w[j] # "nuke"
  <2>1. BuiltBefore(a) <=> Built(k)
    BY Zenon DEF BuiltBefore, Behind
  <2>2. BuiltBefore(b) <=> Built(Behind(b))
    <3>1. b.args.cmds = w
      BY <1>1
    <3>2. BuiltBefore(b) <=>
             \E i \in 1..Behind(b) :
                /\ b.args.cmds[i] = "build"
                /\ \A j \in (i + 1)..Behind(b) : b.args.cmds[j] # "nuke"
      BY Zenon DEF BuiltBefore, Behind
    <3> HIDE DEF w
    <3> QED
      BY <3>1, <3>2
  <2> QED
    BY <1>1, <2>1, <2>2, Zenon
<1> HIDE DEF k, w
<1>4. SetupBefore(b) <=> SetupBefore(a) \/ Head(a.cmds) = "setup"
  BY <1>1, <1>2
<1>5. ASSUME BuiltBefore(b)
      PROVE  (Head(a.cmds) # "build" => BuiltBefore(a)) /\ Head(a.cmds) # "nuke"
  <2>1. PICK i \in 1..(k + 1) : w[i] = "build" /\ \A j \in (i + 1)..(k + 1) : w[j] # "nuke"
    BY <1>3, <1>5
  <2>2. CASE i = k + 1
    BY <1>1, <2>1, <2>2
  <2>3. CASE i # k + 1
    <3>1. i \in 1..k /\ k + 1 \in (i + 1)..(k + 1)
      BY <1>1, <2>1, <2>3
    <3>2. \A j \in (i + 1)..k : j \in (i + 1)..(k + 1)
      BY <1>1, <3>1
    <3> QED
      BY <1>1, <1>3, <2>1, <3>1, <3>2
  <2> QED
    BY <2>2, <2>3
<1> QED
  BY <1>4, <1>5

-----------------------------------------------------------------------------
(***************************************************************************)
(* One step of amc.                                                        *)
(***************************************************************************)
LEMMA CommandDone ==
    ASSUME Queue(amc), amc.cmds # << >>,
           NEW a, Parts(a), a.args = amc.args, a.cmds = amc.cmds, Done(a)
    PROVE  /\ Parts(amc') /\ Queue(amc')
           /\ amc'.args = amc.args /\ amc'.runner = a.runner
           /\ ExeOf(amc') = ExeOf(amc) /\ WholeScript(amc') = WholeScript(amc)
           /\ RunDirOf(amc') = RunDirOf(amc)
           /\ SetupBefore(amc') <=> SetupBefore(amc) \/ Head(amc.cmds) = "setup"
           /\ Head(amc.cmds) # "build" /\ BuiltBefore(amc') => BuiltBefore(amc)
           /\ Head(amc.cmds) = "nuke" => ~BuiltBefore(amc')
<1>1. /\ Queue(a) /\ a.cmds # << >> /\ amc' = [a EXCEPT !.cmds = Tail(@)]
      /\ SetupBefore(a) <=> SetupBefore(amc)
      /\ BuiltBefore(a) <=> BuiltBefore(amc)
  BY SameLine DEF Done
<1>2. /\ Parts(amc') /\ Queue(amc') /\ amc'.args = amc.args /\ amc'.runner = a.runner
  BY <1>1, Advanced
<1>3. /\ ExeOf(amc') = ExeOf(amc) /\ WholeScript(amc') = WholeScript(amc)
      /\ RunDirOf(amc') = RunDirOf(amc)
  BY <1>2 DEF ExeOf, RunDirOf, WholeScript, Asked
<1>4. /\ SetupBefore(amc') <=> SetupBefore(a) \/ Head(a.cmds) = "setup"
      /\ Head(a.cmds) # "build" /\ BuiltBefore(amc') => BuiltBefore(a)
      /\ Head(a.cmds) = "nuke" => ~BuiltBefore(amc')
  BY <1>1, NowBehind
<1> QED
  BY <1>1, <1>2, <1>3, <1>4

LEMMA InitAmc == AmcInit => AmcInv
BY DEF AmcInit, AmcInv

LEMMA QuitStep ==
    ASSUME Quit
    PROVE  AmcInv'
BY DEF Quit, AmcInv

LEMMA CalledStep ==
    ASSUME NEW args \in CommandLines, ProcessCommandLine(args)
    PROVE  AmcInv'
<1> DEFINE a == amc'
<1>1. /\ doing' = "command"
      /\ a = [NoProcess EXCEPT
                !.args = args, !.cmds = args.cmds,
                !.buildDir = Given(args.buildDir), !.exe = Given(args.exe),
                !.runDir = Given(args.runDir)]
  BY DEF ProcessCommandLine
<1>2. AmcShape(NoProcess)
  BY DEF AmcShape, AmcFields, NoProcess
<1>3. /\ AmcShape(a)
      /\ a.args = args /\ a.cmds = args.cmds /\ a.buildDir = Given(args.buildDir)
      /\ a.exe = Given(args.exe) /\ a.runDir = Given(args.runDir)
      /\ a.model = NoProcess.model /\ a.builder = NoProcess.builder
      /\ a.runner = NoProcess.runner
  BY <1>1, <1>2 DEF AmcShape, AmcFields
<1>4. NoProcess.model = FALSE /\ NoProcess.builder = NoPath /\ NoProcess.runner = NoRunner
  BY DEF NoProcess, NoRunner
<1> HIDE DEF a
<1>5. Parts(a)
  BY <1>3, <1>4 DEF Parts
<1>6. a.cmds \in Seq(STRING)
  BY <1>3, CommandLinesAssumption
<1>7. Behind(a) = 0
  BY <1>3, <1>6 DEF Behind
<1>8. Queue(a)
  BY <1>3, <1>6, <1>7 DEF Queue
<1>9. ~SetupBefore(a) /\ ~BuiltBefore(a)
  <2>1. 1..Behind(a) = {}
    BY <1>7
  <2> QED
    BY <2>1 DEF SetupBefore, BuiltBefore, Behind
<1> QED
  BY <1>1, <1>5, <1>8, <1>9 DEF AmcInv, a

LEMMA NukeStep ==
    ASSUME AmcInv, Nuke
    PROVE  AmcInv'
<1> DEFINE a == WithBuilder(amc)
<1>1. doing = "command" /\ amc.cmds # << >> /\ Head(amc.cmds) = "nuke"
      /\ Done(a) /\ UNCHANGED << doing, runs, complained >>
  BY DEF Nuke, Cmd
<1>2. Parts(amc) /\ Queue(amc)
  BY <1>1 DEF AmcInv
<1>3. Parts(a) /\ a.args = amc.args /\ a.cmds = amc.cmds /\ a.runner = amc.runner
  BY <1>2, BuilderFilled
<1> HIDE DEF a
<1>4. /\ Parts(amc') /\ Queue(amc') /\ amc'.runner = amc.runner
      /\ WholeScript(amc') = WholeScript(amc) /\ RunDirOf(amc') = RunDirOf(amc)
      /\ SetupBefore(amc') <=> SetupBefore(amc)
      /\ ~BuiltBefore(amc')
  BY <1>1, <1>2, <1>3, CommandDone
<1>5. ScriptAt(amc)' = ScriptAt(amc)
  BY <1>1, <1>4 DEF ScriptAt
<1> QED
  BY <1>1, <1>4, <1>5 DEF AmcInv

LEMMA ConfigureStep ==
    ASSUME AmcInv, Configure
    PROVE  AmcInv'
<1> DEFINE a == WithBuilder(amc)
<1>1. doing = "command" /\ amc.cmds # << >> /\ Head(amc.cmds) = "configure"
      /\ Done(a) /\ UNCHANGED << doing, runs, complained, exes >>
  BY DEF Configure, Cmd
<1>2. Parts(amc) /\ Queue(amc)
  BY <1>1 DEF AmcInv
<1>3. Parts(a) /\ a.args = amc.args /\ a.cmds = amc.cmds /\ a.runner = amc.runner
  BY <1>2, BuilderFilled
<1> HIDE DEF a
<1>4. /\ Parts(amc') /\ Queue(amc') /\ amc'.runner = amc.runner
      /\ ExeOf(amc') = ExeOf(amc)
      /\ WholeScript(amc') = WholeScript(amc) /\ RunDirOf(amc') = RunDirOf(amc)
      /\ SetupBefore(amc') <=> SetupBefore(amc)
      /\ BuiltBefore(amc') => BuiltBefore(amc)
  BY <1>1, <1>2, <1>3, CommandDone
<1>5. ScriptAt(amc)' = ScriptAt(amc)
  BY <1>1, <1>4 DEF ScriptAt
<1> QED
  BY <1>1, <1>4, <1>5 DEF AmcInv

(* A build that does not quit leaves the executable that a run looks for.  *)
LEMMA BuildCommandStep ==
    ASSUME AmcInv, Build
    PROVE  AmcInv'
<1> DEFINE a == WithBuilder(amc)
<1>1. CASE Quit
  BY <1>1, QuitStep
<1>2. CASE ~Quit
  <2>1. doing = "command" /\ amc.cmds # << >> /\ Head(amc.cmds) = "build"
        /\ Done(a) /\ UNCHANGED << doing, runs, complained >>
        /\ Resolve(a.exe, cwd) \in exes'
    BY <1>2 DEF Build, Cmd
  <2>2. Parts(amc) /\ Queue(amc)
    BY <2>1 DEF AmcInv
  <2>3. Parts(a) /\ a.args = amc.args /\ a.cmds = amc.cmds /\ a.runner = amc.runner
        /\ a.exe = ExePath(amc.args)
    BY <2>2, BuilderFilled
  <2> HIDE DEF a
  <2>4. /\ Parts(amc') /\ Queue(amc') /\ amc'.runner = amc.runner
        /\ ExeOf(amc') = ExeOf(amc)
        /\ WholeScript(amc') = WholeScript(amc) /\ RunDirOf(amc') = RunDirOf(amc)
        /\ SetupBefore(amc') <=> SetupBefore(amc)
    BY <2>1, <2>2, <2>3, CommandDone
  <2>5. ScriptAt(amc)' = ScriptAt(amc)
    BY <2>1, <2>4 DEF ScriptAt
  <2>6. ExeOf(amc') \in exes'
    BY <2>1, <2>3, <2>4, PathsLead
  <2> QED
    BY <2>1, <2>4, <2>5, <2>6 DEF AmcInv
<1> QED
  BY <1>1, <1>2

LEMMA SetAndGot ==
    ASSUME NEW f, NEW x, NEW value, NEW default
    PROVE  Get(Set(f, x, value), x, default) = value
BY DEF Get, Set

(* The script that a setup has written lies where it was asked for.        *)
LEMMA SetupScriptStep ==
    ASSUME AmcInv, SetupScript
    PROVE  AmcInv'
<1> DEFINE a == WithRunner(amc)
<1>1. doing = "command" /\ amc.cmds # << >> /\ Head(amc.cmds) = "setup"
      /\ UNCHANGED exes
  BY DEF SetupScript, Cmd
<1>2. Parts(amc) /\ Queue(amc) /\ (BuiltBefore(amc) => ExeOf(amc) \in exes)
  BY <1>1 DEF AmcInv
<1>3. /\ Parts(a) /\ a.args = amc.args /\ a.cmds = amc.cmds
      /\ a.runner = << RunPath(amc.args), ExePath(amc.args) >>
  BY <1>2, RunnerFilled
<1>4. a.runner # NoRunner /\ a.runner[1] = RunPath(amc.args)
  BY <1>3, RunnerIsOne
<1>5. CASE /\ runs' = Set(runs, Resolve(BenchmarkDir(a), SetupDir), Fresh)
           /\ amc' = a
           /\ doing' = "rewrite"
  <2> HIDE DEF a
  <2>1. Resolve(BenchmarkDir(a), SetupDir) = RunDirOf(amc)
    BY <1>4, PathsLead DEF BenchmarkDir
  <2>2. RunDirOf(amc') = RunDirOf(amc) /\ ExeOf(amc') = ExeOf(amc) /\ Queue(amc')
        /\ (BuiltBefore(amc') <=> BuiltBefore(amc))
    BY <1>2, <1>3, <1>5, SameLine
  <2>3. ScriptAt(amc)' = Fresh
    BY <1>5, <2>1, <2>2, SetAndGot DEF ScriptAt
  <2>4. amc'.cmds # << >> /\ Head(amc'.cmds) = "setup"
    BY <1>1, <1>3, <1>5
  <2> QED
    BY <1>1, <1>2, <1>3, <1>4, <1>5, <2>2, <2>3, <2>4 DEF AmcInv
<1>6. CASE complained' = TRUE /\ Done(a) /\ UNCHANGED doing
  <2> HIDE DEF a
  <2>1. /\ Parts(amc') /\ Queue(amc') /\ amc'.runner = a.runner
        /\ ExeOf(amc') = ExeOf(amc)
        /\ BuiltBefore(amc') => BuiltBefore(amc)
    BY <1>1, <1>2, <1>3, <1>6, CommandDone
  <2> QED
    BY <1>1, <1>2, <1>4, <1>6, <2>1 DEF AmcInv
<1> QED
  BY <1>5, <1>6 DEF SetupScript

(* The settings come in once, and with the executable that was asked for.  *)
LEMMA Rewriting ==
    ASSUME AmcInv, RewriteRun
    PROVE  /\ doing = "rewrite" /\ doing' = "command" /\ UNCHANGED exes
           /\ amc.cmds # << >> /\ Head(amc.cmds) = "setup"
           /\ Parts(amc) /\ Queue(amc)
           /\ amc.runner # NoRunner /\ Done(amc)
           /\ runs' = Set(runs, RunDirOf(amc), WholeScript(amc))
<1>1. doing = "rewrite" /\ doing' = "command" /\ Done(amc) /\ UNCHANGED exes
  BY DEF RewriteRun
<1>2. /\ Parts(amc) /\ Queue(amc) /\ amc.cmds # << >> /\ Head(amc.cmds) = "setup"
      /\ amc.runner # NoRunner /\ ScriptAt(amc) = Fresh
  BY <1>1 DEF AmcInv
<1>3. amc.runner = << RunPath(amc.args), ExePath(amc.args) >>
  BY <1>2 DEF Parts
<1>4. /\ Resolve(BenchmarkDir(amc), cwd) = RunDirOf(amc)
      /\ Resolve(amc.runner[2], cwd) = ExeOf(amc)
  BY <1>3, RunnerIsOne, PathsLead DEF BenchmarkDir
<1>5. RunScript = Fresh
  BY <1>2, <1>4 DEF RunScript, ScriptAt
<1>6. Rewritten(Fresh, ExeOf(amc)) = WholeScript(amc)
  <2> DEFINE e == ExeOf(amc)
  <2>1. << e >> \o << >> = << e >>
    <3>1. << e >> \in Seq({e})
      OBVIOUS
    <3> QED
      BY <3>1, ConcatEmptySeq
  <2>2. WholeScript(amc) = [there |-> TRUE, whole |-> TRUE, models |-> << e >>, args |-> 1]
    BY DEF WholeScript
  <2>3. Rewritten(Fresh, e) =
            [there |-> TRUE, whole |-> TRUE, models |-> << e >> \o << >>, args |-> 0 + 1]
    <3> DEFINE m == << e >> \o << >>
               n == 0 + 1
    <3>1. Rewritten(Fresh, e) =
              [Fresh EXCEPT !.models = << e >> \o Fresh.models, !.args = Fresh.args + 1,
                            !.whole = TRUE]
      BY DEF Rewritten
    <3>2. Fresh.models = << >> /\ Fresh.args = 0
      BY DEF Fresh
    <3>3. Rewritten(Fresh, e) = [Fresh EXCEPT !.models = m, !.args = n, !.whole = TRUE]
      BY <3>1, <3>2, Zenon
    <3> HIDE DEF m, n
    <3>4. [Fresh EXCEPT !.models = m, !.args = n, !.whole = TRUE] =
              [there |-> TRUE, whole |-> TRUE, models |-> m, args |-> n]
      <4> DEFINE F == {"there", "whole", "models", "args"}
                 r == [Fresh EXCEPT !.models = m, !.args = n, !.whole = TRUE]
                 q == [there |-> TRUE, whole |-> TRUE, models |-> m, args |-> n]
      <4>1. r = [f \in F |-> r[f]] /\ q = [f \in F |-> q[f]]
        BY DEF Fresh
      <4>2. \A f \in F : r[f] = q[f]
        <5>1. r.there = TRUE
          BY DEF Fresh
        <5>2. r.whole = TRUE
          BY DEF Fresh
        <5>3. r.models = m
          BY DEF Fresh
        <5>4. r.args = n
          BY DEF Fresh
        <5>5. q.there = TRUE /\ q.whole = TRUE /\ q.models = m /\ q.args = n
          OBVIOUS
        <5> HIDE DEF r, q
        <5> QED
          BY <5>1, <5>2, <5>3, <5>4, <5>5
      <4> HIDE DEF F, r, q
      <4>3. r = q
        BY <4>1, <4>2
      <4> QED
        BY <4>3 DEF r, q
    <3> QED
      BY <3>3, <3>4 DEF m, n
  <2> HIDE DEF e
  <2> QED
    BY <2>1, <2>2, <2>3 DEF e
<1>7. runs' = Set(runs, Resolve(BenchmarkDir(amc), cwd),
                  Rewritten(RunScript, Resolve(amc.runner[2], cwd)))
  BY DEF RewriteRun
<1> QED
  BY <1>1, <1>2, <1>4, <1>5, <1>6, <1>7

LEMMA RewriteStep ==
    ASSUME AmcInv, RewriteRun
    PROVE  AmcInv'
<1>1. /\ Parts(amc) /\ Queue(amc) /\ amc.cmds # << >> /\ Head(amc.cmds) = "setup"
      /\ amc.runner # NoRunner /\ Done(amc) /\ doing = "rewrite" /\ doing' = "command"
      /\ UNCHANGED exes
      /\ runs' = Set(runs, RunDirOf(amc), WholeScript(amc))
  BY Rewriting
<1>2. /\ Parts(amc') /\ Queue(amc') /\ amc'.runner = amc.runner
      /\ ExeOf(amc') = ExeOf(amc)
      /\ WholeScript(amc') = WholeScript(amc) /\ RunDirOf(amc') = RunDirOf(amc)
      /\ BuiltBefore(amc') => BuiltBefore(amc)
  BY <1>1, CommandDone
<1>3. ScriptAt(amc)' = WholeScript(amc')
  BY <1>1, <1>2, SetAndGot DEF ScriptAt
<1> QED
  BY <1>1, <1>2, <1>3 DEF AmcInv

(* A setup that fails behind its script is said to have failed.            *)
LEMMA RewriteFailsStep ==
    ASSUME AmcInv, RewriteFails
    PROVE  AmcInv'
<1>1. doing = "rewrite" /\ doing' = "command" /\ complained' = TRUE /\ Done(amc)
      /\ UNCHANGED exes
  BY DEF RewriteFails
<1>2. /\ Parts(amc) /\ Queue(amc) /\ amc.cmds # << >> /\ amc.runner # NoRunner
      /\ Head(amc.cmds) = "setup" /\ (BuiltBefore(amc) => ExeOf(amc) \in exes)
  BY <1>1 DEF AmcInv
<1>3. /\ Parts(amc') /\ Queue(amc') /\ amc'.runner = amc.runner
      /\ ExeOf(amc') = ExeOf(amc)
      /\ BuiltBefore(amc') => BuiltBefore(amc)
  BY <1>1, <1>2, CommandDone
<1> QED
  BY <1>1, <1>2, <1>3 DEF AmcInv

LEMMA RunStep ==
    ASSUME AmcInv, Run
    PROVE  AmcInv'
<1> DEFINE a == WithRunner(amc)
<1>1. doing = "command" /\ amc.cmds # << >> /\ Head(amc.cmds) = "run"
      /\ Done(a) /\ UNCHANGED << doing, runs, complained, exes >>
  BY DEF Run, Cmd
<1>2. Parts(amc) /\ Queue(amc)
  BY <1>1 DEF AmcInv
<1>3. /\ Parts(a) /\ a.args = amc.args /\ a.cmds = amc.cmds
      /\ a.runner = << RunPath(amc.args), ExePath(amc.args) >>
  BY <1>2, RunnerFilled
<1>4. a.runner # NoRunner
  BY <1>3, RunnerIsOne
<1> HIDE DEF a
<1>5. /\ Parts(amc') /\ Queue(amc') /\ amc'.runner = a.runner
      /\ ExeOf(amc') = ExeOf(amc)
      /\ WholeScript(amc') = WholeScript(amc) /\ RunDirOf(amc') = RunDirOf(amc)
      /\ SetupBefore(amc') <=> SetupBefore(amc)
      /\ BuiltBefore(amc') => BuiltBefore(amc)
  BY <1>1, <1>2, <1>3, CommandDone
<1>6. ScriptAt(amc)' = ScriptAt(amc)
  BY <1>1, <1>5 DEF ScriptAt
<1> QED
  BY <1>1, <1>4, <1>5, <1>6 DEF AmcInv

LEMMA NextAmc ==
    ASSUME AmcInv, AmcNext
    PROVE  AmcInv'
<1>1. CASE \E args \in CommandLines : ProcessCommandLine(args)
  BY <1>1, CalledStep
<1>2. CASE AllDone \/ Unknown \/ NoModel \/ NoBenchmark \/ Killed
  <2>1. Quit
    BY <1>2 DEF AllDone, Unknown, NoModel, NoBenchmark, Killed
  <2> QED
    BY <2>1, QuitStep
<1>3. CASE Nuke
  BY <1>3, NukeStep
<1>4. CASE Configure
  BY <1>4, ConfigureStep
<1>5. CASE Build
  BY <1>5, BuildCommandStep
<1>6. CASE SetupScript
  BY <1>6, SetupScriptStep
<1>7. CASE RewriteRun
  BY <1>7, RewriteStep
<1>8. CASE RewriteFails
  BY <1>8, RewriteFailsStep
<1>9. CASE Run
  BY <1>9, RunStep
<1> QED
  BY <1>1, <1>2, <1>3, <1>4, <1>5, <1>6, <1>7, <1>8, <1>9 DEF AmcNext

LEMMA StillAmc ==
    ASSUME AmcInv, UNCHANGED amcVars
    PROVE  AmcInv'
<1>1. UNCHANGED << amc, doing, exes, runs, complained >>
  BY DEF amcVars
<1>2. ScriptAt(amc)' = ScriptAt(amc)
  BY <1>1 DEF ScriptAt
<1> QED
  BY <1>1, <1>2 DEF AmcInv

(* Whatever commands a call of amc has been given before, a run finds the  *)
(* complete script of this call's last setup, naming the executable it     *)
(* asked for, unless amc has said that it failed; and behind a build it    *)
(* finds the executable (SetupBenchmarkRunner, ModelBuilder::RunMake).     *)
LEMMA AmcPrepared == AmcInv => RunIsPrepared
<1> SUFFICES ASSUME AmcInv, doing = "command", amc.cmds # << >>, Head(amc.cmds) = "run"
             PROVE  /\ SetupBefore(amc) /\ ~complained =>
                          LET script == Get(runs, Resolve(BenchmarkDir(amc), cwd), NoScript)
                          IN  script.whole /\ script.models = << ExeOf(amc) >>
                    /\ BuiltBefore(amc) => ExeOf(amc) \in exes
  BY DEF RunIsPrepared, RunUsesSetup, RunHasExe
<1>1. ASSUME SetupBefore(amc), ~complained
      PROVE  LET script == Get(runs, Resolve(BenchmarkDir(amc), cwd), NoScript)
             IN  script.whole /\ script.models = << ExeOf(amc) >>
  <2>1. amc.runner = << RunPath(amc.args), ExePath(amc.args) >>
    BY <1>1 DEF AmcInv, Parts
  <2>2. Resolve(BenchmarkDir(amc), cwd) = RunDirOf(amc)
    BY <2>1, RunnerIsOne, PathsLead DEF BenchmarkDir
  <2>3. ScriptAt(amc) = WholeScript(amc)
    BY <1>1 DEF AmcInv
  <2> QED
    BY <2>2, <2>3 DEF ScriptAt, WholeScript
<1> QED
  BY <1>1 DEF AmcInv

LEMMA AmcInvariant == AmcSpec => []AmcInv
<1>1. AmcInv /\ [AmcNext]_amcVars => AmcInv'
  BY NextAmc, StillAmc
<1> QED
  BY <1>1, InitAmc, PTL DEF AmcSpec

THEOREM RunIsPreparedHolds == AmcSpec => []RunIsPrepared
BY AmcInvariant, AmcPrepared, PTL

(* A setup that is not said to have failed leaves the run script of the    *)
(* directory that was asked for complete, with the settings once and the   *)
(* executable that was asked for, whatever an earlier call, killed or not, *)
(* or a setup that failed has left there (SetupBenchmarkRunner,            *)
(* BenchmarkRunner's rewriting of the run script).                         *)
THEOREM SetupIsWholeHolds == AmcSpec => SetupIsWhole
<1> DEFINE Whole ==
        doing = "rewrite" /\ amc' # NoProcess /\ ~complained' =>
            Get(runs', RunDirOf(amc), NoScript) =
                [there |-> TRUE, whole |-> TRUE, models |-> << ExeOf(amc) >>, args |-> 1]
<1>1. AmcInv /\ [AmcNext]_amcVars => [Whole]_amcVars
  <2> SUFFICES ASSUME AmcInv, AmcNext, doing = "rewrite", amc' # NoProcess, ~complained'
               PROVE  Get(runs', RunDirOf(amc), NoScript) = WholeScript(amc)
    BY DEF WholeScript
  <2>1. RewriteRun
    BY DEF AmcNext, ProcessCommandLine, AllDone, Unknown, NoModel, NoBenchmark, Nuke,
           Configure, Build, SetupScript, RewriteFails, Killed, Run, Cmd, Quit
  <2> QED
    BY <2>1, Rewriting, SetAndGot
<1>2. AmcSpec => [][Whole]_amcVars
  BY <1>1, AmcInvariant, PTL DEF AmcSpec
<1> QED
  BY <1>2 DEF SetupIsWhole

-----------------------------------------------------------------------------
(* The tree of module instances, for every set of model files.             *)
(*                                                                         *)
(* An instance is made by one call, waits in the frame of that call until  *)
(* all of its types are looked at, is then what the call returns, and is   *)
(* attached or dropped by the caller.  Until then it is held, by one frame *)
(* or as the returned value, and stands nowhere in the tree.               *)
FrameFields == {"apm", "group", "node", "idx"}
NodeFields  == {"file", "group", "params", "subs"}
Instances   == 1..Len(nodes)

TreeShape ==
    /\ frames \in Seq(ToSet(frames)) /\ nodes \in Seq(ToSet(nodes))
    /\ \A i \in 1..Len(frames) :
          DOMAIN frames[i] = FrameFields /\ frames[i].node \in {Null} \cup Instances
    /\ ret \in {Pending, Null} \cup Instances
    /\ \A n \in Instances :
          /\ DOMAIN nodes[n] = NodeFields
          /\ DOMAIN nodes[n].subs = DOMAIN Requires(n)
          /\ \A k \in DOMAIN nodes[n].subs : nodes[n].subs[k] \in {Null} \cup Instances

(* What an inner call holds was made later.                                *)
HeldInOrder ==
    \A i \in 1..Len(frames) :
        frames[i].node # Null =>
            /\ ret \notin {Pending, Null} => frames[i].node < ret
            /\ \A j \in 1..Len(frames) :
                  i < j /\ frames[j].node # Null => frames[i].node < frames[j].node

Held(x) == x # Null /\ (ret = x \/ \E i \in 1..Len(frames) : frames[i].node = x)

HeldFree ==
    \A n \in Instances : \A k \in DOMAIN nodes[n].subs : ~Held(nodes[n].subs[k])

Once ==
    \A n, m \in Instances :
        \A k \in DOMAIN nodes[n].subs, l \in DOMAIN nodes[m].subs :
            nodes[n].subs[k] # Null /\ nodes[n].subs[k] = nodes[m].subs[l]
            => n = m /\ k = l

Later ==
    \A n \in Instances : \A k \in DOMAIN nodes[n].subs :
        nodes[n].subs[k] # Null => n < nodes[n].subs[k]

TreeInv ==
    TreeShape /\ HeldInOrder /\ HeldFree /\ Once /\ Later /\ WrongNeverAttached

(* A sequence is one of its own elements.                                  *)
LEMMA OfItsOwn ==
    ASSUME NEW S, NEW s \in Seq(S)
    PROVE  s \in Seq(ToSet(s))
BY DEF ToSet

LEMMA InitTree == TreeInit => TreeInv
BY DEF TreeInit, TreeInv, TreeShape, HeldInOrder, HeldFree, Held, Once, Later,
       WrongNeverAttached, Instances, ToSet

(* What moves between the calls and changes no instance.                   *)
LEMMA CallsMove ==
    ASSUME TreeInv, UNCHANGED nodes,
           frames' \in Seq(ToSet(frames')),
           \A i \in 1..Len(frames') :
              DOMAIN frames'[i] = FrameFields /\ frames'[i].node \in {Null} \cup Instances,
           ret' \in {Pending, Null} \cup Instances,
           HeldInOrder',
           \A x : Held(x)' /\ x # Pending => Held(x)
    PROVE  TreeInv'
<1>1. Instances' = Instances /\ \A n : Requires(n)' = Requires(n) /\ Provides(n)' = Provides(n)
  BY DEF Instances, Requires, Provides, Module
<1>2. TreeShape'
  BY <1>1 DEF TreeInv, TreeShape
<1>3. HeldFree'
  <2> SUFFICES ASSUME NEW n \in Instances, NEW k \in DOMAIN nodes[n].subs
               PROVE  ~Held(nodes[n].subs[k])'
    BY <1>1 DEF HeldFree
  <2>1. nodes[n].subs[k] \in {Null} \cup Instances /\ ~Held(nodes[n].subs[k])
    BY DEF TreeInv, TreeShape, HeldFree
  <2>2. nodes[n].subs[k] # Pending
    BY <2>1 DEF Pending, Null, Instances
  <2> QED
    BY <2>1, <2>2 DEF Held
<1>4. Once' /\ Later'
  BY <1>1 DEF TreeInv, Once, Later
<1>5. WrongNeverAttached'
  BY <1>1 DEF TreeInv, WrongNeverAttached
<1> QED
  BY <1>2, <1>3, <1>4, <1>5 DEF TreeInv

LEMMA FrontIs ==
    ASSUME NEW S, NEW s \in Seq(S), s # << >>
    PROVE  /\ Front(s) \in Seq(S) /\ Len(Front(s)) = Len(s) - 1
           /\ \A i \in 1..(Len(s) - 1) : Front(s)[i] = s[i]
           /\ Len(s) \in Nat \ {0}
<1>1. Len(s) \in Nat /\ Len(s) # 0
  OBVIOUS
<1> DEFINE n == Len(s) - 1
<1>2. Front(s) = SubSeq(s, 1, n)
  BY DEF Front
<1>3. n \in 0..Len(s)
  BY <1>1
<1>4. /\ SubSeq(s, 1, n) \in Seq(S) /\ Len(SubSeq(s, 1, n)) = n
      /\ \A i \in 1..n : SubSeq(s, 1, n)[i] = s[i]
  <2> HIDE DEF n
  <2>1. \A i \in 1..n : s[i] \in S
    BY <1>1, <1>3
  <2> QED
    BY <1>1, <1>3, <2>1
<1> QED
  BY <1>1, <1>2, <1>4

(* A call returns what it was given, an instance of its own or none.       *)
LEMMA Returned ==
    ASSUME TreeInv, UNCHANGED nodes, frames # << >>, NEW value,
           Return(value), value \in {Null, ret, Top.node}
    PROVE  TreeInv'
<1>1. /\ frames' = Front(frames) /\ ret' = value
      /\ frames' \in Seq(ToSet(frames)) /\ Len(frames') = Len(frames) - 1
      /\ \A i \in 1..Len(frames') : frames'[i] = frames[i] /\ i \in 1..Len(frames) /\ i # Len(frames)
      /\ Len(frames) \in 1..Len(frames)
  <2>1. frames \in Seq(ToSet(frames))
    BY DEF TreeInv, TreeShape
  <2> QED
    BY <2>1, FrontIs DEF Return
<1>2. frames' \in Seq(ToSet(frames'))
  BY <1>1, OfItsOwn
<1>3. ret' \in {Pending, Null} \cup Instances
  BY <1>1 DEF TreeInv, TreeShape, Top
<1>4. \A i \in 1..Len(frames') :
          DOMAIN frames'[i] = FrameFields /\ frames'[i].node \in {Null} \cup Instances
  BY <1>1 DEF TreeInv, TreeShape
<1>5. HeldInOrder'
  <2>1. \A i \in 1..Len(frames') : i < Len(frames)
    BY <1>1
  <2>2. \A i \in 1..Len(frames') :
            frames[i].node # Null /\ Top.node # Null => frames[i].node < Top.node
    BY <1>1, <2>1 DEF TreeInv, HeldInOrder, Top
  <2>3. \A i \in 1..Len(frames') :
            frames[i].node # Null /\ ret' \notin {Pending, Null} => frames[i].node < ret'
    BY <1>1, <2>2 DEF TreeInv, HeldInOrder
  <2> QED
    BY <1>1, <2>3 DEF TreeInv, HeldInOrder
<1>6. \A x : Held(x)' => Held(x)
  BY <1>1 DEF Held, Top
<1> QED
  BY <1>2, <1>3, <1>4, <1>5, <1>6, CallsMove

(* A new call holds nothing yet.                                           *)
LEMMA Called ==
    ASSUME TreeInv, UNCHANGED nodes, NEW apm, NEW group, Call(Frame(apm, group))
    PROVE  TreeInv'
<1>1. CASE UNCHANGED << frames, ret >>
  <2>1. HeldInOrder' /\ \A x : Held(x)' => Held(x)
    BY <1>1 DEF TreeInv, HeldInOrder, Held
  <2> QED
    BY <1>1, <2>1, CallsMove DEF TreeInv, TreeShape
<1>2. CASE frames' = Append(frames, Frame(apm, group)) /\ ret' = ret
  <2> DEFINE f == Frame(apm, group)
  <2>1. DOMAIN f = FrameFields /\ f.node = Null
    BY DEF Frame, FrameFields
  <2> HIDE DEF f
  <2>2. frames \in Seq(ToSet(frames))
    BY DEF TreeInv, TreeShape
  <2>3. /\ Len(frames') = Len(frames) + 1 /\ Len(frames) \in Nat
        /\ \A i \in 1..Len(frames) : frames'[i] = frames[i]
        /\ frames'[Len(frames) + 1] = f
    BY <1>2, <2>2 DEF f
  <2>4. frames' \in Seq(ToSet(frames'))
    <3>1. frames \in Seq(ToSet(frames) \cup {f})
      BY <2>2
    <3>2. frames' \in Seq(ToSet(frames) \cup {f})
      BY <3>1, <1>2 DEF f
    <3> QED
      BY <3>2, OfItsOwn
  <2>5. \A i \in 1..Len(frames') : i \in 1..Len(frames) \/ frames'[i] = f
    BY <2>3
  <2>6. \A i \in 1..Len(frames') :
            DOMAIN frames'[i] = FrameFields /\ frames'[i].node \in {Null} \cup Instances
    BY <2>1, <2>3, <2>5 DEF TreeInv, TreeShape
  <2>7. HeldInOrder'
    BY <1>2, <2>1, <2>3, <2>5 DEF TreeInv, HeldInOrder
  <2>8. \A x : Held(x)' => Held(x)
    BY <1>2, <2>1, <2>3, <2>5 DEF Held
  <2>9. ret' \in {Pending, Null} \cup Instances
    BY <1>2 DEF TreeInv, TreeShape
  <2> QED
    BY <2>4, <2>6, <2>7, <2>8, <2>9, CallsMove
<1> QED
  BY <1>1, <1>2 DEF Call

(* The call at work goes on to the next of its types.                      *)
LEMMA GoesOn ==
    ASSUME TreeShape, frames # << >>, frames' = NextIdx
    PROVE  /\ frames' \in Seq(ToSet(frames')) /\ Len(frames') = Len(frames)
           /\ \A i \in 1..Len(frames) :
                 DOMAIN frames'[i] = FrameFields /\ frames'[i].node = frames[i].node
<1> DEFINE f == [Top EXCEPT !.idx = Top.idx + 1]
<1>1. frames \in Seq(ToSet(frames)) /\ Len(frames) \in 1..Len(frames)
  BY DEF TreeShape
<1>2. DOMAIN Top = FrameFields
  BY <1>1 DEF TreeShape, Top
<1>3. DOMAIN f = FrameFields /\ f.node = Top.node
  BY <1>2 DEF FrameFields
<1>4. frames' = [frames EXCEPT ![Len(frames)] = f]
  BY DEF NextIdx, Top
<1> HIDE DEF f
<1>5. frames' \in Seq(ToSet(frames) \cup {f}) /\ Len(frames') = Len(frames)
  BY <1>1, <1>4
<1>6. \A i \in 1..Len(frames) : frames'[i] = IF i = Len(frames) THEN f ELSE frames[i]
  BY <1>1, <1>4
<1> QED
  BY <1>3, <1>5, <1>6, OfItsOwn DEF TreeShape, Top

LEMMA PassedOver ==
    ASSUME TreeInv, UNCHANGED << nodes, ret >>, frames # << >>, frames' = NextIdx
    PROVE  TreeInv'
<1>1. /\ frames' \in Seq(ToSet(frames')) /\ Len(frames') = Len(frames)
      /\ \A i \in 1..Len(frames) :
            DOMAIN frames'[i] = FrameFields /\ frames'[i].node = frames[i].node
  BY GoesOn DEF TreeInv
<1>2. HeldInOrder' /\ \A x : Held(x)' => Held(x)
  BY <1>1 DEF TreeInv, HeldInOrder, Held
<1> QED
  BY <1>1, <1>2, CallsMove DEF TreeInv, TreeShape

(* A new instance has a number of its own and nothing below it.            *)
LEMMA Grown ==
    ASSUME TreeInv, nodes' = Append(nodes, Instance(Top)),
           NEW c, c = Len(nodes) + 1
    PROVE  /\ nodes' \in Seq(ToSet(nodes')) /\ Len(nodes) \in Nat
           /\ Instances' = Instances \cup {c}
           /\ c \notin Instances \cup {Null, Pending}
           /\ \A n \in Instances :
                 /\ nodes'[n] = nodes[n]
                 /\ Requires(n)' = Requires(n) /\ Provides(n)' = Provides(n)
           /\ DOMAIN nodes'[c] = NodeFields
           /\ DOMAIN nodes'[c].subs = DOMAIN Requires(c)'
           /\ \A k \in DOMAIN nodes'[c].subs :
                 nodes'[c].subs[k] = Null
<1> DEFINE m == Instance(Top)
<1>1. /\ DOMAIN m = NodeFields
      /\ DOMAIN m.subs = DOMAIN Awb[m.file].requires
      /\ \A k \in DOMAIN m.subs : m.subs[k] = Null
  BY DEF Instance, NodeFields
<1>2. nodes' = Append(nodes, m)
  OBVIOUS
<1> HIDE DEF m
<1>3. nodes \in Seq(ToSet(nodes))
  BY DEF TreeInv, TreeShape
<1>4. nodes' \in Seq(ToSet(nodes'))
  <2>1. nodes \in Seq(ToSet(nodes) \cup {m})
    BY <1>3
  <2>2. nodes' \in Seq(ToSet(nodes) \cup {m})
    BY <2>1, <1>2
  <2> QED
    BY <2>2, OfItsOwn
<1>5. /\ Len(nodes) \in Nat /\ Len(nodes') = Len(nodes) + 1
      /\ \A n \in 1..Len(nodes) : nodes'[n] = nodes[n]
      /\ nodes'[c] = m
  BY <1>2, <1>3
<1>6. Instances' = Instances \cup {c}
  BY <1>5 DEF Instances
<1>7. c \notin Instances \cup {Null, Pending}
  BY <1>5 DEF Instances, Null, Pending
<1>8. Requires(c)' = Awb[m.file].requires
  BY <1>5 DEF Requires, Module
<1>9. \A n \in Instances : Requires(n)' = Requires(n) /\ Provides(n)' = Provides(n)
  BY <1>5 DEF Instances, Requires, Provides, Module
<1> QED
  BY <1>1, <1>4, <1>5, <1>6, <1>7, <1>8, <1>9 DEF Instances

LEMMA EnterModuleStep ==
    ASSUME TreeInv, EnterModule
    PROVE  TreeInv'
<1> DEFINE c == Len(nodes) + 1
<1>1. /\ frames # << >> /\ ret = Pending /\ Top.node = Null
      /\ nodes' = Append(nodes, Instance(Top))
      /\ \/ Return(Null)
         \/ /\ frames' = [frames EXCEPT ![Len(frames)].node = c]
            /\ UNCHANGED ret
  BY Zenon DEF EnterModule, Entering
<1>2. PICK new : new = Len(nodes) + 1
  OBVIOUS
<1>3. /\ nodes' \in Seq(ToSet(nodes')) /\ Instances' = Instances \cup {new}
      /\ new \notin Instances \cup {Null, Pending}
      /\ \A n \in Instances :
            /\ nodes'[n] = nodes[n]
            /\ Requires(n)' = Requires(n) /\ Provides(n)' = Provides(n)
      /\ DOMAIN nodes'[new] = NodeFields
      /\ DOMAIN nodes'[new].subs = DOMAIN Requires(new)'
      /\ \A k \in DOMAIN nodes'[new].subs : nodes'[new].subs[k] = Null
  BY <1>1, <1>2, Grown
<1>4. /\ frames' \in Seq(ToSet(frames'))
      /\ \A i \in 1..Len(frames') :
            /\ DOMAIN frames'[i] = FrameFields
            /\ frames'[i].node \in {Null, new} \cup Instances
      /\ ret' \in {Pending, Null}
      /\ \A i, j \in 1..Len(frames') :
            i < j /\ frames'[i].node # Null /\ frames'[j].node # Null
            => frames'[i].node < frames'[j].node
      /\ \A x : Held(x)' => x \in {Pending, new} \/ Held(x)
  <2>1. CASE Return(Null)
    <3>1. /\ frames' = Front(frames) /\ ret' = Null
          /\ frames' \in Seq(ToSet(frames)) /\ Len(frames') = Len(frames) - 1
          /\ \A i \in 1..Len(frames') : frames'[i] = frames[i] /\ i \in 1..Len(frames)
      <4>1. frames \in Seq(ToSet(frames))
        BY DEF TreeInv, TreeShape
      <4> QED
        BY <1>1, <2>1, <4>1, FrontIs DEF Return
    <3>2. frames' \in Seq(ToSet(frames'))
      BY <3>1, OfItsOwn
    <3>3. \A x : Held(x)' => Held(x)
      BY <3>1 DEF Held
    <3>4. \A i \in 1..Len(frames') :
            /\ DOMAIN frames'[i] = FrameFields
            /\ frames'[i].node \in {Null, new} \cup Instances
      BY <3>1 DEF TreeInv, TreeShape
    <3>5. \A i, j \in 1..Len(frames') :
            i < j /\ frames'[i].node # Null /\ frames'[j].node # Null
            => frames'[i].node < frames'[j].node
      BY <3>1 DEF TreeInv, HeldInOrder
    <3> QED
      BY <3>1, <3>2, <3>3, <3>4, <3>5
  <2>2. CASE frames' = [frames EXCEPT ![Len(frames)].node = new] /\ UNCHANGED ret
    <3> DEFINE f == [Top EXCEPT !.node = new]
    <3>1. frames \in Seq(ToSet(frames)) /\ Len(frames) \in 1..Len(frames)
      BY <1>1 DEF TreeInv, TreeShape
    <3>2. DOMAIN Top = FrameFields
      BY <3>1 DEF TreeInv, TreeShape, Top
    <3>3. DOMAIN f = FrameFields /\ f.node = new
      BY <3>2 DEF FrameFields
    <3>4. frames' = [frames EXCEPT ![Len(frames)] = f]
      BY <2>2 DEF Top
    <3> HIDE DEF f
    <3>5. frames' \in Seq(ToSet(frames) \cup {f}) /\ Len(frames') = Len(frames)
      BY <3>1, <3>4
    <3>6. \A i \in 1..Len(frames) : frames'[i] = IF i = Len(frames) THEN f ELSE frames[i]
      BY <3>1, <3>4
    <3>7. frames' \in Seq(ToSet(frames'))
      BY <3>5, OfItsOwn
    <3>8. \A i \in 1..Len(frames') :
            /\ DOMAIN frames'[i] = FrameFields
            /\ frames'[i].node \in {Null, new} \cup Instances
      BY <3>3, <3>5, <3>6 DEF TreeInv, TreeShape
    <3>9. \A i, j \in 1..Len(frames') :
            i < j /\ frames'[i].node # Null /\ frames'[j].node # Null
            => frames'[i].node < frames'[j].node
      <4>1. \A i \in 1..Len(frames) : frames[i].node < new
        BY <1>2, <1>3 DEF TreeInv, TreeShape, Instances, Null
      <4> QED
        BY <3>3, <3>5, <3>6, <4>1 DEF TreeInv, HeldInOrder
    <3>10. \A x : Held(x)' => x = new \/ Held(x)
      BY <2>2, <3>3, <3>5, <3>6 DEF Held
    <3> QED
      BY <1>1, <2>2, <3>7, <3>8, <3>9, <3>10
  <2> QED
    BY <1>1, <1>2, <2>1, <2>2
<1>5. TreeShape'
  <2>1. \A n \in Instances' :
          /\ DOMAIN nodes'[n] = NodeFields
          /\ DOMAIN nodes'[n].subs = DOMAIN Requires(n)'
          /\ \A k \in DOMAIN nodes'[n].subs :
                nodes'[n].subs[k] \in {Null} \cup Instances'
    BY <1>3 DEF TreeInv, TreeShape
  <2>2. \A i \in 1..Len(frames') :
            DOMAIN frames'[i] = FrameFields /\ frames'[i].node \in {Null} \cup Instances'
    BY <1>3, <1>4
  <2> QED
    BY <1>3, <1>4, <2>1, <2>2 DEF TreeShape
<1>6. HeldInOrder'
  BY <1>4 DEF HeldInOrder
<1>7. HeldFree'
  <2> SUFFICES ASSUME NEW n \in Instances', NEW k \in DOMAIN nodes'[n].subs,
                      NEW x, x = nodes'[n].subs[k]
               PROVE  ~Held(x)'
    BY DEF HeldFree
  <2>1. CASE n = new
    BY <2>1, <1>3 DEF Held
  <2>2. CASE n \in Instances
    <3>1. /\ nodes'[n] = nodes[n] /\ ~Held(nodes[n].subs[k])
          /\ nodes[n].subs[k] \in {Null} \cup Instances
      BY <2>2, <1>3 DEF TreeInv, TreeShape, HeldFree
    <3>2. nodes[n].subs[k] \notin {Pending, new}
      BY <3>1, <1>3 DEF Instances, Null, Pending
    <3> QED
      BY <3>1, <3>2, <1>4
  <2> QED
    BY <2>1, <2>2, <1>3
<1>8. Once' /\ Later'
  <2>1. Once'
    BY <1>3 DEF TreeInv, Once
  <2>2. Later'
    BY <1>3 DEF TreeInv, Later
  <2> QED
    BY <2>1, <2>2
<1>9. WrongNeverAttached'
  <2> SUFFICES ASSUME NEW n \in Instances', NEW k \in DOMAIN nodes'[n].subs,
                      NEW x, x = nodes'[n].subs[k], x # Null
               PROVE  Provides(x)' = Requires(n)'[k]
    <3>1. DOMAIN nodes' = Instances'
      BY <1>3 DEF Instances
    <3> QED
      BY <3>1 DEF WrongNeverAttached
  <2>1. n \in Instances /\ nodes'[n] = nodes[n]
    BY <1>3
  <2>2. nodes[n].subs[k] \in Instances
    BY <2>1 DEF TreeInv, TreeShape
  <2>3. Provides(nodes[n].subs[k]) = Requires(n)[k]
    BY <2>1 DEF TreeInv, TreeShape, WrongNeverAttached, Instances
  <2> QED
    BY <1>3, <2>1, <2>2, <2>3
<1> QED
  BY <1>5, <1>6, <1>7, <1>8, <1>9 DEF TreeInv

Attach(t, j, v) == nodes' = [nodes EXCEPT ![t].subs[j] = v]

(* What is attached is what was returned, if it provides what is wanted.   *)
LEMMA Attached ==
    ASSUME TreeInv, SetSubModule
    PROVE  \E v :
              /\ v \in {Null, ret} /\ (v # Null => Provides(v) = Requires(Top.node)[Top.idx])
              /\ Attach(Top.node, Top.idx, v)
BY DEF SetSubModule, Wanted, Attach

LEMMA Changed ==
    ASSUME TreeInv, NEW t \in Instances, NEW j, NEW v, Attach(t, j, v)
    PROVE  /\ nodes' \in Seq(ToSet(nodes')) /\ Instances' = Instances
           /\ \A n \in Instances :
                 /\ DOMAIN nodes'[n] = NodeFields
                 /\ Requires(n)' = Requires(n) /\ Provides(n)' = Provides(n)
                 /\ DOMAIN nodes'[n].subs = DOMAIN nodes[n].subs
                 /\ \A k \in DOMAIN nodes[n].subs :
                       nodes'[n].subs[k] = IF n = t /\ k = j THEN v ELSE nodes[n].subs[k]
<1> DEFINE s == [nodes[t].subs EXCEPT ![j] = v]
           m == [nodes[t] EXCEPT !.subs = s]
<1>1. nodes \in Seq(ToSet(nodes)) /\ DOMAIN nodes[t] = NodeFields
  BY DEF TreeInv, TreeShape
<1>2. /\ DOMAIN s = DOMAIN nodes[t].subs
      /\ \A k \in DOMAIN nodes[t].subs : s[k] = IF k = j THEN v ELSE nodes[t].subs[k]
  OBVIOUS
<1>3. nodes' = [nodes EXCEPT ![t] = m]
  BY DEF Attach
<1> HIDE DEF s
<1>4. DOMAIN m = NodeFields /\ m.subs = s /\ m.file = nodes[t].file
  BY <1>1 DEF NodeFields
<1> HIDE DEF m
<1>5. nodes' \in Seq(ToSet(nodes) \cup {m}) /\ Len(nodes') = Len(nodes)
  BY <1>1, <1>3 DEF Instances
<1>6. Instances' = Instances
  BY <1>5 DEF Instances
<1>7. \A n \in Instances : nodes'[n] = IF n = t THEN m ELSE nodes[n]
  BY <1>1, <1>3 DEF Instances
<1>8. \A n \in Instances : nodes'[n].file = nodes[n].file
  BY <1>4, <1>7
<1>9. \A n \in Instances : Requires(n)' = Requires(n) /\ Provides(n)' = Provides(n)
  BY <1>8 DEF Requires, Provides, Module
<1>10. nodes' \in Seq(ToSet(nodes'))
  BY <1>5, OfItsOwn
<1>11. \A n \in Instances :
          /\ DOMAIN nodes'[n] = NodeFields
          /\ DOMAIN nodes'[n].subs = DOMAIN nodes[n].subs
          /\ \A k \in DOMAIN nodes[n].subs :
                nodes'[n].subs[k] = IF n = t /\ k = j THEN v ELSE nodes[n].subs[k]
  <2> SUFFICES ASSUME NEW n \in Instances
               PROVE  /\ DOMAIN nodes'[n] = NodeFields
                      /\ DOMAIN nodes'[n].subs = DOMAIN nodes[n].subs
                      /\ \A k \in DOMAIN nodes[n].subs :
                            nodes'[n].subs[k] =
                               IF n = t /\ k = j THEN v ELSE nodes[n].subs[k]
    OBVIOUS
  <2>1. CASE n = t
    BY <2>1, <1>2, <1>4, <1>7
  <2>2. CASE n # t
    BY <2>2, <1>7 DEF TreeInv, TreeShape
  <2> QED
    BY <2>1, <2>2
<1> QED
  BY <1>6, <1>9, <1>10, <1>11

LEMMA SetSubModuleStep ==
    ASSUME TreeInv, SetSubModule
    PROVE  TreeInv'
<1>0. PICK t, j : t = Top.node /\ j = Top.idx
  OBVIOUS
<1>1. /\ frames # << >> /\ t # Null /\ ret # Pending
      /\ frames' = NextIdx /\ ret' = Pending
  BY <1>0, Zenon DEF SetSubModule, Looping
<1>2. PICK v : /\ v \in {Null, ret} /\ (v # Null => Provides(v) = Requires(t)[j])
               /\ Attach(t, j, v)
  BY <1>0, Attached
<1>3. /\ Len(frames) \in 1..Len(frames) /\ t = frames[Len(frames)].node
      /\ t \in Instances /\ ret \in {Null} \cup Instances
      /\ ret # Null => t < ret
  <2>1. Len(frames) \in 1..Len(frames)
    BY <1>1 DEF TreeInv, TreeShape
  <2>2. t = frames[Len(frames)].node /\ t \in Instances /\ ret \in {Null} \cup Instances
    BY <1>0, <1>1, <2>1 DEF TreeInv, TreeShape, Top
  <2> QED
    BY <1>1, <2>1, <2>2 DEF TreeInv, HeldInOrder
<1>4. /\ nodes' \in Seq(ToSet(nodes')) /\ Instances' = Instances
      /\ \A n \in Instances :
            /\ DOMAIN nodes'[n] = NodeFields
            /\ Requires(n)' = Requires(n) /\ Provides(n)' = Provides(n)
            /\ DOMAIN nodes'[n].subs = DOMAIN nodes[n].subs
            /\ \A k \in DOMAIN nodes[n].subs :
                  nodes'[n].subs[k] = IF n = t /\ k = j THEN v ELSE nodes[n].subs[k]
  BY <1>2, <1>3, Changed
<1>5. /\ frames' \in Seq(ToSet(frames')) /\ Len(frames') = Len(frames)
      /\ \A i \in 1..Len(frames) :
            DOMAIN frames'[i] = FrameFields /\ frames'[i].node = frames[i].node
  BY <1>1, GoesOn DEF TreeInv
<1>6. v \in {Null} \cup Instances /\ (v # Null => t < v)
  BY <1>1, <1>2, <1>3
<1>7. TreeShape'
  <2>1. \A n \in Instances' :
          /\ DOMAIN nodes'[n] = NodeFields
          /\ DOMAIN nodes'[n].subs = DOMAIN Requires(n)'
          /\ \A k \in DOMAIN nodes'[n].subs :
                nodes'[n].subs[k] \in {Null} \cup Instances'
    BY <1>4, <1>6 DEF TreeInv, TreeShape
  <2>2. \A i \in 1..Len(frames') :
            DOMAIN frames'[i] = FrameFields /\ frames'[i].node \in {Null} \cup Instances'
    BY <1>4, <1>5 DEF TreeInv, TreeShape
  <2> QED
    BY <1>1, <1>4, <1>5, <2>1, <2>2 DEF TreeShape
<1>8. HeldInOrder'
  BY <1>1, <1>5 DEF TreeInv, HeldInOrder
<1>9. HeldFree'
  <2> SUFFICES ASSUME NEW n \in Instances, NEW k \in DOMAIN nodes[n].subs,
                      NEW x, x = nodes'[n].subs[k]
               PROVE  ~Held(x)'
    BY <1>4 DEF HeldFree
  <2>1. x \in {v, nodes[n].subs[k]} /\ x \in {Null} \cup Instances
    BY <1>4, <1>6 DEF TreeInv, TreeShape
  <2>2. x # Pending
    BY <2>1 DEF Instances, Null, Pending
  <2>3. CASE x = v
    <3>1. \A i \in 1..Len(frames) : frames[i].node # Null => frames[i].node # ret
      <4>1. \A m \in Instances : ~(m < m)
        BY DEF Instances, TreeInv, TreeShape
      <4> QED
        BY <1>1, <1>3, <4>1 DEF TreeInv, TreeShape, HeldInOrder
    <3> QED
      BY <2>2, <2>3, <3>1, <1>1, <1>2, <1>5 DEF Held
  <2>4. CASE x = nodes[n].subs[k]
    BY <2>2, <2>4, <1>1, <1>5 DEF Held, TreeInv, HeldFree
  <2> QED
    BY <2>1, <2>3, <2>4
<1>10. \A n \in Instances : \A k \in DOMAIN nodes[n].subs :
          v # Null => nodes[n].subs[k] # v
  BY <1>2 DEF TreeInv, HeldFree, Held
<1>11. Once'
  BY <1>4, <1>10 DEF TreeInv, Once
<1>12. Later'
  BY <1>4, <1>6 DEF TreeInv, Later
<1>13. WrongNeverAttached'
  <2> SUFFICES ASSUME NEW n \in Instances, NEW k \in DOMAIN nodes[n].subs,
                      NEW x, x = nodes'[n].subs[k], x # Null
               PROVE  Provides(x)' = Requires(n)'[k]
    <3>1. DOMAIN nodes' = Instances'
      BY <1>4 DEF Instances
    <3> QED
      BY <3>1, <1>4 DEF WrongNeverAttached
  <2>1. x \in Instances
    BY <1>4, <1>6 DEF TreeInv, TreeShape
  <2>2. Provides(x) = Requires(n)[k]
    <3>1. CASE n = t /\ k = j
      BY <3>1, <1>2, <1>4
    <3>2. CASE ~(n = t /\ k = j)
      BY <3>2, <1>4 DEF TreeInv, TreeShape, WrongNeverAttached, Instances
    <3> QED
      BY <3>1, <3>2
  <2> QED
    BY <1>4, <2>1, <2>2
<1> QED
  BY <1>7, <1>8, <1>9, <1>11, <1>12, <1>13 DEF TreeInv

-----------------------------------------------------------------------------
LEMMA ModelParseStep ==
    ASSUME TreeInv, NEW apm, ModelParse(apm)
    PROVE  TreeInv'
<1> DEFINE f == Frame(apm, apms[apm].root)
<1>1. nodes' = nodes /\ ret' = ret /\ (frames' = << f >> \/ frames' = frames)
  BY Zenon DEF ModelParse
<1>2. DOMAIN f = FrameFields /\ f.node = Null
  BY DEF Frame, FrameFields
<1> HIDE DEF f
<1>3. CASE frames' = frames
  <2>1. HeldInOrder' /\ \A x : Held(x)' => Held(x)
    BY <1>1, <1>3 DEF TreeInv, HeldInOrder, Held
  <2> QED
    BY <1>1, <1>3, <2>1, CallsMove DEF TreeInv, TreeShape
<1>4. CASE frames' = << f >>
  <2>1. frames' \in Seq({f}) /\ Len(frames') = 1 /\ frames'[1] = f
    BY <1>4
  <2>2. frames' \in Seq(ToSet(frames'))
    BY <2>1, OfItsOwn
  <2>3. HeldInOrder' /\ \A x : Held(x)' => Held(x)
    BY <1>1, <1>2, <2>1 DEF HeldInOrder, Held
  <2> QED
    BY <1>1, <1>2, <2>1, <2>2, <2>3, CallsMove DEF TreeInv, TreeShape
<1> QED
  BY <1>1, <1>3, <1>4

LEMMA StillTree ==
    ASSUME TreeInv, UNCHANGED << frames, ret, nodes >>
    PROVE  TreeInv'
BY DEF TreeInv, TreeShape, HeldInOrder, HeldFree, Held, Once, Later,
       WrongNeverAttached, Instances, Requires, Provides, Module

LEMMA ParseSteps ==
    ASSUME TreeInv, ParseStep
    PROVE  TreeInv'
<1>1. CASE EnterSubmodel
  <2>1. /\ frames # << >> /\ nodes' = nodes
        /\ \/ Return(Null)
           \/ Call(Frame(File(Top), apms[File(Top)].root))
    BY <1>1, Zenon DEF EnterSubmodel, Entering
  <2> QED
    BY <2>1, Returned, Called
<1>2. CASE SubmodelParsed
  BY <1>2, Returned DEF SubmodelParsed
<1>3. CASE EnterModule
  BY <1>3, EnterModuleStep
<1>4. CASE EnterUnknown
  BY <1>4, Returned DEF EnterUnknown, Entering
<1>5. CASE NotChosen
  <2>1. frames # << >> /\ frames' = NextIdx /\ nodes' = nodes /\ ret' = ret
    BY <1>5, Zenon DEF NotChosen, Looping
  <2> QED
    BY <2>1, PassedOver
<1>6. CASE Descend
  <2>1. nodes' = nodes /\ \E apm, group : Call(Frame(apm, group))
    BY <1>6, Zenon DEF Descend
  <2> QED
    BY <2>1, Called
<1>7. CASE SetSubModule
  BY <1>7, SetSubModuleStep
<1>8. CASE LoopDone
  BY <1>8, Returned DEF LoopDone, Looping
<1>9. CASE SetRootModule
  BY <1>9, StillTree DEF SetRootModule
<1> QED
  BY <1>1, <1>2, <1>3, <1>4, <1>5, <1>6, <1>7, <1>8, <1>9, Zenon DEF ParseStep

(* Configuring a build tree reads the modules and changes none of them.    *)
LEMMA Configured ==
    ASSUME BuildStep \/ NukeBuildTree \/ (\E p \in BOOLEAN : CreateBuildTree(p))
    PROVE  UNCHANGED treeVars
<1>1. CreateBuildTreeForBase => UNCHANGED treeVars
  BY Zenon DEF CreateBuildTreeForBase
<1>2. CreateBuildTreeForModel => UNCHANGED treeVars
  BY Zenon DEF CreateBuildTreeForModel
<1>3. CreateBuildTreeForModule => UNCHANGED treeVars
  BY Zenon DEF CreateBuildTreeForModule
<1>4. CreateDynamicParams => UNCHANGED treeVars
  BY Zenon DEF CreateDynamicParams
<1>5. CreateSimConfig => UNCHANGED treeVars
  BY Zenon DEF CreateSimConfig
<1>6. CreateMakefiles => UNCHANGED treeVars
  BY Zenon DEF CreateMakefiles
<1>7. CreateSubMakefiles => UNCHANGED treeVars
  BY Zenon DEF CreateSubMakefiles
<1>8. CreateTopMakefile => UNCHANGED treeVars
  BY Zenon DEF CreateTopMakefile
<1>9. CreateConscripts => UNCHANGED treeVars
  BY Zenon DEF CreateConscripts
<1>10. NukeBuildTree => UNCHANGED treeVars
  BY Zenon DEF NukeBuildTree
<1>11. (\E p \in BOOLEAN : CreateBuildTree(p)) => UNCHANGED treeVars
  BY Zenon DEF CreateBuildTree
<1> QED
  BY <1>1, <1>2, <1>3, <1>4, <1>5, <1>6, <1>7, <1>8, <1>9, <1>10, <1>11, Zenon
     DEF BuildStep

LEMMA NextTree ==
    ASSUME TreeInv, [Next]_allVars
    PROVE  TreeInv'
<1>1. CASE ParseStep
  BY <1>1, ParseSteps
<1>2. CASE \E apm \in Models : ModelParse(apm)
  BY <1>2, ModelParseStep
<1>3. CASE UNCHANGED treeVars
  BY <1>3, StillTree DEF treeVars
<1>4. CASE UNCHANGED allVars
  BY <1>4, <1>3, Zenon DEF allVars
<1> QED
  BY <1>1, <1>2, <1>3, <1>4, Configured, Zenon DEF Next, TreeNext

LEMMA TreeInvariant == Spec => []TreeInv
<1>1. Init => TreeInv
  BY InitTree DEF Init
<1>2. TreeInv /\ [Next]_allVars => TreeInv'
  BY NextTree
<1> QED
  BY <1>1, <1>2, PTL DEF Spec

LEMMA InvWanted == TreeInv => TreeOfWanted
<1> SUFFICES ASSUME TreeInv
             PROVE  TreeOfWanted
  OBVIOUS
<1>1. DOMAIN nodes = Instances
  BY DEF TreeInv, TreeShape, Instances
<1>2. \A p \in Places :
          /\ p[1] \in Instances /\ p[2] \in DOMAIN nodes[p[1]].subs
          /\ p = << p[1], p[2] >>
  BY <1>1 DEF Places
<1>3. NoSharing
  BY <1>2 DEF NoSharing, TreeInv, Once, Later
<1> QED
  BY <1>3 DEF TreeOfWanted, TreeInv

(* Whatever the model files say, also when groups require each other in a  *)
(* circle, when one is chosen for two types and when a submodel is used    *)
(* twice: at every moment of parsing and of building what was parsed, no   *)
(* instance stands where another type is required, and none stands in two  *)
(* places or in a circle, so that the destructor of the tree destroys      *)
(* each of them once (Model::ParseModuleInstance, SetSubModule).           *)
THEOREM TreeOfWantedHolds == Spec => []TreeOfWanted
BY TreeInvariant, InvWanted, PTL
=============================================================================
