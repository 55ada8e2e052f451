------------------------------ MODULE MCModels ------------------------------
(***************************************************************************)
(* Model files and build trees for TLC.                                    *)
(*                                                                         *)
(* Models to be parsed: a root module that requires two types; groups that *)
(* are missing, shared, of the wrong type, submodels, or of an unreadable  *)
(* file.  Every choice of a group for every required type is a model of    *)
(* its own.                                                                *)
(*                                                                         *)
(* Models to be built: a root module, a module below it with a Makefile of *)
(* its own, which ends the recursion or not, and the modules below that,   *)
(* one of them also directly below the root; parameters of every           *)
(* mutability and visibility.                                              *)
(***************************************************************************)
EXTENDS ModelBuilder, TLC

File3(src, tail, kind) == [src |-> src, tail |-> tail, kind |-> kind]

P(name, visibility, mutability) ==
    [name |-> name, default |-> "0", string |-> FALSE,
     visibility |-> visibility, mutability |-> mutability]

StringParam(name) == [P(name, "Local", "Model") EXCEPT !.string = TRUE]

Plain == [provides |-> "", requires |-> << >>, params |-> << >>, public |-> << >>,
          private |-> << >>, makefile |-> << >>, target |-> << >>,
          conscript |-> << >>, library |-> << >>, include |-> << >>,
          sysinclude |-> << >>]

RootModule ==
    [Plain EXCEPT
        !.provides = "cpu", !.requires = << "cpu_ibox", "mem" >>,
        !.params = << P("W", "Subtree", "Startup"), P("L", "Local", "Model") >>,
        !.public = << File3("cpu/cpu.h", "cpu.h", "header") >>,
        !.private = << File3("cpu/cpu.cpp", "cpu.cpp", "source"),
                       File3("cpu/gone.cpp", "gone.cpp", "source") >>,
        !.library = << "lib/a.a", "z" >>]

Ibox ==
    [Plain EXCEPT
        !.provides = "cpu_ibox", !.requires = << "cpu_ibox_q" >>,
        !.params = << P("Q", "Subtree", "Model"), P("D", "Local", "Startup") >>,
        !.private = << File3("ibox/i.cpp", "i.cpp", "source"),
                       File3("ibox/i.tcl", "i.tcl", "raw") >>,
        !.makefile = << "ibox/Makefile.t" >>, !.target = << "libi.a" >>]

Queue(kind) ==
    [Plain EXCEPT
        !.provides = "cpu_ibox_q", !.params = << P("E", "Subtree", "Runtime") >>,
        !.private = << File3("q/q.h", "q.h", "header"),
                       File3("q/q.x", "q.x", kind) >>]

Module3(provides, requires, params) ==
    [Plain EXCEPT !.provides = provides, !.requires = requires, !.params = params]

Mem ==
    [Plain EXCEPT
        !.provides = "mem", !.params = << P("M", "Local", "Model") >>,
        !.private = << File3("mem/m.cpp", "m.cpp", "source") >>]

(* Modules that list a .pack file before their sources: one at the bottom, *)
(* and one with a module below it.                                         *)
Packed(m) == [m EXCEPT !.public = << File3("q/q.pack", "q.pack", "pack") >>]

(* Root modules with Makefiles and conscripts that are there or missing.   *)
RootWith(make, cons) == [RootModule EXCEPT !.makefile = make, !.conscript = cons]

AwbFiles ==
    "r.awb" :> RootModule @@
    "twice.awb" :> [RootModule EXCEPT !.requires = Append(@, "cpu_ibox_q")] @@
    "own.awb" :> RootWith(<< "top.t", "my.config", "Makefile", "rules" >>,
                          << "SConstruct", "rules" >>) @@
    "noconfig.awb" :> RootWith(<< "top.t", "gone" >>, << >>) @@
    "notemplate.awb" :> RootWith(<< "gone" >>, << >>) @@
    "norules.awb" :> RootWith(<< "top.t", "my.config", "gone" >>, << >>) @@
    "nocons.awb" :> RootWith(<< >>, << "gone", "rules" >>) @@ "i.awb" :> Ibox @@ "q.awb" :> Queue("source") @@
    "bad.awb" :> Queue("unknown") @@ "pack.awb" :> Packed(Queue("source")) @@
    "ipack.awb" :> Packed(Ibox) @@
    "m.awb" :> Mem @@
    "x.awb" :> Module3("X", << "A", "B" >>, << P("P", "Local", "Module") >>) @@
    "a.awb" :> Module3("A", << "B" >>, << StringParam("S") >>) @@
    "b.awb" :> Module3("B", << >>, << >>) @@
    "c.awb" :> Module3("B", << "A" >>, << >>)

Group1(file, requires) == [file |-> file, requires |-> requires, params |-> << >>]

(* The group for a required type; "" means that none is named.             *)
GroupNames == {"", "GA", "GB", "GC", "GS", "GX", "GO"}

Choice(types, g) == [t \in {x \in types : g[x] # ""} |-> g[t]]

Value(v, quoted) == [value |-> v, quoted |-> quoted]

ParsedApm(a, b, ab, quoted) ==
    [head |-> "ok", root |-> "GR",
     groups |->
        "GR" :> [Group1("x.awb", Choice({"A", "B"}, "A" :> a @@ "B" :> b))
                    EXCEPT !.params = "P" :> Value("1", FALSE)] @@
        "GA" :> [Group1("a.awb", Choice({"B"}, "B" :> ab))
                    EXCEPT !.params = "S" :> Value("1", quoted)] @@
        "GB" :> Group1("b.awb", << >>) @@
        "GC" :> Group1("c.awb", "A" :> "GA") @@
        "GS" :> Group1("sub", << >>) @@
        "GO" :> Group1("old", << >>) @@
        "GX" :> Group1("gone.awb", << >>)]

Submodel == [head |-> "ok", root |-> "GB", groups |-> "GB" :> Group1("b.awb", << >>)]
Itself   == [head |-> "ok", root |-> "G", groups |-> "G" :> Group1("itself", << >>)]
Old      == [head |-> "version", root |-> "", groups |-> << >>]

Others == "sub" :> Submodel @@ "itself" :> Itself @@ "old" :> Old

ParsedDisks ==
    {"m" :> ParsedApm(a, b, ab, q) @@ Others
        : a \in GroupNames, b \in GroupNames, ab \in GroupNames, q \in BOOLEAN}

Roots == {"r.awb", "own.awb", "noconfig.awb", "notemplate.awb", "norules.awb",
          "nocons.awb", "twice.awb"}

ApmOf(r, i, q, mem) ==
    [head |-> "ok", root |-> "R",
     groups |->
        "R" :> Group1(r, "cpu_ibox" :> "I" @@ "mem" :> mem @@ "cpu_ibox_q" :> "Q") @@
        "I" :> Group1(i, "cpu_ibox_q" :> "Q") @@
        "Q" :> Group1(q, << >>) @@ "M" :> Group1("m.awb", << >>)]

BuiltDisks ==
    {"m" :> ApmOf(r, i, q, mem) @@ Others
        : r \in Roots, i \in {"i.awb", "ipack.awb"}, q \in {"q.awb", "bad.awb", "pack.awb"}, mem \in {"M", "X"}}

AllDisks  == ParsedDisks \cup BuiltDisks
AllModels == {"m", "itself", "old"}

AllBaseFiles ==
    << File3("base/param.cpp", "param.cpp", "source"),
       File3("base/param.h", "param.h", "header"),
       File3("base/CVS", "CVS", "directory") >>

WholeTree ==
    {"base/param.cpp", "base/param.h", "cpu/cpu.h", "cpu/cpu.cpp", "ibox/i.cpp",
     "ibox/i.tcl", "ibox/Makefile.t", "q/q.h", "q/q.x", "mem/m.cpp", "lib/a.a",
     "Makefile.config", "Makefile.template", "top.t", "my.config",
     "rules", "SConstruct"}

Deep == {"mem/m.cpp"}
=============================================================================
