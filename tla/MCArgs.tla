------------------------------- MODULE MCArgs -------------------------------
(***************************************************************************)
(* Command lines for TLC: up to three groups of words of each kind, with   *)
(* files that name files in directories of their own.                      *)
(***************************************************************************)
EXTENDS Args

Two       == << "2" >>
NumberOf  == (Two :> 2) @@ (<< "0" >> :> 0)
Regex     == << "/", "re" >>
OneParam  == {"p"}
AllBuilds == {{"trace"}, {"events"}}

CfgOf(name) == << Opt("cfg"), name >>

AllArgFiles ==
    (<< "sub", "f" >> :> CfgOf(<< "deep", "g" >>) \o << Opt("repeat"), Two >>
                             \o CfgOf(<< "h" >>))
    @@ (<< "sub", "deep", "g" >> :> CfgOf(<< "i" >>) \o << << "--", "feeder" >>, << "x" >> >>)
    @@ (<< "sub", "deep", "i" >> :> << Opt("c"), Two, Opt("s") >>)
    @@ (<< "sub", "h" >> :> << << "--" >>, Opt("e"), << "--", "system" >>, << "y" >> >>)
    @@ (<< "plain" >> :> << Opt("t"), Opt("s"), << "out" >>, << "-", "t", "i" >>, Regex, Two >>)
    @@ (<< "short" >> :> << Opt("cf") >>)

Groups ==
    {<< w >> : w \in {<< "--" >>, << "--", "feeder" >>, << "--", "system" >>, << "x" >>}}
    \cup {<< Opt(l) >> : l \in {"t", "tr", "h", "batch", "e", "strip"}}
    \cup {<< Opt(l), Two >> : l \in {"c", "repeat", "ppc", "cf", "xcheck"}}
    \cup {CfgOf(f) : f \in {<< "sub", "f" >>, << "plain" >>, << "short" >>, << "gone" >>}}
    \cup {<< << "-", "t", "soon" >> >>, << Opt("tr"), Regex >>,
          << << "-", "t", "m" >>, Regex, Two >>, << << "-", "t", "n" >>, Two >>,
          << Opt("param"), << "p", "=", "1" >> >>, << Opt("param"), << "q", "=", "1" >> >>,
          << Opt("param"), << "p" >> >>}

(* Options without what belongs to them stand at the end.                  *)
Cut == {<< Opt(l) >> : l \in {"cf", "cfg", "repeat", "tms"}}
           \cup {<< << "-", "t", "c" >>, Regex >>, << << "-", "t", "s", "c" >> >>}

AllArgLines ==
    {g \o h : g \in Groups, h \in Groups \cup Cut}
        \cup {g \o CfgOf(<< "sub", "f" >>) \o h : g \in Groups, h \in Groups \cup Cut}
        \cup {<< f, Two, f, << "0" >> >> : f \in EventFlags}
=============================================================================
