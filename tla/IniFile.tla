------------------------------- MODULE IniFile -------------------------------
(***************************************************************************)
(* Reading and rewriting files of groups of name=value lines (IniFile).    *)
(* A line is a group header, an item, an include or something else; its    *)
(* layout, which regular expressions take apart, is not modelled.          *)
(***************************************************************************)
EXTENDS Integers, Sequences, SequencesExt

CONSTANTS
    IniDisks,   \* what the files may hold, functions from their names
    Puts,       \* what may be set, see IniLine
    MaxInclude, \* bound: the depth of includes at which the stack is exhausted
    MaxPuts     \* bound: how often an item is put

ASSUME IniBounds == MaxInclude \in Nat \ {0} /\ MaxPuts \in Nat

VARIABLES
    inis,      \* the files
    object,    \* the name and groupMap of the IniFile, or NoObject
    put,       \* the item that is being put, or NoPut
    copying,   \* where Put is: "no", "seek", "group", "rest", "rename"
    inAt,      \* the lines of the file that it has read
    outLines,  \* the lines of file.new
    itemWritten,
    puts       \* history: how often Put was called

iniVars == << inis, object, put, copying, inAt, outLines, itemWritten, puts >>

IniLine(kind, name, value) == [kind |-> kind, name |-> name, value |-> value]
IsGroup(l)   == l.kind = "group"
IsItem(l)    == l.kind = "item"
IsInclude(l) == l.kind = "include"

NoObject == [file |-> "", map |-> << >>]
NoPut    == [group |-> "", item |-> "", value |-> ""]

-----------------------------------------------------------------------------
(* The items of a file in the order in which they are read, with their     *)
(* group: the last header above them in the same file, if there is one.    *)
Headers(lines, k) == {j \in 1..(k - 1) : IsGroup(lines[j])}
GroupOf(lines, k) ==
    lines[CHOOSE j \in Headers(lines, k) : \A i \in Headers(lines, k) : i <= j].name

ReadTo(disk) ==
    LET read[d \in 0..MaxInclude] ==
          [f \in DOMAIN disk |->
             FlattenSeq([k \in DOMAIN disk[f] |->
                LET l == disk[f][k] IN
                CASE IsItem(l) /\ Headers(disk[f], k) # {} ->
                        << [at |-> << GroupOf(disk[f], k), l.name >>, value |-> l.value] >>
                  [] IsInclude(l) /\ d > 0 /\ l.name \in DOMAIN disk ->
                        read[d - 1][l.name]
                  [] OTHER -> << >>])]
    IN  read[MaxInclude]

(* A definition that came first stays.                                     *)
LastWins(defs) ==   \* faulty variant
    [x \in {defs[k].at : k \in DOMAIN defs} |->
        defs[CHOOSE k \in DOMAIN defs :
                /\ defs[k].at = x
                /\ \A j \in DOMAIN defs : defs[j].at = x => j <= k].value]

FirstWins(defs) ==
    [x \in {defs[k].at : k \in DOMAIN defs} |->
        defs[CHOOSE k \in DOMAIN defs :
                /\ defs[k].at = x
                /\ \A j \in DOMAIN defs : defs[j].at = x => k <= j].value]

Contents(disk, file) == FirstWins(ReadTo(disk)[file])

(* The files that are read with a file.                                    *)
Included(disk, file) ==
    LET within[d \in 0..MaxInclude] ==
          IF d = 0 THEN {file}
          ELSE within[d - 1] \cup
               UNION {{disk[f][k].name : k \in {j \in DOMAIN disk[f] : IsInclude(disk[f][j])}}
                        : f \in within[d - 1] \cap DOMAIN disk}
    IN  within[MaxInclude]

(* Parse fails, and the program ends, when a file cannot be opened; a file *)
(* that includes itself is read until the stack is exhausted.              *)
Readable(disk, file) == Included(disk, file) \subseteq DOMAIN disk

Endless(disk, file) ==
    \E f \in Included(disk, file) :
        \E g \in {disk[f][k].name : k \in {j \in DOMAIN disk[f] : IsInclude(disk[f][j])}} :
            f \in Included(disk, g)

IniInit ==
    /\ inis \in IniDisks
    /\ object = NoObject /\ put = NoPut /\ copying = "no" /\ inAt = 0
    /\ outLines = << >> /\ itemWritten = FALSE /\ puts = 0

Open(file) ==
    /\ object = NoObject
    /\ Readable(inis, file) /\ ~Endless(inis, file)
    /\ object' = [file |-> file, map |-> Contents(inis, file)]
    /\ UNCHANGED << inis, put, copying, inAt, outLines, itemWritten, puts >>

(* Set.                                                                    *)
SetItem(map, p) ==
    [x \in DOMAIN map \cup {<< p.group, p.item >>} |->
        IF x = << p.group, p.item >> THEN p.value ELSE map[x]]

-----------------------------------------------------------------------------
(* Put: the file is copied to file.new line by line and then renamed.      *)
Lines2 == inis[object.file]
ThisLine == Lines2[inAt + 1]
MoreLines == inAt < Len(Lines2)

PutBegin(p) ==
    /\ object # NoObject /\ copying = "no" /\ puts < MaxPuts
    /\ object' = [object EXCEPT !.map = SetItem(@, p)]
    /\ put' = p /\ puts' = puts + 1
    /\ copying' = "seek" /\ inAt' = 0 /\ outLines' = << >> /\ itemWritten' = FALSE
    /\ UNCHANGED inis

Still == UNCHANGED << inis, object, put, puts >>
ItemLine == IniLine("item", put.item, put.value)

SeekGroup ==
    /\ copying = "seek" /\ MoreLines
    /\ outLines' = Append(outLines, ThisLine)
    /\ copying' = IF IsGroup(ThisLine) /\ ThisLine.name = put.group THEN "group" ELSE "seek"
    /\ inAt' = inAt + 1
    /\ UNCHANGED itemWritten /\ Still

NextGroup ==   \* the item is new: it goes in front of the next group
    /\ copying = "group" /\ MoreLines /\ IsGroup(ThisLine)
    /\ outLines' = outLines \o << ItemLine, ThisLine >>
    /\ itemWritten' = TRUE /\ copying' = "rest" /\ inAt' = inAt + 1
    /\ Still

RewriteItem ==
    /\ copying = "group" /\ MoreLines
    /\ IsItem(ThisLine) /\ ThisLine.name = put.item
    /\ outLines' = Append(outLines, ItemLine)
    /\ itemWritten' = TRUE /\ copying' = "rest" /\ inAt' = inAt + 1
    /\ Still

CopyInGroup ==
    /\ copying = "group" /\ MoreLines
    /\ ~IsGroup(ThisLine) /\ ~(IsItem(ThisLine) /\ ThisLine.name = put.item)
    /\ outLines' = Append(outLines, ThisLine)
    /\ inAt' = inAt + 1
    /\ UNCHANGED << copying, itemWritten >> /\ Still

CopyRest ==
    /\ copying = "rest" /\ MoreLines
    /\ outLines' = Append(outLines, ThisLine)
    /\ inAt' = inAt + 1
    /\ UNCHANGED << copying, itemWritten >> /\ Still

AppendGroup ==
    /\ copying \in {"seek", "group", "rest"} /\ ~MoreLines
    /\ outLines' = IF itemWritten THEN outLines
                   ELSE outLines \o << IniLine("group", put.group, ""), ItemLine >>
    /\ copying' = "rename"
    /\ UNCHANGED << inAt, itemWritten >> /\ Still

RenameInPlace ==   \* faulty variant: the file is written while it is copied
    /\ copying \in {"seek", "group", "rest", "rename"}
    /\ inis' = [inis EXCEPT ![object.file] = outLines]
    /\ copying' = "no"
    /\ UNCHANGED << object, put, inAt, outLines, itemWritten, puts >>

Rename ==
    /\ copying = "rename"
    /\ inis' = [inis EXCEPT ![object.file] = outLines]
    /\ copying' = "no"
    /\ UNCHANGED << object, put, inAt, outLines, itemWritten, puts >>

(* The program ends, or is killed, at any point.                           *)
IniKilled ==
    /\ object # NoObject
    /\ object' = NoObject /\ put' = NoPut /\ copying' = "no" /\ inAt' = 0
    /\ outLines' = << >> /\ itemWritten' = FALSE
    /\ UNCHANGED << inis, puts >>

PutStep ==
    \/ SeekGroup \/ NextGroup \/ RewriteItem \/ CopyInGroup \/ CopyRest
    \/ AppendGroup \/ Rename

IniNext ==
    \/ \E f \in DOMAIN inis : Open(f)
    \/ \E p \in Puts : PutBegin(p)
    \/ PutStep \/ IniKilled

-----------------------------------------------------------------------------
(* What is put can be read again: between two puts the file says the same  *)
(* as the object, also when the item was new, its group was, or stood in   *)
(* two places; unless an included file has the item as well.               *)
FromIncludes ==
    {x.at : x \in UNION {ToSet(ReadTo(inis)[f]) :
                            f \in Included(inis, object.file) \ {object.file}}}

ReadBack ==
    object # NoObject /\ copying = "no" =>
        \A x \in DOMAIN object.map \ FromIncludes :
            /\ x \in DOMAIN Contents(inis, object.file)
            /\ Contents(inis, object.file)[x] = object.map[x]

(* A program that is killed while it puts leaves the old file or the new   *)
(* one: no item but the one that is put is lost or changed, at any time;   *)
(* and what was put is read back.                                          *)
PutIsKept ==
    [][/\ \A f \in DOMAIN inis : inis'[f] # inis[f] =>
             \A x \in DOMAIN Contents(inis, f) \ {<< put.group, put.item >>} :
                 /\ x \in DOMAIN Contents(inis', f)
                 /\ Contents(inis', f)[x] = Contents(inis, f)[x]
       /\ ReadBack']_iniVars
=============================================================================
