----------------------------- MODULE MCServices -----------------------------
(* An instance of Services for TLC. *)
EXTENDS Services

CONSTANTS i1, i2, v1, v2,       \* ids and items, and their contents
          u1, u2, short, long, broken,  \* uploads and archives
          s1, s2, w1,           \* sessions and a subscriber
          k1, k2, r1, r2, plain, full, null  \* posts of configurations

Lengths == [a \in {short, long, broken} |-> IF a = long THEN 2 ELSE 1]

\* Two configurations with settings, the longer one with all of them, and one that panics.
PostLengths == [p \in {plain, full, null} |-> IF p = full THEN 2 ELSE 1]
PostCommon == [p \in {plain, full, null} |-> IF p = full THEN "theirs" ELSE Unset]
PostTtl == [p \in {plain, full, null} |->
                IF p = full THEN "12:00" ELSE IF p = plain THEN "never" ELSE Unset]
-----------------------------------------------------------------------------
(* Configurations to validate *)

Prop(type) == [IdProp EXCEPT !.type = type]
Plain(type) == [type |-> type, props |-> Nothing, filters |-> Nothing, access |-> {},
                migration |-> <<>>]
WithX(type, p) == [Plain(type) EXCEPT !.props = [n \in {"x"} |-> p]]
Task(version, script) == [version |-> version, script |-> script]
Filter(label, display) == [f \in {"f"} |-> [label |-> label, display |-> display]]

RefTo(s) == [Prop("ref") EXCEPT !.store = s]
Configurable(p) == [p EXCEPT !.configurable = TRUE]

\* Properties of every type, valid ones and ones that are invalid in each way.
SomeProps ==
    {Prop(type) : type \in {"", "int", "uuid", "date", "virtual", "comments", "any", "table"}}
    \cup {[Prop(type) EXCEPT !.default = d] :
            type \in {"int", "float", "bool", "string", "date", "ref", "refList"},
            d \in {"number", "flag", "text", "expression", "object"}}
    \cup {[Prop("int") EXCEPT !.min = m, !.max = n] : m \in {{}, {2}}, n \in {{}, {0}, {1}, {3}}}
    \cup {[Prop("int") EXCEPT !.min = m, !.max = n] : m \in {{}, {NotANumber}}, n \in {{3}, {NotANumber}}}
    \cup {[Prop("string") EXCEPT !.minLength = m, !.maxLength = n, !.mask = "9-9"] :
            m \in {-1, 0, 2}, n \in {0, 1, 3}}
    \cup {[Prop("virtualRefList") EXCEPT !.store = "b", !.source = c] : c \in BOOLEAN}
    \cup {[Prop(type) EXCEPT !.props = [n \in {"y"} |-> p]] :
            type \in {"object", "objectList", "bool"},
            p \in {RefTo("b"), RefTo("nowhere"), Prop("object"), Prop("int")}}

Pair(a, b) == [s \in {"a", "b"} |-> IF s = "a" THEN a ELSE b]

\* One store with each property, and another store it may refer to.
Singles ==
    {Pair(WithX(type, p), b) :
        type \in {"directory", "map", "single", "unheard of"}, p \in SomeProps,
        b \in {Plain("process"), WithX("directory", Prop("table"))}}

\* References in a chain whose end is dropped for its property, or is not.
Chains ==
    {[s \in {"a", "b", "c", "_default"} |->
        IF s = "a" THEN WithX("directory", RefTo("b"))
        ELSE IF s = "b" THEN WithX("directory", RefTo("c"))
        ELSE IF s = "c" THEN WithX("directory", p)
        ELSE d] :
        p \in {Prop("int"), Prop("table"), RefTo("a")},
        d \in {Plain("directory"), WithX("directory", RefTo("b"))}}

\* Two default stores that may both have the property of a store.
XDefaults ==
    {Plain("directory")} \cup
    {[WithX("directory", p) EXCEPT !.filters = Filter("theirs", "select")] :
        p \in {Prop("string"), Configurable(Prop("float")), Configurable(RefTo("b"))}}

Layers ==
    {[s \in {"a", "b", "_default", DefaultOfType[type]} |->
        IF s = "a" THEN [a EXCEPT !.type = type]
        ELSE IF s = "b" THEN Plain("file")
        ELSE IF s = "_default" THEN directory
        ELSE [typed EXCEPT !.access = {"r"}]] :
        type \in DOMAIN DefaultOfType,
        a \in {Plain("directory"),
               [WithX("directory", [Prop("int") EXCEPT !.min = {1}, !.max = {2}]) EXCEPT
                    !.filters = Filter("mine", "")]},
        directory \in XDefaults, typed \in XDefaults}

\* Migrations of up to three tasks, one version of which is where prevVer starts.
SomeTasks == {Task(-99, TRUE), Task(1, TRUE), Task(1, FALSE), Task(2, TRUE), Task(3, FALSE)}
Migrations ==
    {[s \in {"a"} |-> [Plain("directory") EXCEPT !.migration = m]] :
        m \in UNION {[1..n -> SomeTasks] : n \in 1..3}}

SomeConfs == {Nothing} \cup Singles \cup Chains \cup Layers \cup Migrations
CustomStores == {Pair(Plain("workspace"), [Plain("campaign") EXCEPT !.migration = <<Task(1, TRUE)>>])}
=============================================================================
