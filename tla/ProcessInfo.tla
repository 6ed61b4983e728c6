---------------------------- MODULE ProcessInfo ----------------------------
(***************************************************************************)
(* A QProcessInfo (qprocessinfo.cpp): a map from keys to values, with      *)
(* getters that return a default for a key that is not set and setters     *)
(* that announce changes.  A record is a function on the keys that are     *)
(* set; a setter yields the new record and the keys whose change signals   *)
(* are emitted, in order.  Values are integers for the numeric keys and    *)
(* whatever a user of this module takes for program names, lists of        *)
(* arguments and environments; no operation here looks inside of these.    *)
(***************************************************************************)
EXTENDS Integers, Sequences

NumericKeys == {"uid", "gid", "umask", "dropCapabilities", "priority", "oomAdjustment"}

Keys == NumericKeys \cup {"identifier", "program", "arguments", "environment",
                          "workingDirectory", "startOutputPattern"}

contains(info, key) == key \in DOMAIN info

\* What the key may be set to: a number, a sequence of arguments or a map of variables.
IsValue(key, value) ==
    /\ key \in NumericKeys => value \in Int
    /\ key = "arguments" => value \in Seq({value[n] : n \in DOMAIN value})
    /\ key = "environment" => value = [name \in DOMAIN value |-> value[name]]

IsInfo(info) ==
    DOMAIN info \subseteq Keys /\ \A key \in DOMAIN info : IsValue(key, info[key])

\* The map of no key, which is also the environment of a record without one.
Empty == [key \in {} |-> 0]

\* What toString(), toStringList() and toMap() make of a QVariant that is not there.
Default(key) == CASE key = "arguments" -> <<>>
                  [] key = "environment" -> Empty
                  [] OTHER -> ""

\* The getters; toLongLong() and toDouble() of a missing value are 0.
Number(info, key) == IF contains(info, key) THEN info[key] ELSE 0
Value(info, key) == IF contains(info, key) THEN info[key] ELSE Default(key)

Result(info, signals) == [info |-> info, signals |-> signals]

\* Two maps in one: the new one's values win.
Over(new, old) ==
    [key \in DOMAIN new \cup DOMAIN old |-> IF key \in DOMAIN new THEN new[key] ELSE old[key]]

\* m_info.insert: the last value wins.
Inserted(info, key, value) == Over([k \in {key} |-> value], info)

\* mutant: the old value is not looked at
setValueAlways(info, key, value) == Result(Inserted(info, key, value), <<key>>)

\* A key that is not set differs from every value.
setValue(info, key, value) ==
    IF contains(info, key) /\ info[key] = value THEN Result(info, <<>>)
    ELSE Result(Inserted(info, key, value), <<key>>)

\* setProgram writes to the map and announces nothing.
setProgram(info, value) == Result(Inserted(info, "program", value), <<>>)

\* setPriority and setOomAdjustment compare with what the getter returns, so that 0 is
\* not written to a record without the key, and announce a change twice.
setAdjustment(info, key, value) ==
    IF value = Number(info, key) THEN Result(info, <<>>)
    ELSE Result(Inserted(info, key, value), <<key, key>>)

\* The setter that belongs to a key.
set(info, key, value) ==
    CASE key = "program" -> setProgram(info, value)
      [] key \in {"priority", "oomAdjustment"} -> setAdjustment(info, key, value)
      [] OTHER -> setValue(info, key, value)

\* insertEnvironment: the environment with some variables added or changed.
insertEnvironment(info, env) ==
    setValue(info, "environment", Over(env, Value(info, "environment")))

\* insert and setData: many keys at once, without a word.
insert(info, data) == Result(Over(data, info), <<>>)
setData(info, data) == Result(data, <<>>)
=============================================================================
