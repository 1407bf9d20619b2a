----------------------------- MODULE PortParams -----------------------------
(***************************************************************************)
(* src/Com0Com/setup/params.cpp: the parameters of a port.  They are loaded*)
(* from the registry into an object, changed by a parameters string        *)
(* "par=val,..." (with "*" for the current and "-" for the driver's default*)
(* value), saved again value by value, and listed as such a string.  The   *)
(* registry holds a value only if it was given; the object marks values    *)
(* as explicit and as changed, and holds zeros for the others, which are   *)
(* not the driver's defaults.                                              *)
(*                                                                         *)
(* A text is a sequence of numbers: <<no or yes>>, <<negated?, pin>>,      *)
(* <<name>> with 0 for the port's own identifier, or decimal digits, for a *)
(* probability those after "0.".  RealPortName is no value of the registry *)
(* key; it is in Com0comPairs, and here only takes some of the characters  *)
(* that a parameters string may have.                                      *)
(***************************************************************************)
EXTENDS Integers, Sequences

CONSTANTS
    Par,            \* the parameters in the order of bits[]: a sequence
    Type,           \* Type[p]: "name", "flag", "pin", "probability", "unsigned"
    PinDefault,     \* C0C_DEFAULT_PIN_..., by parameter of type "pin"
    Digits,         \* digits of a probability: C0C_PROBABILITY_ONE = 10 ^ Digits
    Dword,          \* 2^32
    Text,           \* Text[p]: the texts that command lines give p
    NameLength,     \* characters of the name of p: GetBitName
    PortLength,     \* characters of a port's name
    Room,           \* characters left for these items: 199, or less when
                    \* there are items of RealPortName or a type left out
    MaxItems        \* bound: parameters in a string

Pars == {Par[i] : i \in 1..Len(Par)}
Absent == -1
PinNegative == 32           \* C0C_PIN_NEGATIVE; pins are 1 .. 11

ASSUME ParamsAssumption ==
    /\ Par \in Seq(Pars) /\ Digits \in Nat /\ Dword \in Nat \ {0} /\ MaxItems \in Nat
    /\ Type \in [Pars -> {"name", "flag", "pin", "probability", "unsigned"}]
    /\ \A p \in Pars : Type[p] = "pin" =>
          PinDefault[p] \in Nat /\ PinDefault[p] % PinNegative \in 1..11
    /\ \A p \in Pars : \A t \in Text[p] :
          /\ t \in Seq(Nat)
          /\ Type[p] = "name" => Len(t) = 1
          /\ Type[p] = "pin" => Len(t) = 2
          /\ Type[p] \in {"probability", "unsigned"} => t \in Seq(0..9)
    /\ NameLength \in [Pars -> Nat] /\ Room \subseteq Nat
    /\ \A p \in Pars : Type[p] = "name" =>
          \A t \in Text[p] \cup {<<0>>} : PortLength[t[1]] \in Nat

VARIABLES
    reg,        \* the values under Parameters\<port>, or Absent
    line        \* the command line: its object, what is saved next, and the intention

paramVars == <<reg, line>>

----------------------------------------------------------------------------
(* Texts and values.  Each setter yields the value or Absent ("Invalid     *)
(* value").                                                                *)
Decimal(t) ==
    LET n[i \in 0 .. Len(t)] == IF i = 0 THEN 0 ELSE n[i - 1] * 10 + t[i]
    IN n[Len(t)]

SetFlag(t) == IF t \in {<<0>>, <<1>>} THEN t[1] ELSE Absent

SetPin(t) == IF t[2] \in 1..11 THEN t[2] + PinNegative * t[1] ELSE Absent

(* Missing digits count as 0, zeros too many do not count.                 *)
SetProbability(t) ==
    LET d(i) == IF i <= Len(t) THEN t[i] ELSE 0
    IN IF \E i \in Digits + 1 .. Len(t) : t[i] # 0 THEN Absent
       ELSE Decimal([i \in 1..Digits |-> d(i)])

SetUnsigned(t) == Decimal(t) % Dword

Value(p, t) ==
    CASE Type[p] = "flag" -> SetFlag(t)
      [] Type[p] = "pin" -> SetPin(t)
      [] Type[p] = "probability" -> SetProbability(t)
      [] Type[p] = "unsigned" -> SetUnsigned(t)
      [] Type[p] = "name" -> t[1]

(* Init: what the object holds for a value that is not explicit, and       *)
(* GetDwPtrDefault: what the driver uses for it.                           *)
Zero(p) == IF Type[p] = "name" THEN Absent ELSE 0
DriverDefault(p) == IF Type[p] = "pin" THEN PinDefault[p] ELSE 0

InUse(r) == [p \in Pars |-> IF r[p] = Absent THEN DriverDefault(p) ELSE r[p]]

(* FillParametersStr, by parameter: the text of a value.  Left: n without  *)
(* its last k digits.                                                      *)
Left(n, k) ==
    LET left[i \in 0 .. k] == IF i = 0 THEN n ELSE left[i - 1] \div 10
    IN left[k]

DigitsOf(n, k) == [i \in 1..k |-> Left(n, k - i) % 10]

FillUnsigned(n) ==
    LET k == CHOOSE l \in 1 .. n + 1 : Left(n, l) = 0 /\ (l > 1 => Left(n, l - 1) # 0)
    IN DigitsOf(n, k)

(* Mutant: the zeros before the first digit are lost.                      *)
FillProbabilityUnpadded(n) == FillUnsigned(n)

FillProbability(n) ==
    LET all == DigitsOf(n, Digits)
        last == CHOOSE l \in 0..Digits : /\ \A i \in l + 1 .. Digits : all[i] = 0
                                         /\ l > 0 => all[l] # 0
    IN SubSeq(all, 1, last)

FillText(p, v) ==
    CASE Type[p] = "pin" -> <<v \div PinNegative, v % PinNegative>>
      [] Type[p] = "probability" -> FillProbability(v)
      [] Type[p] = "unsigned" -> FillUnsigned(v)
      [] Type[p] \in {"name", "flag"} -> <<v>>

----------------------------------------------------------------------------
(* The object: portName, emuBR, ... as val, maskExplicit and maskChanged.  *)
(* A command line is a sequence of items, "set" with a text, "*" or "-".   *)
Item == (UNION {[par : {p}, how : {"set"}, text : Text[p]] : p \in Pars})
        \cup [par : Pars, how : {"*", "-"}, text : {<<0>>}]

Load(r) == [val |-> [p \in Pars |-> IF r[p] = Absent THEN Zero(p) ELSE r[p]],
            explicit |-> {p \in Pars : r[p] # Absent}, changed |-> {}, ok |-> TRUE]

(* Mutant: a value is explicit only when this item changes it.             *)
GiveOnce(o, p, v) ==
    IF v = o.val[p] THEN o
    ELSE [o EXCEPT !.val[p] = v, !.changed = @ \cup {p}, !.explicit = @ \cup {p}]

(* SetBit.  A value is given anew when it differs from what the object     *)
(* holds, or when something has changed about it already.                  *)
Give(o, p, v) ==
    LET changed == IF v # o.val[p] THEN o.changed \cup {p} ELSE o.changed
    IN [o EXCEPT !.val[p] = v, !.changed = changed,
                 !.explicit = IF p \in changed THEN @ \cup {p} ELSE @]

SetBit(o, it) ==
    LET p == it.par IN
    IF ~o.ok \/ it.how = "*" THEN o
    ELSE IF it.how = "-"
         THEN [o EXCEPT !.changed = IF p \in o.explicit THEN @ \cup {p} ELSE @,
                        !.explicit = @ \ {p}]
    ELSE IF Value(p, it.text) = Absent THEN [o EXCEPT !.ok = FALSE]
    ELSE Give(o, p, Value(p, it.text))

(* The characters of an item: rrts, rdtr, rout1, rout2, ropen, lrts, ldtr, *)
(* lout1, lout2, lopen and on are the pins; any other name is refused.     *)
PinLength == <<4, 4, 5, 5, 5, 4, 4, 5, 5, 5, 2>>

TextLength(p, t) ==
    CASE Type[p] = "flag" -> IF t = <<1>> THEN 3 ELSE 2
      [] Type[p] = "pin" -> t[1] + (IF t[2] \in 1..11 THEN PinLength[t[2]] ELSE 0)
      [] Type[p] = "probability" -> IF t = <<>> THEN 1 ELSE 2 + Len(t)
      [] Type[p] = "unsigned" -> Len(t)
      [] Type[p] = "name" -> PortLength[t[1]]

ItemLength(it) ==
    NameLength[it.par] + 1 + (IF it.how = "set" THEN TextLength(it.par, it.text) ELSE 1)

(* SNPRINTF: a string of 200 characters or more is cut, and returns -1.    *)
Fits(items, room) ==
    LET length[i \in 0 .. Len(items)] ==    \* with a comma before each item
            IF i = 0 THEN 0 ELSE length[i - 1] + 1 + ItemLength(items[i])
    IN length[Len(items)] <= room + 1

(* ParseParametersStr: all items, on a copy, or none.  A string that is too*)
(* long is refused, however short it could be said.                        *)
SetBits(o, items) ==
    LET parsed[i \in 0 .. Len(items)] == IF i = 0 THEN o ELSE SetBit(parsed[i - 1], items[i])
    IN parsed[Len(items)]

Parse(o, items, room) ==
    IF Fits(items, room) THEN SetBits(o, items) ELSE [o EXCEPT !.ok = FALSE]

(* FillParametersStr: the explicit values, and with --detail-prms also the *)
(* defaults; the port name is always listed.  It ends with FALSE at the    *)
(* item that does not fit, and leaves those before it, and a part of that  *)
(* one, in the buffer; the callers show it all the same.                   *)
FillItems(o, detail) ==
    LET listed(p) == p \in o.explicit \/ detail \/ Type[p] = "name"
        item(p) == IF p \in o.explicit THEN [par |-> p, how |-> "set", text |-> FillText(p, o.val[p])]
                   ELSE IF detail
                        THEN [par |-> p, how |-> "set", text |-> FillText(p, DriverDefault(p))]
                   ELSE [par |-> p, how |-> "-", text |-> <<0>>]
        fill[i \in 0 .. Len(Par)] ==
            IF i = 0 THEN <<>>
            ELSE IF listed(Par[i]) THEN Append(fill[i - 1], item(Par[i])) ELSE fill[i - 1]
    IN fill[Len(Par)]

Fill(o, detail, room) ==
    LET all == FillItems(o, detail)
        whole == CHOOSE k \in 0 .. Len(all) :
                    /\ k > 0 => Fits(SubSeq(all, 1, k), room)
                    /\ k < Len(all) => ~Fits(SubSeq(all, 1, k + 1), room)
    IN [ok |-> Fits(all, room), items |-> IF Fits(all, room) THEN all ELSE SubSeq(all, 1, whole)]

----------------------------------------------------------------------------
NoLine == [phase |-> "idle", obj |-> Load([p \in Pars |-> Absent]), next |-> 1,
           before |-> [p \in Pars |-> DriverDefault(p)],
           want |-> [p \in Pars |-> DriverDefault(p)]]
AtRest == line = NoLine
SaveEnds == line' = NoLine

ParamTypeOK ==
    /\ reg \in [Pars -> Int]
    /\ line.phase \in {"idle", "save"} /\ line.next \in 1 .. Len(Par) + 1
    /\ line.obj.explicit \subseteq Pars /\ line.obj.changed \subseteq Pars
    /\ line.obj.val \in [Pars -> Int]

ParamInit == reg = [p \in Pars |-> Absent] /\ line = NoLine

(* What a command line asks for: each parameter as its last item says.     *)
Want(r, items) ==
    [p \in Pars |->
        LET said == {i \in 1..Len(items) : items[i].par = p /\ items[i].how # "*"}
            last == CHOOSE i \in said : \A j \in said : j <= i
        IN IF said = {} THEN InUse(r)[p]
           ELSE IF items[last].how = "-" THEN DriverDefault(p)
           ELSE Value(p, items[last].text)]

(* The parameters of a command, and "-", that resets them all ("*" is an   *)
(* empty list here) and has a length of 1.                                 *)
ResetAll == [i \in 1 .. Len(Par) |-> [par |-> Par[i], how |-> "-", text |-> <<0>>]]
CommandLines == (UNION {[1 .. m -> Item] : m \in 0 .. MaxItems}) \cup {ResetAll}

(* Load, ParseParametersStr.  A string that is too long or not accepted, or*)
(* changes nothing, is not saved.                                          *)
ParseParametersStr ==
    /\ AtRest
    /\ \E items \in CommandLines, room \in Room :
          LET o == IF items = ResetAll THEN SetBits(Load(reg), items)
                   ELSE Parse(Load(reg), items, room) IN
          /\ o.ok
          /\ line' = [phase |-> "save", obj |-> o, next |-> 1,
                      before |-> InUse(reg), want |-> Want(reg, items)]
    /\ UNCHANGED reg

(* Mutant: a value that is no longer explicit is written, not deleted.     *)
SaveDwWrites ==
    LET p == Par[line.next] IN
    /\ line.phase = "save" /\ line.next <= Len(Par)
    /\ reg' = IF p \notin line.obj.changed THEN reg
              ELSE [reg EXCEPT ![p] = line.obj.val[p]]
    /\ line' = [line EXCEPT !.next = @ + 1, !.obj.changed = @ \ {p}]

(* SaveDw, and the port name likewise, in the order of bits[].             *)
SaveDw ==
    LET p == Par[line.next] IN
    /\ line.phase = "save" /\ line.next <= Len(Par)
    /\ reg' = IF p \notin line.obj.changed THEN reg
              ELSE [reg EXCEPT ![p] = IF p \in line.obj.explicit THEN line.obj.val[p] ELSE Absent]
    /\ line' = [line EXCEPT !.next = @ + 1, !.obj.changed = @ \ {p}]

(* A value cannot be written, or setup is stopped: the rest stays as it was,*)
(* and Save reports success unless it was the name that failed.            *)
SaveStops ==
    /\ line.phase = "save" /\ line.next <= Len(Par) /\ SaveEnds
    /\ UNCHANGED reg

Saved ==
    /\ line.phase = "save" /\ line.next > Len(Par) /\ SaveEnds
    /\ UNCHANGED reg

ParamNext == ParseParametersStr \/ SaveDw \/ SaveStops \/ Saved
ParamSpec == ParamInit /\ [][ParamNext]_paramVars

----------------------------------------------------------------------------
(* A command that is accepted and saved leaves every parameter in use as   *)
(* the command line says, and those it does not name as they were: for all *)
(* orders and repetitions of items, and although zeros stand for values    *)
(* that the registry does not have.                                        *)
SavedAsAsked == [][Saved => InUse(reg) = line.want]_paramVars

(* Wherever a save stops, each parameter has its old or its new value.     *)
NoThirdValue ==
    ~AtRest => \A p \in Pars : InUse(reg)[p] \in {line.before[p], line.want[p]}

(* A list of a port that is not cut is a command line that is accepted,    *)
(* changes nothing for this port, and gives it, once they are reset, the   *)
(* same parameters again.                                                  *)
ListReplays ==
    LET o == Load(reg)
        other == Load([p \in Pars |-> Absent])
        Nothing(room) ==
            LET list == Fill(o, FALSE, room)
                n == Parse(o, list.items, room)
            IN list.ok => n.ok /\ n.changed = {}
        Same(d, room) ==
            LET list == Fill(o, d, room)
                n == Parse(other, list.items, room)
            IN list.ok =>
                 /\ n.ok
                 /\ \A p \in Pars : InUse(reg)[p] =
                       IF p \in n.explicit THEN n.val[p] ELSE DriverDefault(p)
    IN \A room \in Room : Nothing(room) /\ Same(FALSE, room) /\ Same(TRUE, room)
=============================================================================
