-------------------------------- MODULE AbtEnv --------------------------------
(***************************************************************************)
(* What Argobots reads from the environment: integers (util/atoi.c), sizes *)
(* and their limits (arch/abtd_env.c), and the affinity list               *)
(* (arch/abtd_affinity_parser.c, arch/abtd_affinity.c).                    *)
(*                                                                         *)
(* These are pure functions of a string, a sequence of characters that the *)
(* next-state relation spells out one by one.  The C functions are         *)
(* compared with what they are to compute: the saturated value of the      *)
(* digits, and the list that the grammar at the head of abtd_affinity.c    *)
(* gives the string.                                                       *)
(***************************************************************************)
EXTENDS Integers, Sequences, SequencesExt, FiniteSets, FiniteSetsExt

CONSTANTS Chars,          \* characters of the strings
          AnyLen, MaxLen, \* every string of AnyLen characters, and the longer
                          \* ones, up to MaxLen, that may still become legal
          INT_MAX, UINT32_MAX, UINT64_MAX,
          MAX_NUM_ELEMS,
          CpuSets, Ranks  \* initial CPU sets of the process, ranks of streams

VARIABLE str

Digit == [d \in {"0", "1", "2", "3"} |-> CASE d = "0" -> 0 [] d = "1" -> 1 [] d = "2" -> 2 [] OTHER -> 3]
Digits == DOMAIN Digit
White == {" "}   \* stands for the four characters of is_whitespace()
End == "end"     \* the '\0' behind the string

CharAt(s, i) == IF i <= Len(s) THEN s[i] ELSE End

-----------------------------------------------------------------------------
(* util/atoi.c: an unsigned value and a sign, saturated at UINT64_MAX.       *)

NoInt == [ok |-> FALSE, val |-> 0, neg |-> FALSE, over |-> FALSE]

WillOverflow(val, d) == val > UINT64_MAX \div 10 \/ val * 10 > UINT64_MAX - d

RECURSIVE Read(_, _, _, _, _, _)
Read(s, i, char, digit, neg, val) ==
  LET c == CharAt(s, i)
  IN CASE c \in White /\ ~char -> Read(s, i + 1, char, digit, neg, val)
       [] c = "+" /\ ~digit -> Read(s, i + 1, TRUE, digit, neg, val)
       [] c = "-" /\ ~digit -> Read(s, i + 1, TRUE, digit, ~neg, val)
       [] c \in Digits ->
            IF WillOverflow(val, Digit[c])
            THEN [ok |-> TRUE, val |-> UINT64_MAX, neg |-> neg, over |-> TRUE]
            ELSE Read(s, i + 1, TRUE, TRUE, neg, (val * 10 + Digit[c]) % (UINT64_MAX + 1))
       [] OTHER -> IF digit THEN [ok |-> TRUE, val |-> val, neg |-> neg, over |-> FALSE]
                   ELSE NoInt

atoi_impl(s) == Read(s, 1, FALSE, FALSE, FALSE, 0)

Parsed(ok, v, over) == [ok |-> ok, val |-> v, over |-> over]

ABTU_atoi(s) ==
  LET r == atoi_impl(s) INT_MIN == -INT_MAX - 1
  IN CASE ~r.ok -> Parsed(FALSE, 0, FALSE)
       [] r.neg /\ r.val > -INT_MIN -> Parsed(TRUE, INT_MIN, TRUE)
       [] r.neg -> Parsed(TRUE, -r.val, r.over)
       [] r.val > INT_MAX -> Parsed(TRUE, INT_MAX, TRUE)
       [] OTHER -> Parsed(TRUE, r.val, r.over)

\* ABTU_atoui32() and ABTU_atoui64() (and ABTU_atosz(), one of the two).
Unsigned(s, max) ==
  LET r == atoi_impl(s)
  IN CASE ~r.ok -> Parsed(FALSE, 0, FALSE)
       [] r.neg -> Parsed(TRUE, 0, r.over \/ r.val # 0)
       [] r.val > max -> Parsed(TRUE, max, TRUE)
       [] OTHER -> Parsed(TRUE, r.val, r.over)

ABTU_atoui32(s) == Unsigned(s, UINT32_MAX)
ABTU_atoui64(s) == Unsigned(s, UINT64_MAX)

-----------------------------------------------------------------------------
(* arch/abtd_env.c: limits and rounding.                                     *)

\* load_env_int() and its siblings: the variable, or the default, within limits.
Load(r, default, min, max) == Max({min, Min({max, IF r.ok THEN r.val ELSE default})})

roundup_pow2(v, bits) ==
  IF v = 0 THEN 0
  ELSE 2 ^ Min({bits - 1} \cup {i \in 0 .. bits - 2 : (v - 1) \div 2 ^ i = 0})

ABTU_roundup(v, m) == (((v + m - 1) % (UINT64_MAX + 1)) \div m) * m

\* ABTD_env_key_table_size(): a power of two, for it is used as a mask.
key_table_size(s, bits) == roundup_pow2(Load(ABTU_atoui32(s), 4, 1, UINT32_MAX \div 2), bits)

\* The sizes of ABTD_env_init(): stack, and stack page of at least four stacks;
\* sizes are size_t, so the product wraps.
stacksize(s, default, line) ==
  ABTU_roundup(Load(ABTU_atoui64(s), default, 8, UINT64_MAX \div 2), line)
mem_sp_size(s, stack, default, line) ==
  ABTU_roundup(Load(ABTU_atoui64(s), default, (stack * 4) % (UINT64_MAX + 1), UINT64_MAX \div 2), line)

-----------------------------------------------------------------------------
(* arch/abtd_affinity_parser.c                                               *)

Fail == [ok |-> FALSE, val |-> 0, at |-> 0]

RECURSIVE IntFrom(_, _, _, _, _)
IntFrom(s, i, flag, sign, val) ==
  LET c == CharAt(s, i)
  IN CASE flag # "v" /\ c = "-" -> IntFrom(s, i + 1, "s", -sign, val)
       [] flag # "v" /\ c = "+" -> IntFrom(s, i + 1, "s", sign, val)
       [] flag = "n" /\ c \in White -> IntFrom(s, i + 1, flag, sign, val)
       [] c \in Digits -> IntFrom(s, i + 1, "v", sign, val * 10 + Digit[c])
       [] OTHER -> [ok |-> flag = "v", val |-> val * sign, at |-> i]

consume_int(s, i) == IntFrom(s, i, "n", 1, 0)

\* What follows a piece of the string that was consumed.
IfOk(r, Then(_), else) == IF r.ok THEN Then(r) ELSE else

consume_pint(s, i) == IfOk(consume_int(s, i), LAMBDA r : IF r.val > 0 THEN r ELSE Fail, Fail)

\* The first character that is not white must be c.
consume_symbol(s, i, c) ==
  LET j == Min({k \in i .. Max({i, Len(s) + 1}) : CharAt(s, k) \notin White})
  IN [ok |-> CharAt(s, j) = c, at |-> j + 1]

\* Optional ":" <num> [":" <stride>], the tail of <interval> and <id-interval>.
Tail2(s, i) ==
  LET Res(num, stride, at) == [ok |-> num < MAX_NUM_ELEMS, num |-> num, stride |-> stride, at |-> at]
  IN IfOk(consume_symbol(s, i, ":"), LAMBDA c1 :
       IfOk(consume_pint(s, c1.at), LAMBDA n :
         IfOk(consume_symbol(s, n.at, ":"), LAMBDA c2 :
           IfOk(consume_int(s, c2.at), LAMBDA d : Res(n.val, d.val, d.at), Fail),
           Res(n.val, 1, n.at)),
         Fail),
       Res(1, 1, i))

\* Mutant: the stride is also added to the first element.
Mutid_list_add(ids, id, num, stride) == ids \o [k \in 1 .. num |-> id + stride * k]

id_list_add(ids, id, num, stride) == ids \o [k \in 1 .. num |-> id + stride * (k - 1)]

list_add(lists, base, num, stride) ==
  lists \o [k \in 1 .. num |-> [j \in DOMAIN base |-> base[j] + stride * (k - 1)]]

\* parse_es_id_list(): after "{", one <id-interval> after the other.
RECURSIVE IdIntervals(_, _, _)
IdIntervals(s, i, ids) ==
  IfOk(consume_int(s, i), LAMBDA id :
    IfOk(Tail2(s, id.at), LAMBDA t :
      IfOk(consume_symbol(s, t.at, ","),
        LAMBDA comma : IdIntervals(s, comma.at, id_list_add(ids, id.val, t.num, t.stride)),
        IfOk(consume_symbol(s, t.at, "}"), LAMBDA close :
          [ok |-> TRUE, ids |-> id_list_add(ids, id.val, t.num, t.stride), at |-> close.at], Fail)),
      Fail), Fail)

parse_es_id_list(s, i) ==
  IfOk(consume_int(s, i),
    LAMBDA id : [ok |-> TRUE, ids |-> id_list_add(<<>>, id.val, 1, 1), at |-> id.at],
    IfOk(consume_symbol(s, i, "{"), LAMBDA open : IdIntervals(s, open.at, <<>>), Fail))

RECURSIVE Intervals(_, _, _)
Intervals(s, i, lists) ==
  IfOk(parse_es_id_list(s, i), LAMBDA e :
    IfOk(Tail2(s, e.at), LAMBDA t :
      IfOk(consume_symbol(s, t.at, ","),
        LAMBDA comma : Intervals(s, comma.at, list_add(lists, e.ids, t.num, t.stride)),
        IfOk(consume_symbol(s, t.at, End), LAMBDA end :
          [ok |-> TRUE, lists |-> list_add(lists, e.ids, t.num, t.stride)], Fail)),
      Fail), Fail)

parse_list(s) == Intervals(s, 1, <<>>)

-----------------------------------------------------------------------------
(* arch/abtd_affinity.c: the CPU set of each list, among the CPUs the        *)
(* process had at the start, and the CPU set of a stream.                    *)

\* C's % has the sign of the dividend.
int_rem(a, b) == LET r == (IF a < 0 THEN -((-a) % b) ELSE a % b) + b
                 IN IF r >= b THEN r - b ELSE r

\* p is what parse_list() returned.
cpusets(p, initial) ==
  LET n == Len(initial)
  IN IF p.ok THEN [k \in DOMAIN p.lists |-> {initial[int_rem(id, n) + 1] : id \in ToSet(p.lists[k])}]
     ELSE [k \in 1 .. n |-> {initial[k]}]

\* ABTD_affinity_cpuset_apply_default() of the stream with this rank.
Bound(p, initial, rank) == LET c == cpusets(p, initial) IN c[(rank % Len(c)) + 1]

-----------------------------------------------------------------------------
(* The grammar at the head of abtd_affinity.c: what a string w denotes, as a *)
(* set, empty when w is illegal.                                             *)

Trim(w) == LET solid == {i \in DOMAIN w : w[i] \notin White}
           IN IF solid = {} THEN <<>> ELSE SubSeq(w, Min(solid), Max(solid))
Splits(w, c) == {<<SubSeq(w, 1, i - 1), SubSeq(w, i + 1, Len(w))>> : i \in {j \in DOMAIN w : w[j] = c}}

DigitsValue(w) == FoldLeft(LAMBDA v, c : v * 10 + Digit[c], 0, w)
Signs(w) == Cardinality({i \in DOMAIN w : \A j \in 1 .. i : w[j] \in {"+", "-"}})
Minuses(w) == Cardinality({i \in 1 .. Signs(w) : w[i] = "-"})
Number(w) == SubSeq(w, Signs(w) + 1, Len(w))

\* <integer>
Ints(x) == LET w == Trim(x) IN
  IF Number(w) # <<>> /\ ToSet(Number(w)) \subseteq Digits
  THEN {IF Minuses(w) % 2 = 1 THEN -DigitsValue(Number(w)) ELSE DigitsValue(Number(w))} ELSE {}

\* A pattern <base> [":" <num> [":" <stride>]], Base and Shift given.
Patterns(w, Base(_), Shift(_, _)) ==
  LET Copies(b, n, d) == [k \in 1 .. n |-> Shift(b, d * (k - 1))]
      Pos(x) == {n \in Ints(x) : n > 0 /\ n < MAX_NUM_ELEMS}
  IN {<<b>> : b \in Base(w)}
     \cup UNION {{Copies(b, n, 1) : b \in Base(p[1]), n \in Pos(p[2])} : p \in Splits(w, ":")}
     \cup UNION {UNION {{Copies(b, n, d) : b \in Base(q[1]), n \in Pos(q[2]), d \in Ints(p[2])}
                         : q \in Splits(p[1], ":")} : p \in Splits(w, ":")}

IdInterval(w) == Patterns(w, Ints, LAMBDA b, d : b + d)

RECURSIVE IdList(_)
IdList(w) == IdInterval(w)
             \cup UNION {{a \o b : a \in IdList(p[1]), b \in IdInterval(p[2])} : p \in Splits(w, ",")}

EsIdList(x) == LET w == Trim(x) IN
  {<<i>> : i \in Ints(w)}
  \cup IF Len(w) > 1 /\ w[1] = "{" /\ Last(w) = "}" THEN IdList(SubSeq(w, 2, Len(w) - 1)) ELSE {}

Interval(w) == Patterns(w, EsIdList, LAMBDA b, d : [j \in DOMAIN b |-> b[j] + d])

RECURSIVE List(_)
List(w) == Interval(w)
           \cup UNION {{a \o b : a \in List(p[1]), b \in Interval(p[2])} : p \in Splits(w, ",")}

-----------------------------------------------------------------------------
(* The strings.                                                              *)

\* Behind w some string is legal: w can be completed by one of these endings.
Endings == {<<>>, <<"1">>, <<"}">>, <<"1", "}">>}
Promising(w) == \E e \in Endings : parse_list(w \o e).ok

Init == str = <<>>
Next == /\ Len(str) < AnyLen \/ (Len(str) < MaxLen /\ Promising(str))
        /\ \E c \in Chars : str' = Append(str, c)
Spec == Init /\ [][Next]_str

-----------------------------------------------------------------------------
(* Properties.                                                               *)

\* Every stream is bound to the CPUs that the documented grammar gives it: the
\* parser accepts the legal strings and no others, an interval starts at its
\* base and a stream takes list rank % N; CPU numbers wrap around the CPUs of
\* the process, also below zero; an illegal string binds each stream to a CPU.
AffinityAgrees ==
  LET p == parse_list(str) d == List(str)
  IN /\ d = (IF p.ok THEN {p.lists} ELSE {})
     /\ \A initial \in CpuSets, r \in Ranks :
          LET n == Len(initial)
          IN Bound(p, initial, r) =
               IF d = {} THEN {initial[(r % n) + 1]}
               ELSE LET l == CHOOSE x \in d : TRUE
                    IN {initial[k + 1] : k \in {k \in 0 .. n - 1 :
                          \E id \in ToSet(l[(r % Len(l)) + 1]) : (id - k) % n = 0}}

\* The integer of a string: the true value, saturated at the limits of its type,
\* with overflow reported exactly when saturation changed it; an error exactly
\* when there is no digit behind blanks and signs.
AtoiSaturates ==
  LET w == LET solid == {i \in DOMAIN str : str[i] \notin White}
           IN IF solid = {} THEN <<>> ELSE SubSeq(str, Min(solid), Len(str))
      rest == Number(w)
      digits == SubSeq(rest, 1, Cardinality({i \in DOMAIN rest : \A j \in 1 .. i : rest[j] \in Digits}))
      v == IF Minuses(w) % 2 = 1 THEN -DigitsValue(digits) ELSE DigitsValue(digits)
      Clamp(lo, hi) == LET x == Max({lo, Min({hi, v})}) IN Parsed(TRUE, x, x # v)
  IN IF digits = <<>>
     THEN ~ABTU_atoi(str).ok /\ ~ABTU_atoui32(str).ok /\ ~ABTU_atoui64(str).ok
     ELSE /\ ABTU_atoi(str) = Clamp(-INT_MAX - 1, INT_MAX)
          /\ ABTU_atoui32(str) = Clamp(0, UINT32_MAX)
          /\ ABTU_atoui64(str) = Clamp(0, UINT64_MAX)

\* The sizes taken from the environment suit their use: the key table has a
\* power of two of entries, at least as many as asked for; a stack page holds
\* four stacks, unless four stacks exceed what size_t can hold.
SizesFit ==
  LET bits == 6 line == 4
      k == key_table_size(str, bits)
      stack == stacksize(str, 8, line)
  IN /\ k \in {2 ^ i : i \in 0 .. bits - 1}
     /\ k >= Load(ABTU_atoui32(str), 4, 1, UINT32_MAX \div 2)
     /\ stack * 4 <= UINT64_MAX => mem_sp_size(str, stack, 16, line) >= stack * 4
=============================================================================
