------------------------------- MODULE Strings -------------------------------
(***************************************************************************)
(* String functions: the inline assembly of Linux 0.01 (string.h) and the  *)
(* loops of the kernel's common.c.  Memory is a function from addresses to *)
(* bytes with their sign; a function does on it what its instructions do,  *)
(* byte by byte where it writes.  Addresses start at 1 and 0 is NULL.      *)
(***************************************************************************)
EXTENDS Integers, Sequences, SequencesExt, FiniteSetsExt

CONSTANTS
  SIZE,         \* bytes of memory
  Chars         \* bytes, 0 among them, those above 127 negative

VARIABLE sm     \* memory, the call that made it so, and the state of strtok

Addresses == 1 .. SIZE
Null == 0

\* repne scasb for 0: the bytes of the string at s, and where it ends.
Strlen(m, s) == Min({k \in 0 .. (SIZE - s) : m[s + k] = 0})
Ends(m, s) == s + Strlen(m, s)
IsString(m, s) == \E e \in s .. SIZE : m[e] = 0

\* repne scasb in the string at t.
OneOf(m, t, c) == \E k \in 0 .. (Strlen(m, t) - 1) : m[t + k] = c

\* A loop of at most n turns that may end early.
Loop(Turn(_), a, n) == FoldLeft(LAMBDA b, k : IF b.going THEN Turn(b) ELSE b, a, [k \in 1 .. n |-> k])

-----------------------------------------------------------------------------
\* lodsb, stosb, and the test of the byte copied.
CopyByte(a) ==
  LET c == a.m[a.s]
  IN  [a EXCEPT !.m[a.d] = c, !.d = @ + 1, !.s = @ + 1, !.going = c # 0]

Copying(m, d, s) == [m |-> m, d |-> d, s |-> s, going |-> TRUE]

\* rep stosb.
Memset(m, d, c, n) == [a \in Addresses |-> IF d <= a /\ a < d + n THEN c ELSE m[a]]

Strcpy(m, d, s) == Loop(CopyByte, Copying(m, d, s), SIZE).m

\* The count that is left behind the 0 is filled with it.
Strncpy(m, d, s, n) ==
  LET a == Loop(CopyByte, Copying(m, d, s), n)
  IN  Memset(a.m, a.d, 0, d + n - a.d)

Strcat(m, d, s) == Loop(CopyByte, Copying(m, Ends(m, d), s), SIZE).m

\* A 0 is stored behind the loop, also when the loop has just copied one.
Strncat(m, d, s, n) ==
  LET a == Loop(CopyByte, Copying(m, Ends(m, d), s), n)
  IN  Memset(a.m, a.d, 0, 1)

\* rep movsb, upwards and downwards.
Upwards(m, d, s, n) ==
  FoldLeft(LAMBDA r, k : [r EXCEPT ![d + k - 1] = r[s + k - 1]], m, [k \in 1 .. n |-> k])
Downwards(m, d, s, n) ==
  FoldLeft(LAMBDA r, k : [r EXCEPT ![d + n - k] = r[s + n - k]], m, [k \in 1 .. n |-> k])

Memcpy(m, d, s, n) == Upwards(m, d, s, n)


Memmove(m, d, s, n) == IF d < s THEN Upwards(m, d, s, n) ELSE Downwards(m, d, s, n)

-----------------------------------------------------------------------------
\* The first difference of two strings within n bytes, if it comes before both end.
Difference(m, s, t, n) ==
  LET stops == {k \in 0 .. (n - 1) : k <= Strlen(m, s) /\ k <= Strlen(m, t)
                                     /\ m[s + k] # m[t + k]}
  IN  IF stops = {} THEN -1 ELSE Min(stops)

\* jl: bytes are compared with their sign.
Strncmp(m, s, t, n) ==
  LET k == Difference(m, s, t, n)
  IN  IF k = -1 THEN 0 ELSE IF m[t + k] < m[s + k] THEN 1 ELSE -1

Strcmp(m, s, t) == Strncmp(m, s, t, SIZE)

\* memcmp does not stop at 0; n is not 0, which would leave the flags as they were.
Memcmp(m, s, t, n) ==
  LET stops == {k \in 0 .. (n - 1) : m[s + k] # m[t + k]}
  IN  IF stops = {} THEN 0
      ELSE LET k == Min(stops) IN IF m[t + k] < m[s + k] THEN 1 ELSE -1

\* The first c, the 0 at the end included, or NULL; the last one.
Strchr(m, s, c) ==
  LET found == {a \in s .. Ends(m, s) : m[a] = c} IN IF found = {} THEN Null ELSE Min(found)
Strrchr(m, s, c) ==
  LET found == {a \in s .. Ends(m, s) : m[a] = c} IN IF found = {} THEN Null ELSE Max(found)
Memchr(m, s, c, n) ==
  LET found == {a \in s .. (s + n - 1) : m[a] = c} IN IF found = {} THEN Null ELSE Min(found)

Strspn(m, s, t) == Min({k \in 0 .. Strlen(m, s) : m[s + k] = 0 \/ ~OneOf(m, t, m[s + k])})
Strcspn(m, s, t) == Min({k \in 0 .. Strlen(m, s) : m[s + k] = 0 \/ OneOf(m, t, m[s + k])})
Strpbrk(m, s, t) ==
  IF m[s + Strcspn(m, s, t)] = 0 THEN Null ELSE s + Strcspn(m, s, t)

\* The byte that broke the comparison was the end of the string searched.
Hopeless(m, at, k) == m[at + k] = 0

\* strstr: compare, else move on by one byte.
Strstr(m, s, t) ==
  LET n == Strlen(m, t)
      turn(a) == LET k == Min({j \in 0 .. Min({n, Strlen(m, a.at)}) : j = n \/ m[a.at + j] # m[t + j]})
                 IN  IF k = n THEN [a EXCEPT !.found = a.at, !.going = FALSE]
                     ELSE [a EXCEPT !.at = @ + 1, !.going = ~Hopeless(m, a.at, k)]
  IN  Loop(turn, [at |-> s, found |-> Null, going |-> TRUE], SIZE).found

-----------------------------------------------------------------------------
\* Where the next call goes on: behind the delimiter that was overwritten.
TokenRest(e) == e + 1

(***************************************************************************)
(* strtok(s, ct): s or, for NULL, where the last call stopped.  Delimiters *)
(* are passed over; the token is ended in place.                           *)
(***************************************************************************)
Strtok(m, saved, s, t) ==
  LET from == IF s # Null THEN s ELSE saved
      begin == from + Strspn(m, from, t)
      end == begin + Strcspn(m, begin, t)
  IN  IF from = Null \/ Strlen(m, t) = 0 \/ m[begin] = 0
      THEN [m |-> m, token |-> Null, saved |-> Null]
      ELSE IF m[end] = 0 THEN [m |-> m, token |-> begin, saved |-> Null]
      ELSE [m |-> [m EXCEPT ![end] = 0], token |-> begin, saved |-> TokenRest(end)]

-----------------------------------------------------------------------------
\* The kernel's own (common.c): bytes without their sign, and copies upwards.
Unsigned(c) == IF c < 0 THEN 256 + c ELSE c
KStrcmp(m, s, t) ==
  LET k == Difference(m, s, t, SIZE)
  IN  IF k = -1 THEN 0 ELSE Unsigned(m[s + k]) - Unsigned(m[t + k])
KMemcpy(m, d, s, n) == Upwards(m, d, s, n)

\* memset with len counting down, the byte kept as a char.
KMemset(m, d, c, n) ==
  FoldLeft(LAMBDA r, k : [r EXCEPT ![d + k - 1] = c], m, [k \in 1 .. n |-> k])

-----------------------------------------------------------------------------
\* Calls with any memory and arguments that C allows: strings that end, room for
\* what is written, and no overlap but for memmove.
Apart(d, s, dn, sn) == d + dn <= s \/ s + sn <= d

Called(name, d, s, n, m) ==
  sm' = [sm EXCEPT !.m = m, !.old = sm.m, !.call = [name |-> name, d |-> d, s |-> s, n |-> n]]

CallStrcpy(d, s) ==
  /\ IsString(sm.m, s) /\ d + Strlen(sm.m, s) <= SIZE
  /\ Apart(d, s, Strlen(sm.m, s) + 1, Strlen(sm.m, s) + 1)
  /\ Called("strcpy", d, s, SIZE, Strcpy(sm.m, d, s))

CallStrncpy(d, s, n) ==
  /\ IsString(sm.m, s) /\ d + n - 1 <= SIZE /\ Apart(d, s, n, Strlen(sm.m, s) + 1)
  /\ Called("strncpy", d, s, n, Strncpy(sm.m, d, s, n))

\* One byte more than C asks for, as the code may store two zeros.
CallStrncat(d, s, n) ==
  /\ IsString(sm.m, s) /\ IsString(sm.m, d)
  /\ LET len == Min({n, Strlen(sm.m, s)})
     IN  /\ Ends(sm.m, d) + len + 1 <= SIZE
         /\ Apart(d, s, Strlen(sm.m, d) + len + 2, Strlen(sm.m, s) + 1)
  /\ \/ Called("strncat", d, s, n, Strncat(sm.m, d, s, n))
     \/ n = SIZE /\ Called("strcat", d, s, n, Strcat(sm.m, d, s))

CallMemmove(d, s, n) ==
  /\ d + n - 1 <= SIZE /\ s + n - 1 <= SIZE
  /\ \/ Called("memmove", d, s, n, Memmove(sm.m, d, s, n))
     \/ Apart(d, s, n, n) /\ Called("memmove", d, s, n, Memcpy(sm.m, d, s, n))
     \/ Apart(d, s, n, n) /\ Called("memmove", d, s, n, KMemcpy(sm.m, d, s, n))

CallMemset(d, c, n) ==
  /\ d + n - 1 <= SIZE
  /\ \/ Called("memset", d, c, n, Memset(sm.m, d, c, n))
     \/ Called("memset", d, c, n, KMemset(sm.m, d, c, n))

\* The functions that only read.
CallSearches(s, t) ==
  /\ IsString(sm.m, s) /\ IsString(sm.m, t)
  /\ Called("search", s, t, 0, sm.m)

\* A walk over the string at s with the delimiters at t.
CallStrtok(s, t) ==
  /\ IsString(sm.m, s) /\ IsString(sm.m, t)
  /\ Apart(s, t, Strlen(sm.m, s) + 1, Strlen(sm.m, t) + 1)
  /\ LET r == Strtok(sm.m, Null, s, t)
     IN  sm' = [sm EXCEPT !.m = r.m, !.old = sm.m, !.saved = r.saved,
                          !.tokens = IF r.token = Null THEN <<>> ELSE <<r.token>>,
                          !.call = [name |-> "strtok", d |-> s, s |-> t, n |-> 0]]

NextToken ==
  /\ sm.call.name = "strtok" /\ sm.call.n = 0
  /\ LET r == Strtok(sm.m, sm.saved, Null, sm.call.s)
     IN  sm' = [sm EXCEPT !.m = r.m, !.saved = r.saved, !.call.n = IF r.token = Null THEN 1 ELSE 0,
                          !.tokens = IF r.token = Null THEN @ ELSE Append(@, r.token)]

NoCall == [name |-> "none", d |-> 0, s |-> 0, n |-> 0]

GInit == \E m \in [Addresses -> Chars] :
  sm = [m |-> m, old |-> m, saved |-> Null, tokens |-> <<>>, call |-> NoCall]

GNext ==
  \/ /\ sm.call = NoCall
     /\ \E d, s \in Addresses :
          \/ \E c \in Chars : CallMemset(d, c, SIZE - s)
          \/ CallStrcpy(d, s) \/ CallStrtok(d, s) \/ CallSearches(d, s)
          \/ \E n \in 0 .. SIZE : CallStrncpy(d, s, n) \/ CallStrncat(d, s, n) \/ CallMemmove(d, s, n)
  \/ NextToken

GSpec == GInit /\ [][GNext]_sm

-----------------------------------------------------------------------------
\* References, on strings as sequences.
Str(m, s) == SubSeq(m, s, Ends(m, s) - 1)
Prefix(q, n) == SubSeq(q, 1, Min({n, Len(q)}))
Same(from, to) == \A a \in Addresses : ~(from <= a /\ a < to) => sm.m[a] = sm.old[a]

\* strcpy, strncpy, strcat, strncat, memmove, memcpy, memset: the destination holds what C says, and
\* no byte outside it has changed (one zero more for strncat).
CopiesAreExact ==
  LET c == sm.call
      target == {a \in Addresses : c.d <= a /\ a < c.d + c.n}
      src == Str(sm.old, c.s)
      head == Str(sm.old, c.d)
      joined == head \o Prefix(src, c.n)
  IN  CASE c.name = "strcpy" -> Str(sm.m, c.d) = src /\ Same(c.d, c.d + Len(src) + 1)
        [] c.name = "strncpy" ->
             /\ \A k \in 1 .. c.n : sm.m[c.d + k - 1] = IF k <= Len(src) THEN src[k] ELSE 0
             /\ Same(c.d, c.d + c.n)
        [] c.name = "strcat" -> Str(sm.m, c.d) = joined /\ Same(c.d, c.d + Len(joined) + 1)
        [] c.name = "strncat" -> Str(sm.m, c.d) = joined /\ Same(c.d, c.d + Len(joined) + 2)
        [] c.name = "memmove" ->
             /\ \A k \in 0 .. (c.n - 1) : sm.m[c.d + k] = sm.old[c.s + k]
             /\ Same(c.d, c.d + c.n)
        [] c.name = "memset" -> (\A a \in target : sm.m[a] = c.s) /\ Same(c.d, c.d + c.n)
        [] OTHER -> TRUE

\* strncmp, strcmp, strchr, strrchr, strstr, strpbrk, strspn on any two strings: the
\* order is that of the first n bytes, a substring is found where it first occurs.
SearchesAgree ==
  sm.call.name = "search" =>
    LET s == sm.call.d
        t == sm.call.s
        a == Str(sm.m, s)
        b == Str(sm.m, t)
        occurs == {i \in 0 .. (Len(a) - Len(b)) : SubSeq(a, i + 1, i + Len(b)) = b}
    IN  /\ Strstr(sm.m, s, t) = IF occurs = {} THEN Null ELSE s + Min(occurs)
        /\ \A n \in 0 .. SIZE :
             /\ Strncmp(sm.m, s, t, n) = 0 <=> Prefix(a, n) = Prefix(b, n)
             /\ Strncmp(sm.m, s, t, n) = -Strncmp(sm.m, t, s, n)
        /\ \A n \in 1 .. SIZE + 1 - Max({s, t}) :
             Memcmp(sm.m, s, t, n) = 0
               <=> \A k \in 0 .. (n - 1) : Memchr(sm.m, s + k, sm.m[t + k], 1) = s + k
        /\ (KStrcmp(sm.m, s, t) = 0) = (Strcmp(sm.m, s, t) = 0)
        /\ Strspn(sm.m, s, t) = Len(a) <=> ToSet(a) \subseteq ToSet(b)
        /\ Strpbrk(sm.m, s, t) = Null <=> ToSet(a) \cap ToSet(b) = {}
        /\ Strchr(sm.m, s, 0) = Strrchr(sm.m, s, 0) /\ Strchr(sm.m, s, 0) = Ends(sm.m, s)

\* strtok: a walk to the end yields the maximal runs without delimiters of the
\* string as it was, in order, each ended in place.
TokensAreRuns ==
  sm.call.name = "strtok" /\ sm.call.n = 1 /\ Strlen(sm.old, sm.call.s) > 0 =>
    LET s == sm.call.d
        part(a) == a \in s .. (Ends(sm.old, s) - 1) /\ ~OneOf(sm.old, sm.call.s, sm.old[a])
        starts == {a \in Addresses : part(a) /\ ~part(a - 1)}
    IN  /\ sm.tokens = SetToSortSeq(starts, <)
        /\ \A a \in starts :
             sm.m[a + Strlen(sm.m, a)] = 0 /\ ~part(a + Strlen(sm.m, a))
               /\ \A b \in a .. (a + Strlen(sm.m, a) - 1) : part(b) /\ sm.m[b] = sm.old[b]


=============================================================================
