--------------------------- MODULE Terminal_proofs ---------------------------
(***************************************************************************)
(* The screens, the command lines and the directories of Terminal.tla are  *)
(* right for consoles, buffers and texts of any size.                      *)
(*                                                                         *)
(* What a fold over a text computes is the last value of a function of the *)
(* lengths of its prefixes, which goes from each to the next by a step of  *)
(* the fold.  That there is one (IterationExists) and what holds along it  *)
(* (Induction, SameRuns) are inductions over numbers: the set of numbers   *)
(* where the claim fails would have a least one (LeastNumber).             *)
(***************************************************************************)
EXTENDS Terminal, Lists_proofs

-----------------------------------------------------------------------------
(* Places on the screen                                                    *)

LEMMA Sizes ==
    /\ NR_CONSOLE \in Nat /\ 0 \in Tty /\ \A t \in Tty : t \in Nat /\ t < NR_CONSOLE
    /\ SCREEN_WIDTH \in Nat /\ SCREEN_WIDTH > 0
    /\ ConsoleCells \in Nat /\ ConsoleCells > SCREEN_WIDTH
    /\ TTY_IN_BYTES \in Nat /\ TTY_IN_BYTES > 0
<1>1. NR_CONSOLE \in Nat /\ NR_CONSOLE >= 1
    BY SizesAssumption DEF digit
<1> QED BY <1>1, SizesAssumption DEF Tty

LEMMA Apart ==
    ASSUME NEW t \in Nat, NEW u \in Nat, t < u
    PROVE  t * ConsoleCells + ConsoleCells <= u * ConsoleCells
<1>1. ConsoleCells \in Nat /\ u - t - 1 \in Nat
    BY Sizes
<1>2. (u - t - 1) * ConsoleCells \in Nat
    BY <1>1
<1>3. u * ConsoleCells = (u - t - 1) * ConsoleCells + t * ConsoleCells + ConsoleCells
    BY <1>1
<1> QED BY <1>1, <1>2, <1>3

LEMMA Addresses ==
    ASSUME NEW t \in Tty
    PROVE  /\ v_mem_addr(t) \in Nat /\ v_mem_addr(t + 1) = v_mem_addr(t) + ConsoleCells
           /\ v_mem_addr(t) + ConsoleCells <= NR_CONSOLE * ConsoleCells
           /\ NR_CONSOLE * ConsoleCells \in Nat
           /\ \A u \in Tty : t < u => v_mem_addr(t) + ConsoleCells <= v_mem_addr(u)
<1>1. t \in Nat /\ t < NR_CONSOLE /\ NR_CONSOLE \in Nat /\ ConsoleCells \in Nat
    BY Sizes
<1>2. t * ConsoleCells \in Nat /\ NR_CONSOLE * ConsoleCells \in Nat
      /\ (t + 1) * ConsoleCells = t * ConsoleCells + ConsoleCells
    BY <1>1
<1>3. t * ConsoleCells + ConsoleCells <= NR_CONSOLE * ConsoleCells
    BY <1>1, Apart
<1>4. \A u \in Tty : t < u => t * ConsoleCells + ConsoleCells <= u * ConsoleCells
    BY <1>1, Sizes, Apart
<1> QED BY <1>2, <1>3, <1>4 DEF v_mem_addr

LEMMA FirstAddress == v_mem_addr(0) = 0
BY Sizes DEF v_mem_addr

LEMMA RowOf ==
    ASSUME NEW r \in Int, NEW c \in 0 .. SCREEN_WIDTH - 1
    PROVE  /\ SCREEN_WIDTH * r \in Int /\ r * SCREEN_WIDTH = SCREEN_WIDTH * r
           /\ (r * SCREEN_WIDTH + c) \div SCREEN_WIDTH = r
           /\ SCREEN_WIDTH * (r + 1) = SCREEN_WIDTH * r + SCREEN_WIDTH
           /\ (r + 1) * SCREEN_WIDTH = r * SCREEN_WIDTH + SCREEN_WIDTH
           /\ (r - 1) * SCREEN_WIDTH = r * SCREEN_WIDTH - SCREEN_WIDTH
<1>1. SCREEN_WIDTH \in Nat /\ SCREEN_WIDTH > 0 /\ c \in Int /\ 0 <= c /\ c < SCREEN_WIDTH
    BY Sizes
<1>2. SCREEN_WIDTH * r \in Int /\ r * SCREEN_WIDTH = SCREEN_WIDTH * r
      /\ SCREEN_WIDTH * (r + 1) = SCREEN_WIDTH * r + SCREEN_WIDTH
      /\ (r + 1) * SCREEN_WIDTH = r * SCREEN_WIDTH + SCREEN_WIDTH
      /\ (r - 1) * SCREEN_WIDTH = r * SCREEN_WIDTH - SCREEN_WIDTH
    BY <1>1
<1>3. (r * SCREEN_WIDTH + c) \div SCREEN_WIDTH = r
    BY <1>1, <1>2, SMTT(20)
<1> QED BY <1>2, <1>3

LEMMA RowStarts ==
    ASSUME NEW p \in Nat
    PROVE  /\ p \div SCREEN_WIDTH \in Nat /\ p % SCREEN_WIDTH \in 0 .. SCREEN_WIDTH - 1
           /\ SCREEN_WIDTH * (p \div SCREEN_WIDTH) + (p % SCREEN_WIDTH) = p
<1>1. SCREEN_WIDTH \in Nat /\ SCREEN_WIDTH > 0
    BY Sizes
<1> QED BY <1>1, SMTT(20)

LEMMA NextLine ==
    ASSUME NEW t \in Tty, NEW c \in Int, c >= v_mem_addr(t)
    PROVE  next_line(t, c) \in Int /\ c < next_line(t, c) /\ next_line(t, c) <= c + SCREEN_WIDTH
<1> DEFINE p == c - v_mem_addr(t)
<1>1. v_mem_addr(t) \in Nat /\ p \in Nat
    BY Addresses
<1>2. /\ p \div SCREEN_WIDTH \in Nat /\ p % SCREEN_WIDTH \in 0 .. SCREEN_WIDTH - 1
      /\ SCREEN_WIDTH * (p \div SCREEN_WIDTH) + (p % SCREEN_WIDTH) = p
    <2> HIDE DEF p
    <2> QED BY <1>1, RowStarts
<1>3. /\ SCREEN_WIDTH * (p \div SCREEN_WIDTH) \in Int
      /\ SCREEN_WIDTH * (p \div SCREEN_WIDTH + 1) = SCREEN_WIDTH * (p \div SCREEN_WIDTH) + SCREEN_WIDTH
    <2>1. 0 \in 0 .. SCREEN_WIDTH - 1
        BY Sizes
    <2> HIDE DEF p
    <2> QED BY <1>2, <2>1, RowOf
<1>4. next_line(t, c) = v_mem_addr(t) + SCREEN_WIDTH * (p \div SCREEN_WIDTH + 1)
    BY DEF next_line
<1>5. c = v_mem_addr(t) + p
    BY <1>1
<1> DEFINE q == SCREEN_WIDTH * (p \div SCREEN_WIDTH)
           r == p % SCREEN_WIDTH
<1>6. q \in Int /\ r \in 0 .. SCREEN_WIDTH - 1 /\ p = q + r /\ SCREEN_WIDTH \in Nat
      /\ next_line(t, c) = v_mem_addr(t) + q + SCREEN_WIDTH
    BY <1>2, <1>3, <1>4, <1>1, Sizes
<1> HIDE DEF q, r, p
<1> QED BY <1>1, <1>5, <1>6

-----------------------------------------------------------------------------
(* What a fold computes, one element after the other                       *)

LEMMA Induction ==
    ASSUME NEW n \in Nat, NEW T, 0 \in T, \A i \in 1 .. n : i - 1 \in T => i \in T
    PROVE  0 .. n \subseteq T
<1> SUFFICES ASSUME ~(0 .. n \subseteq T) PROVE FALSE
    OBVIOUS
<1> DEFINE Missed == {i \in 0 .. n : i \notin T}
<1>1. PICK m \in Missed : \A k \in Missed : m <= k
    <2>1. Missed \in SUBSET Nat /\ Missed # {}
        OBVIOUS
    <2> HIDE DEF Missed
    <2> QED BY <2>1, LeastNumber
<1>2. m \in 1 .. n /\ m - 1 \in 0 .. n /\ ~(m <= m - 1)
    BY <1>1
<1>3. m - 1 \in T
    BY <1>1, <1>2
<1> QED BY <1>1, <1>2, <1>3

LEMMA MaxOf ==
    ASSUME NEW n \in Nat, NEW s \in SUBSET (1 .. n), s # {}
    PROVE  Max(s) \in s /\ \A i \in s : i <= Max(s)
<1> DEFINE Above == {k \in Nat : \A i \in s : i <= k}
<1>1. n \in Above /\ Above \in SUBSET Nat
    OBVIOUS
<1>2. PICK m \in Above : \A k \in Above : m <= k
    <2> HIDE DEF Above
    <2> QED BY <1>1, LeastNumber
<1>3. m \in s
    <2> SUFFICES ASSUME m \notin s PROVE FALSE
        OBVIOUS
    <2>1. m \in Nat /\ \A i \in s : i \in 1 .. n /\ i <= m
        BY <1>2
    <2>2. \A i \in s : i # m
        OBVIOUS
    <2>3. \A i \in s : i <= m - 1 /\ m - 1 \in Nat
        BY <2>1, <2>2
    <2>4. m - 1 \in Nat
        BY <2>3
    <2>5. m - 1 \in Above
        BY <2>3, <2>4
    <2>6. m <= m - 1
        BY <2>5, <1>2
    <2> QED BY <2>6, <2>1
<1>4. \A i \in s : m >= i
    BY <1>2
<1>5. \E x \in s : \A y \in s : x >= y
    BY <1>3, <1>4
<1>6. Max(s) \in s /\ \A y \in s : Max(s) >= y
    BY <1>5 DEF Max
<1>7. \A i \in s : i \in Nat
    OBVIOUS
<1>8. Max(s) \in Nat
    BY <1>6, <1>7
<1> QED BY <1>6, <1>7, <1>8

\* the recursive function that a fold is made of
Iterates(it, n, b, step) == \A s \in SUBSET (1 .. n) :
    it[s] = IF s = {} THEN b ELSE step[Max(s)][it[s \ {Max(s)}]]

LEMMA IterationExists ==
    ASSUME NEW n \in Nat, NEW S, NEW b \in S, NEW step \in [1 .. n -> [S -> S]]
    PROVE  \E it \in [SUBSET (1 .. n) -> S] : Iterates(it, n, b, step)
<1> DEFINE T == {m \in 0 .. n : \E it \in [SUBSET (1 .. m) -> S] : Iterates(it, m, b, step)}
<1>1. 0 \in T
    <2> DEFINE it == [s \in SUBSET (1 .. 0) |-> b]
    <2>1. it \in [SUBSET (1 .. 0) -> S] /\ Iterates(it, 0, b, step)
        BY DEF Iterates
    <2> QED BY <2>1
<1>2. ASSUME NEW m \in 1 .. n, m - 1 \in T PROVE m \in T
    <2>1. PICK it \in [SUBSET (1 .. m - 1) -> S] : Iterates(it, m - 1, b, step)
        BY <1>2
    <2> DEFINE nx == [s \in SUBSET (1 .. m) |-> IF m \in s THEN step[m][it[s \ {m}]] ELSE it[s]]
    <2>2. ASSUME NEW s \in SUBSET (1 .. m), m \in s
          PROVE  s \ {m} \in SUBSET (1 .. m - 1) /\ Max(s) = m
        <3>1. s # {} /\ m \in Nat
            BY <2>2
        <3>2. Max(s) \in s /\ m <= Max(s)
            BY <2>2, <3>1, MaxOf
        <3>3. \A i \in s : i \in 1 .. m
            OBVIOUS
        <3>4. Max(s) \in 1 .. m
            BY <3>2, <3>3
        <3>5. Max(s) = m
            BY <3>1, <3>2, <3>4
        <3>6. \A i \in s \ {m} : i \in 1 .. m - 1
            BY <3>1, <3>3
        <3> QED BY <3>5, <3>6
    <2>3. ASSUME NEW s \in SUBSET (1 .. m), m \notin s
          PROVE  s \in SUBSET (1 .. m - 1)
        BY <2>3
    <2>4. nx \in [SUBSET (1 .. m) -> S]
        <3> SUFFICES ASSUME NEW s \in SUBSET (1 .. m)
                     PROVE  (IF m \in s THEN step[m][it[s \ {m}]] ELSE it[s]) \in S
            OBVIOUS
        <3> QED BY <2>2, <2>3
    <2>5. Iterates(nx, m, b, step)
        <3> SUFFICES ASSUME NEW s \in SUBSET (1 .. m)
                     PROVE  nx[s] = IF s = {} THEN b ELSE step[Max(s)][nx[s \ {Max(s)}]]
            BY DEF Iterates
        <3>1. CASE m \in s
            <4>1. nx[s] = step[m][it[s \ {m}]]
                BY <3>1
            <4>2. nx[s \ {m}] = it[s \ {m}]
                BY <2>2, <3>1
            <4> QED BY <4>1, <4>2, <2>2, <3>1
        <3>2. CASE m \notin s
            <4>1. nx[s] = it[s] /\ s \in SUBSET (1 .. m - 1)
                BY <3>2, <2>3
            <4>2. nx[s \ {Max(s)}] = it[s \ {Max(s)}]
                BY <3>2
            <4> QED BY <4>1, <4>2, <2>1 DEF Iterates
        <3> QED BY <3>1, <3>2
    <2>6. m \in 0 .. n
        OBVIOUS
    <2> HIDE DEF nx
    <2> QED BY <2>4, <2>5, <2>6
<1>3. n \in T
    <2>1. n \in 0 .. n
        OBVIOUS
    <2> HIDE DEF T
    <2>2. 0 .. n \subseteq T
        BY <1>1, <1>2, Induction
    <2> QED BY <2>1, <2>2
<1> QED BY <1>3

\* what such a function is on 1 .. k is what the fold has after k elements
Computes(run, n, S, b, step) ==
    /\ run[{}] = b
    /\ \A k \in 1 .. n : run[1 .. k - 1] \in S => run[1 .. k] = step[k][run[1 .. k - 1]]

Runs(f, n, S, b, step) ==
    /\ f \in [0 .. n -> S] /\ f[0] = b
    /\ \A k \in 1 .. n : f[k] = step[k][f[k - 1]]

\* a fold of n steps over S
Fold(n, S, b, step) == n \in Nat /\ b \in S /\ step \in [1 .. n -> [S -> S]]

HasRun(run, n, S, b, step) == \E f : Runs(f, n, S, b, step) /\ f[n] = run[1 .. n]

LEMMA RunAlong ==
    ASSUME NEW n, NEW S, NEW b, NEW step, NEW run, Fold(n, S, b, step), Computes(run, n, S, b, step)
    PROVE  HasRun(run, n, S, b, step)
<1> DEFINE T == {k \in 0 .. n : run[1 .. k] \in S}
           f == [k \in 0 .. n |-> run[1 .. k]]
<1>1. n \in Nat /\ b \in S /\ step \in [1 .. n -> [S -> S]] /\ 1 .. 0 = {}
    BY DEF Fold
<1>2. 0 \in T
    BY <1>1 DEF Computes
<1>3. ASSUME NEW k \in 1 .. n, k - 1 \in T PROVE k \in T
    BY <1>1, <1>3 DEF Computes
<1>4. 0 .. n \subseteq T
    <2> HIDE DEF T
    <2> QED BY <1>1, <1>2, <1>3, Induction
<1>5. \A k \in 0 .. n : run[1 .. k] \in S
    BY <1>4
<1>6. \A k \in 1 .. n : k - 1 \in 0 .. n /\ k \in 0 .. n
    BY <1>1
<1>7. f \in [0 .. n -> S] /\ f[0] = b /\ f[n] = run[1 .. n]
    BY <1>1, <1>5 DEF Computes
<1>8. \A k \in 1 .. n : f[k] = step[k][f[k - 1]]
    BY <1>5, <1>6 DEF Computes
<1> HIDE DEF f
<1> QED BY <1>7, <1>8 DEF Runs, HasRun

LEMMA Initial ==
    ASSUME NEW n \in Nat, NEW k \in 1 .. n
    PROVE  /\ 1 .. k \in SUBSET (1 .. n) /\ 1 .. k # {}
           /\ Max(1 .. k) = k /\ (1 .. k) \ {k} = 1 .. k - 1
<1>1. 1 .. k \in SUBSET (1 .. n) /\ k \in 1 .. k
    OBVIOUS
<1>2. Max(1 .. k) \in 1 .. k /\ k <= Max(1 .. k)
    BY <1>1, MaxOf
<1> QED BY <1>1, <1>2

LEMMA EditedAlong ==
    ASSUME NEW V, NEW keys \in Seq(V)
    PROVE  \E f \in [0 .. Len(keys) -> Seq(V)] :
              /\ f[0] = <<>> /\ f[Len(keys)] = Edited(keys)
              /\ \A k \in 1 .. Len(keys) : f[k] = Edit(f[k - 1], keys[k])
<1> DEFINE n == Len(keys)
           S == Seq(V)
           b == <<>>
           step == [i \in 1 .. n |-> [x \in S |-> Edit(x, keys[i])]]
           Recursion(it) == it = [s \in SUBSET (DOMAIN keys) |->
               IF s = {} THEN b ELSE Edit(it[s \ {Max(s)}], keys[Max(s)])]
           run == CHOOSE it : Recursion(it)
<1>1. DOMAIN keys = 1 .. n /\ n \in Nat /\ \A k \in 1 .. n : keys[k] \in V
    OBVIOUS
<1>2. b \in S /\ \A x \in S : \A c \in V : Edit(x, c) \in S
    BY DEF Edit
<1> HIDE DEF n, b
<1>3. step \in [1 .. n -> [S -> S]]
    <2>1. ASSUME NEW k \in 1 .. n PROVE [x \in S |-> Edit(x, keys[k])] \in [S -> S]
        <3> HIDE DEF S
        <3> QED BY <1>1, <1>2
    <2> HIDE DEF S
    <2> QED BY <2>1
<1>4. Recursion(run)
    <2>1. PICK it \in [SUBSET (1 .. n) -> S] : Iterates(it, n, b, step)
        <3> HIDE DEF step, S
        <3> QED BY <1>1, <1>2, <1>3, IterationExists
    <2> HIDE DEF S
    <2>2. Recursion(it)
        <3>1. ASSUME NEW s \in SUBSET (1 .. n), s # {}
              PROVE  it[s] = Edit(it[s \ {Max(s)}], keys[Max(s)])
            <4>1. Max(s) \in 1 .. n /\ s \ {Max(s)} \in SUBSET (1 .. n)
                BY <3>1, MaxOf, <1>1
            <4>2. it[s] = step[Max(s)][it[s \ {Max(s)}]]
                BY <2>1, <3>1 DEF Iterates
            <4>3. it[s \ {Max(s)}] \in S
                BY <4>1
            <4> QED BY <4>1, <4>2, <4>3
        <3>2. it[{}] = b
            BY <2>1 DEF Iterates
        <3> QED BY <1>1, <3>1, <3>2
    <2> QED BY <2>2
<1> HIDE DEF S
<1>5. Edited(keys) = run[1 .. n]
    BY <1>1 DEF b, Edited, FoldLeft, MapThenFoldSet
<1> HIDE DEF run
<1>6. Computes(run, n, S, b, step)
    <2>1. \A s \in SUBSET (1 .. n) :
              run[s] = IF s = {} THEN b ELSE Edit(run[s \ {Max(s)}], keys[Max(s)])
        BY <1>4, <1>1
    <2>2. ASSUME NEW k \in 1 .. n, run[1 .. k - 1] \in S
          PROVE  run[1 .. k] = step[k][run[1 .. k - 1]]
        <3>1. /\ 1 .. k \in SUBSET (1 .. n) /\ 1 .. k # {}
              /\ Max(1 .. k) = k /\ (1 .. k) \ {k} = 1 .. k - 1
            BY <1>1, Initial
        <3> QED BY <2>1, <2>2, <3>1
    <2>3. run[{}] = b
        BY <2>1
    <2> HIDE DEF step
    <2> QED BY <2>2, <2>3 DEF Computes
<1>7. PICK f : Runs(f, n, S, b, step) /\ f[n] = run[1 .. n]
    <2> HIDE DEF step, Recursion
    <2>1. Fold(n, S, b, step)
        BY <1>1, <1>2, <1>3, Zenon DEF Fold
    <2>2. HasRun(run, n, S, b, step)
        BY <1>6, <2>1, RunAlong, Zenon
    <2> QED BY <2>2, Zenon DEF HasRun
<1>8. \A k \in 1 .. n : f[k] = Edit(f[k - 1], keys[k])
    <2>1. \A k \in 1 .. n : k - 1 \in 0 .. n
        BY <1>1
    <2>2. \A k \in 1 .. n : f[k - 1] \in S
        BY <2>1, <1>7 DEF Runs
    <2> QED BY <1>7, <2>2 DEF Runs
<1> QED BY <1>5, <1>7, <1>8 DEF n, b, S, Runs

-----------------------------------------------------------------------------
(* The screen in rows and columns                                          *)

Plain == Char \ {"\n", "BS"}
Givens == Seq(Char) \ {<<>>}

Screens == {s \in [row : Nat, col : 0 .. SCREEN_WIDTH - 1, shown : [0 .. ConsoleCells - 1 -> Char]] :
               Place(s) <= ConsoleCells}

LEMMA Blanks == " " \in Char /\ ">" \in Plain /\ NUL \in Plain
BY TextAssumption DEF Plain, NUL

LEMMA PlaceIsNat ==
    ASSUME NEW s \in Screens
    PROVE  /\ Place(s) \in Nat /\ Place(s) <= ConsoleCells
           /\ s.row \in Nat /\ s.col \in 0 .. SCREEN_WIDTH - 1
           /\ s.shown \in [0 .. ConsoleCells - 1 -> Char]
           /\ s = [row |-> s.row, col |-> s.col, shown |-> s.shown]
           /\ (s.row = 0 /\ s.col = 0 <=> Place(s) = 0)
<1>1. s.row \in Nat /\ s.col \in 0 .. SCREEN_WIDTH - 1 /\ Place(s) <= ConsoleCells
      /\ s.shown \in [0 .. ConsoleCells - 1 -> Char]
      /\ s = [row |-> s.row, col |-> s.col, shown |-> s.shown]
    BY DEF Screens
<1> DEFINE r == s.row
<1>2. SCREEN_WIDTH \in Nat /\ SCREEN_WIDTH > 0
    BY Sizes
<1>3. r * SCREEN_WIDTH \in Nat /\ (r * SCREEN_WIDTH = 0 <=> r = 0)
    <2>1. r \in Nat
        BY <1>1
    <2> HIDE DEF r
    <2> QED BY <2>1, <1>2
<1> HIDE DEF r
<1>4. Place(s) = r * SCREEN_WIDTH + s.col
    BY DEF r, Place
<1> QED BY <1>1, <1>2, <1>3, <1>4 DEF r

\* a cell on and a cell back
LEMMA NextCell ==
    ASSUME NEW r \in Nat, NEW c \in 0 .. SCREEN_WIDTH - 1
    PROVE  /\ c = SCREEN_WIDTH - 1 => (r + 1) * SCREEN_WIDTH + 0 = r * SCREEN_WIDTH + c + 1
           /\ c # SCREEN_WIDTH - 1 => r * SCREEN_WIDTH + (c + 1) = r * SCREEN_WIDTH + c + 1
           /\ c = 0 => (r - 1) * SCREEN_WIDTH + (SCREEN_WIDTH - 1) = (r * SCREEN_WIDTH + c) - 1
           /\ c # 0 => r * SCREEN_WIDTH + (c - 1) = (r * SCREEN_WIDTH + c) - 1
           /\ r * SCREEN_WIDTH + c \in Nat /\ r * SCREEN_WIDTH \in Nat
<1>1. SCREEN_WIDTH \in Nat /\ SCREEN_WIDTH > 0 /\ c \in Int /\ r * SCREEN_WIDTH \in Nat
      /\ (r + 1) * SCREEN_WIDTH = r * SCREEN_WIDTH + SCREEN_WIDTH
      /\ (r - 1) * SCREEN_WIDTH = r * SCREEN_WIDTH - SCREEN_WIDTH
    BY Sizes, RowOf
<1> DEFINE q == r * SCREEN_WIDTH
<1>2. q \in Nat /\ (r + 1) * SCREEN_WIDTH = q + SCREEN_WIDTH /\ (r - 1) * SCREEN_WIDTH = q - SCREEN_WIDTH
    BY <1>1
<1> HIDE DEF q
<1>3. /\ c = SCREEN_WIDTH - 1 => (q + SCREEN_WIDTH) + 0 = q + c + 1
      /\ c # SCREEN_WIDTH - 1 => q + (c + 1) = q + c + 1
      /\ c = 0 => (q - SCREEN_WIDTH) + (SCREEN_WIDTH - 1) = (q + c) - 1
      /\ c # 0 => q + (c - 1) = (q + c) - 1
      /\ q + c \in Nat
    BY <1>1, <1>2
<1> QED BY <1>2, <1>3, Zenon DEF q

Screen(r, c, h) == [row |-> r, col |-> c, shown |-> h]

LEMMA ScreenOf ==
    ASSUME NEW r \in Nat, NEW c \in 0 .. SCREEN_WIDTH - 1, NEW h \in [0 .. ConsoleCells - 1 -> Char],
           r * SCREEN_WIDTH + c <= ConsoleCells
    PROVE  /\ Screen(r, c, h) \in Screens
           /\ Screen(r, c, h).row = r /\ Screen(r, c, h).col = c /\ Screen(r, c, h).shown = h
           /\ Place(Screen(r, c, h)) = r * SCREEN_WIDTH + c
<1>1. Screen(r, c, h) \in [row : Nat, col : 0 .. SCREEN_WIDTH - 1, shown : [0 .. ConsoleCells - 1 -> Char]]
    BY DEF Screen
<1>2. Screen(r, c, h).row = r /\ Screen(r, c, h).col = c /\ Screen(r, c, h).shown = h
    BY DEF Screen
<1>3. Place(Screen(r, c, h)) = r * SCREEN_WIDTH + c
    BY <1>2, Zenon DEF Place
<1>4. Place(Screen(r, c, h)) <= ConsoleCells
    BY <1>3, Zenon
<1> QED BY <1>1, <1>2, <1>3, <1>4, Zenon DEF Screens

LEMMA Shows ==
    ASSUME NEW D, NEW h \in [D -> Char], NEW p, NEW c \in Char
    PROVE  [h EXCEPT ![p] = c] \in [D -> Char]
OBVIOUS

LEMMA AdvanceScreen ==
    ASSUME NEW s \in Screens, NEW c \in Char
    PROVE  /\ Advance(s, c) \in Screens
           /\ Place(s) >= ConsoleCells => Advance(s, c) = s
           /\ Place(s) < ConsoleCells =>
                 /\ Place(Advance(s, c)) = Place(s) + 1
                 /\ Advance(s, c).shown = [s.shown EXCEPT ![Place(s)] = c]
<1> DEFINE r == s.row
           k == s.col
           h == [s.shown EXCEPT ![Place(s)] = c]
           p == Place(s)
           a == Advance(s, c)
<1>1. /\ p \in Nat /\ r \in Nat /\ k \in 0 .. SCREEN_WIDTH - 1
      /\ h \in [0 .. ConsoleCells - 1 -> Char] /\ p <= ConsoleCells
    <2>1. s.shown \in [0 .. ConsoleCells - 1 -> Char]
        BY PlaceIsNat
    <2> QED BY <2>1, PlaceIsNat, Shows
<1>2. SCREEN_WIDTH \in Nat /\ SCREEN_WIDTH > 0 /\ ConsoleCells \in Nat
    BY Sizes
<1>3. p = r * SCREEN_WIDTH + k
    BY Zenon DEF Place
<1>4. p >= ConsoleCells => a = s
    BY Zenon DEF Advance
<1>5. ~(p >= ConsoleCells) => a = Screen(IF k = SCREEN_WIDTH - 1 THEN r + 1 ELSE r,
                                         IF k = SCREEN_WIDTH - 1 THEN 0 ELSE k + 1, h)
    BY Zenon DEF Advance, Screen
<1> HIDE DEF r, k, h, p, a
<1>6. ASSUME p < ConsoleCells PROVE a \in Screens /\ Place(a) = p + 1 /\ a.shown = h
    <2>1. p + 1 <= ConsoleCells /\ ~(p >= ConsoleCells)
        BY <1>1, <1>2, <1>6
    <2>2. CASE k = SCREEN_WIDTH - 1
        <3>1. (r + 1) * SCREEN_WIDTH + 0 = p + 1
            BY <1>1, <1>3, <2>2, NextCell
        <3>2. a = Screen(r + 1, 0, h)
            BY <1>5, <2>1, <2>2, Zenon
        <3>3. r + 1 \in Nat /\ 0 \in 0 .. SCREEN_WIDTH - 1 /\ (r + 1) * SCREEN_WIDTH + 0 <= ConsoleCells
            BY <1>1, <1>2, <2>1, <3>1
        <3>4. Screen(r + 1, 0, h) \in Screens /\ Screen(r + 1, 0, h).shown = h /\ Place(Screen(r + 1, 0, h)) = (r + 1) * SCREEN_WIDTH + 0
            BY <1>1, <3>3, ScreenOf
        <3> QED BY <3>1, <3>2, <3>4, Zenon
    <2>3. CASE k # SCREEN_WIDTH - 1
        <3>1. r * SCREEN_WIDTH + (k + 1) = p + 1
            BY <1>1, <1>3, <2>3, NextCell
        <3>2. a = Screen(r, k + 1, h)
            BY <1>5, <2>1, <2>3, Zenon
        <3>3. k + 1 \in 0 .. SCREEN_WIDTH - 1 /\ r * SCREEN_WIDTH + (k + 1) <= ConsoleCells
            BY <1>1, <1>2, <2>1, <2>3, <3>1
        <3>4. Screen(r, k + 1, h) \in Screens /\ Screen(r, k + 1, h).shown = h /\ Place(Screen(r, k + 1, h)) = r * SCREEN_WIDTH + (k + 1)
            BY <1>1, <3>3, ScreenOf
        <3> QED BY <3>1, <3>2, <3>4, Zenon
    <2> QED BY <2>2, <2>3
<1>7. p < ConsoleCells \/ p >= ConsoleCells
    BY <1>1, <1>2
<1> QED BY <1>4, <1>6, <1>7 DEF a, p, h

LEMMA BackScreen ==
    ASSUME NEW s \in Screens
    PROVE  /\ Back(s) \in Screens
           /\ Place(s) = 0 => Back(s) = s
           /\ Place(s) > 0 =>
                 /\ Place(Back(s)) = Place(s) - 1
                 /\ Back(s).shown = [s.shown EXCEPT ![Place(s) - 1] = " "]
<1> DEFINE r == s.row
           k == s.col
           h == [s.shown EXCEPT ![Place(s) - 1] = " "]
           p == Place(s)
           a == Back(s)
<1>1. /\ p \in Nat /\ r \in Nat /\ k \in 0 .. SCREEN_WIDTH - 1
      /\ h \in [0 .. ConsoleCells - 1 -> Char] /\ p <= ConsoleCells /\ (r = 0 /\ k = 0 <=> p = 0)
    <2>1. s.shown \in [0 .. ConsoleCells - 1 -> Char]
        BY PlaceIsNat
    <2>2. h \in [0 .. ConsoleCells - 1 -> Char]
        BY <2>1, Blanks, Shows
    <2> QED BY <2>2, PlaceIsNat
<1>2. SCREEN_WIDTH \in Nat /\ SCREEN_WIDTH > 0 /\ ConsoleCells \in Nat
    BY Sizes
<1>3. p = r * SCREEN_WIDTH + k
    BY Zenon DEF Place
<1>4. r = 0 /\ k = 0 => a = s
    BY Zenon DEF Back
<1>5. ~(r = 0 /\ k = 0) => a = Screen(IF k = 0 THEN r - 1 ELSE r,
                                      IF k = 0 THEN SCREEN_WIDTH - 1 ELSE k - 1, h)
    BY Zenon DEF Back, Screen
<1> HIDE DEF r, k, h, p, a
<1>6. ASSUME p > 0 PROVE a \in Screens /\ Place(a) = p - 1 /\ a.shown = h
    <2>1. p - 1 <= ConsoleCells /\ ~(r = 0 /\ k = 0)
        BY <1>1, <1>2, <1>6
    <2>2. CASE k = 0
        <3>1. (r - 1) * SCREEN_WIDTH + (SCREEN_WIDTH - 1) = p - 1
            BY <1>1, <1>3, <2>2, NextCell
        <3>2. a = Screen(r - 1, SCREEN_WIDTH - 1, h)
            BY <1>5, <2>1, <2>2, Zenon
        <3>3. r - 1 \in Nat /\ SCREEN_WIDTH - 1 \in 0 .. SCREEN_WIDTH - 1
              /\ (r - 1) * SCREEN_WIDTH + (SCREEN_WIDTH - 1) <= ConsoleCells
            BY <1>1, <1>2, <2>1, <2>2, <3>1
        <3>4. /\ Screen(r - 1, SCREEN_WIDTH - 1, h) \in Screens
              /\ Screen(r - 1, SCREEN_WIDTH - 1, h).shown = h
              /\ Place(Screen(r - 1, SCREEN_WIDTH - 1, h)) = (r - 1) * SCREEN_WIDTH + (SCREEN_WIDTH - 1)
            BY <1>1, <3>3, ScreenOf
        <3> QED BY <3>1, <3>2, <3>4, Zenon
    <2>3. CASE k # 0
        <3>1. r * SCREEN_WIDTH + (k - 1) = p - 1
            BY <1>1, <1>3, <2>3, NextCell
        <3>2. a = Screen(r, k - 1, h)
            BY <1>5, <2>1, <2>3, Zenon
        <3>3. k - 1 \in 0 .. SCREEN_WIDTH - 1 /\ r * SCREEN_WIDTH + (k - 1) <= ConsoleCells
            BY <1>1, <1>2, <2>1, <2>3, <3>1
        <3>4. Screen(r, k - 1, h) \in Screens /\ Screen(r, k - 1, h).shown = h /\ Place(Screen(r, k - 1, h)) = r * SCREEN_WIDTH + (k - 1)
            BY <1>1, <3>3, ScreenOf
        <3> QED BY <3>1, <3>2, <3>4, Zenon
    <2> QED BY <2>2, <2>3
<1>7. (p = 0 => r = 0 /\ k = 0) /\ (p = 0 \/ p > 0)
    BY <1>1
<1> QED BY <1>4, <1>6, <1>7 DEF a, p, h

LEMMA NextRowScreen ==
    ASSUME NEW s \in Screens, Place(s) + SCREEN_WIDTH < ConsoleCells
    PROVE  /\ NextRow(s) \in Screens /\ NextRow(s).shown = s.shown
           /\ Place(NextRow(s)) = SCREEN_WIDTH * (Place(s) \div SCREEN_WIDTH + 1)
<1> DEFINE r == s.row
           k == s.col
           h == s.shown
           p == Place(s)
           q == r * SCREEN_WIDTH
           a == NextRow(s)
<1>1. /\ p \in Nat /\ r \in Nat /\ k \in 0 .. SCREEN_WIDTH - 1
      /\ h \in [0 .. ConsoleCells - 1 -> Char]
    BY PlaceIsNat
<1>2. SCREEN_WIDTH \in Nat /\ SCREEN_WIDTH > 0 /\ ConsoleCells \in Nat /\ p + SCREEN_WIDTH < ConsoleCells
    BY Sizes
<1>3. p = q + k
    BY Zenon DEF Place
<1>4. a = Screen(r + 1, 0, h)
    BY Zenon DEF NextRow, Screen
<1>5. /\ q \in Int /\ (r + 1) * SCREEN_WIDTH = q + SCREEN_WIDTH
      /\ (q + k) \div SCREEN_WIDTH = r /\ SCREEN_WIDTH * (r + 1) = q + SCREEN_WIDTH
    <2> HIDE DEF r, k, p, h, a
    <2>0. r \in Int /\ k \in 0 .. SCREEN_WIDTH - 1
        BY <1>1
    <2>1. /\ SCREEN_WIDTH * r \in Int /\ r * SCREEN_WIDTH = SCREEN_WIDTH * r
          /\ (r * SCREEN_WIDTH + k) \div SCREEN_WIDTH = r
          /\ SCREEN_WIDTH * (r + 1) = SCREEN_WIDTH * r + SCREEN_WIDTH
          /\ (r + 1) * SCREEN_WIDTH = r * SCREEN_WIDTH + SCREEN_WIDTH
        BY <2>0, RowOf, Zenon
    <2> QED BY <2>1, Zenon
<1> HIDE DEF r, k, h, p, q, a
<1>6. p \div SCREEN_WIDTH = r
    BY <1>3, <1>5, Zenon
<1>7. (r + 1) * SCREEN_WIDTH + 0 = q + SCREEN_WIDTH
    BY <1>5, <1>2
<1>8. r + 1 \in Nat /\ 0 \in 0 .. SCREEN_WIDTH - 1 /\ q + SCREEN_WIDTH <= ConsoleCells
    BY <1>1, <1>2, <1>3, <1>5
<1>9. a \in Screens /\ a.shown = h /\ Place(a) = (r + 1) * SCREEN_WIDTH + 0
    <2>1. (r + 1) * SCREEN_WIDTH + 0 <= ConsoleCells
        BY <1>7, <1>8, Zenon
    <2>2. LET n == Screen(r + 1, 0, h) IN
          n \in Screens /\ n.shown = h /\ Place(n) = (r + 1) * SCREEN_WIDTH + 0
        BY <1>1, <1>8, <2>1, ScreenOf
    <2> QED BY <1>4, <2>2, Zenon
<1>10. Place(a) = SCREEN_WIDTH * (p \div SCREEN_WIDTH + 1)
    BY <1>5, <1>6, <1>7, <1>9, Zenon
<1> QED BY <1>9, <1>10, Zenon DEF a, h, p

LEMMA BlankScreen ==
    ASSUME NEW t \in Tty
    PROVE  /\ Blank(t) \in Screens
           /\ Place(Blank(t)) = (IF t = 0 THEN disp_pos ELSE 0)
           /\ \A c \in 0 .. ConsoleCells - 1 : Blank(t).shown[c] = " "
<1> DEFINE p == IF t = 0 THEN disp_pos ELSE 0
           b == Blank(t)
<1>1. SCREEN_WIDTH \in Nat /\ SCREEN_WIDTH > 0 /\ ConsoleCells \in Nat /\ ConsoleCells > 0
    BY Sizes
<1>2. p \in Nat /\ p <= ConsoleCells
    <2>1. disp_pos \in Nat /\ disp_pos < ConsoleCells
        BY <1>1, SizesAssumption
    <2> QED BY <1>1, <2>1
<1>3. b = [row |-> p \div SCREEN_WIDTH, col |-> p % SCREEN_WIDTH,
           shown |-> [c \in 0 .. ConsoleCells - 1 |-> " "]]
    <2>1. 0 \div SCREEN_WIDTH = 0 /\ 0 % SCREEN_WIDTH = 0
        BY <1>1
    <2> QED BY <2>1 DEF Blank
<1> HIDE DEF p, b
<1>4. /\ p \div SCREEN_WIDTH \in Nat /\ p % SCREEN_WIDTH \in 0 .. SCREEN_WIDTH - 1
      /\ SCREEN_WIDTH * (p \div SCREEN_WIDTH) + (p % SCREEN_WIDTH) = p
    BY <1>2, RowStarts
<1>5. b.row = p \div SCREEN_WIDTH /\ b.col = p % SCREEN_WIDTH
      /\ b.shown = [c \in 0 .. ConsoleCells - 1 |-> " "]
    BY <1>3
<1>6. Place(b) = p
    <2> DEFINE r == p \div SCREEN_WIDTH
               c == p % SCREEN_WIDTH
    <2>1. r \in Nat /\ c \in 0 .. SCREEN_WIDTH - 1 /\ SCREEN_WIDTH * r + c = p /\ b.row = r /\ b.col = c
        BY <1>4, <1>5
    <2> HIDE DEF r, c
    <2>2. r * SCREEN_WIDTH = SCREEN_WIDTH * r
        BY <2>1, <1>1
    <2> QED BY <2>1, <2>2 DEF Place
<1>7. b \in Screens
    BY <1>1, <1>2, <1>3, <1>4, <1>5, <1>6, Blanks DEF Screens
<1> QED BY <1>5, <1>6, <1>7 DEF p, b

-----------------------------------------------------------------------------
(* The folds of the model, element by element                              *)

LEMMA AdvanceAlong ==
    ASSUME NEW s0 \in Screens, NEW cs \in Seq(Char)
    PROVE  \E f \in [0 .. Len(cs) -> Screens] :
              /\ f[0] = s0 /\ f[Len(cs)] = AdvanceAll(s0, cs)
              /\ \A k \in 1 .. Len(cs) : f[k] = Advance(f[k - 1], cs[k])
<1> DEFINE n == Len(cs)
           S == Screens
           b == s0
           step == [i \in 1 .. n |-> [x \in S |-> Advance(x, cs[i])]]
           Recursion(it) == it = [s \in SUBSET (DOMAIN cs) |->
               IF s = {} THEN b ELSE Advance(it[s \ {Max(s)}], cs[Max(s)])]
           run == CHOOSE it : Recursion(it)
<1>1. DOMAIN cs = 1 .. n /\ n \in Nat /\ \A k \in 1 .. n : cs[k] \in Char
    OBVIOUS
<1>2. b \in S /\ \A x \in S : \A c \in Char : Advance(x, c) \in S
    BY AdvanceScreen
<1> HIDE DEF n, b
<1>3. step \in [1 .. n -> [S -> S]]
    <2>1. ASSUME NEW k \in 1 .. n PROVE [x \in S |-> Advance(x, cs[k])] \in [S -> S]
        <3> HIDE DEF S
        <3> QED BY <1>1, <1>2
    <2> HIDE DEF S
    <2> QED BY <2>1
<1>4. Recursion(run)
    <2>1. PICK it \in [SUBSET (1 .. n) -> S] : Iterates(it, n, b, step)
        <3> HIDE DEF step, S
        <3> QED BY <1>1, <1>2, <1>3, IterationExists
    <2> HIDE DEF S
    <2>2. Recursion(it)
        <3>1. ASSUME NEW s \in SUBSET (1 .. n), s # {}
              PROVE  it[s] = Advance(it[s \ {Max(s)}], cs[Max(s)])
            <4>1. Max(s) \in 1 .. n /\ s \ {Max(s)} \in SUBSET (1 .. n)
                BY <3>1, MaxOf, <1>1
            <4>2. it[s] = step[Max(s)][it[s \ {Max(s)}]]
                BY <2>1, <3>1 DEF Iterates
            <4>3. it[s \ {Max(s)}] \in S
                BY <4>1
            <4> QED BY <4>1, <4>2, <4>3
        <3>2. it[{}] = b
            BY <2>1 DEF Iterates
        <3> QED BY <1>1, <3>1, <3>2
    <2> QED BY <2>2
<1> HIDE DEF S
<1>5. AdvanceAll(s0, cs) = run[1 .. n]
    BY <1>1 DEF b, AdvanceAll, FoldLeft, MapThenFoldSet
<1> HIDE DEF run
<1>6. Computes(run, n, S, b, step)
    <2>1. \A s \in SUBSET (1 .. n) :
              run[s] = IF s = {} THEN b ELSE Advance(run[s \ {Max(s)}], cs[Max(s)])
        BY <1>4, <1>1
    <2>2. ASSUME NEW k \in 1 .. n, run[1 .. k - 1] \in S
          PROVE  run[1 .. k] = step[k][run[1 .. k - 1]]
        <3>1. /\ 1 .. k \in SUBSET (1 .. n) /\ 1 .. k # {}
              /\ Max(1 .. k) = k /\ (1 .. k) \ {k} = 1 .. k - 1
            BY <1>1, Initial
        <3> QED BY <2>1, <2>2, <3>1
    <2>3. run[{}] = b
        BY <2>1
    <2> HIDE DEF step
    <2> QED BY <2>2, <2>3 DEF Computes
<1>7. PICK f : Runs(f, n, S, b, step) /\ f[n] = run[1 .. n]
    <2> HIDE DEF step, Recursion
    <2>1. Fold(n, S, b, step)
        BY <1>1, <1>2, <1>3, Zenon DEF Fold
    <2>2. HasRun(run, n, S, b, step)
        BY <1>6, <2>1, RunAlong, Zenon
    <2> QED BY <2>2, Zenon DEF HasRun
<1>8. \A k \in 1 .. n : f[k] = Advance(f[k - 1], cs[k])
    <2>1. \A k \in 1 .. n : k - 1 \in 0 .. n
        BY <1>1
    <2>2. \A k \in 1 .. n : f[k - 1] \in S
        BY <2>1, <1>7 DEF Runs
    <2> QED BY <1>7, <2>2 DEF Runs
<1> QED BY <1>5, <1>7, <1>8 DEF n, b, S, Runs

LEMMA NewLineScreen ==
    ASSUME NEW s \in Screens, NEW cs \in Seq(Char)
    PROVE  NewLine(s, cs) \in Screens
<1>1. CASE Place(s) + SCREEN_WIDTH >= ConsoleCells
    BY <1>1, Zenon DEF NewLine
<1>2. CASE ~(Place(s) + SCREEN_WIDTH >= ConsoleCells)
    <2>1. Place(s) \in Nat /\ SCREEN_WIDTH \in Nat /\ ConsoleCells \in Nat
        BY PlaceIsNat, Sizes
    <2>2. NextRow(s) \in Screens
        BY <2>1, <1>2, NextRowScreen
    <2>3. AdvanceAll(NextRow(s), cs) \in Screens
        <3>1. PICK f \in [0 .. Len(cs) -> Screens] : f[Len(cs)] = AdvanceAll(NextRow(s), cs)
            BY <2>2, AdvanceAlong, Zenon
        <3>2. Len(cs) \in 0 .. Len(cs)
            OBVIOUS
        <3> HIDE DEF Screens
        <3> QED BY <3>1, <3>2
    <2> QED BY <2>3, <1>2, Zenon DEF NewLine
<1> QED BY <1>1, <1>2

LEMMA LayScreen ==
    ASSUME NEW s \in Screens, NEW g \in Givens
    PROVE  Lay(s, g) \in Screens
<1>1. g[1] \in Char /\ Tail(g) \in Seq(Char)
    BY DEF Givens
<1>2. CASE g[1] = "BS"
    <2>1. Lay(s, g) = Back(s)
        BY <1>2 DEF Lay
    <2> QED BY <2>1, BackScreen
<1>3. CASE g[1] # "BS" /\ g[1] = "\n"
    <2>1. Lay(s, g) = NewLine(s, Tail(g))
        BY <1>3 DEF Lay
    <2> QED BY <1>1, <2>1, NewLineScreen
<1>4. CASE g[1] # "BS" /\ g[1] # "\n"
    <2>1. Lay(s, g) = Advance(s, g[1])
        BY <1>4 DEF Lay
    <2> QED BY <1>1, <2>1, AdvanceScreen
<1> QED BY <1>2, <1>3, <1>4

LEMMA LayoutAlong ==
    ASSUME NEW t \in Tty, NEW gs \in Seq(Givens)
    PROVE  \E f \in [0 .. Len(gs) -> Screens] :
              /\ f[0] = Blank(t) /\ f[Len(gs)] = LayoutOf(t, gs)
              /\ \A k \in 1 .. Len(gs) : f[k] = Lay(f[k - 1], gs[k])
<1> DEFINE n == Len(gs)
           S == Screens
           b == Blank(t)
           step == [i \in 1 .. n |-> [x \in S |-> Lay(x, gs[i])]]
           Recursion(it) == it = [s \in SUBSET (DOMAIN gs) |->
               IF s = {} THEN b ELSE Lay(it[s \ {Max(s)}], gs[Max(s)])]
           run == CHOOSE it : Recursion(it)
<1>1. DOMAIN gs = 1 .. n /\ n \in Nat /\ \A k \in 1 .. n : gs[k] \in Givens
    OBVIOUS
<1>2. b \in S /\ \A x \in S : \A c \in Givens : Lay(x, c) \in S
    BY BlankScreen, LayScreen
<1> HIDE DEF n, b
<1>3. step \in [1 .. n -> [S -> S]]
    <2>1. ASSUME NEW k \in 1 .. n PROVE [x \in S |-> Lay(x, gs[k])] \in [S -> S]
        <3> HIDE DEF S
        <3> QED BY <1>1, <1>2
    <2> HIDE DEF S
    <2> QED BY <2>1
<1>4. Recursion(run)
    <2>1. PICK it \in [SUBSET (1 .. n) -> S] : Iterates(it, n, b, step)
        <3> HIDE DEF step, S
        <3> QED BY <1>1, <1>2, <1>3, IterationExists
    <2> HIDE DEF S
    <2>2. Recursion(it)
        <3>1. ASSUME NEW s \in SUBSET (1 .. n), s # {}
              PROVE  it[s] = Lay(it[s \ {Max(s)}], gs[Max(s)])
            <4>1. Max(s) \in 1 .. n /\ s \ {Max(s)} \in SUBSET (1 .. n)
                BY <3>1, MaxOf, <1>1
            <4>2. it[s] = step[Max(s)][it[s \ {Max(s)}]]
                BY <2>1, <3>1 DEF Iterates
            <4>3. it[s \ {Max(s)}] \in S
                BY <4>1
            <4> QED BY <4>1, <4>2, <4>3
        <3>2. it[{}] = b
            BY <2>1 DEF Iterates
        <3> QED BY <1>1, <3>1, <3>2
    <2> QED BY <2>2
<1> HIDE DEF S
<1>5. LayoutOf(t, gs) = run[1 .. n]
    BY <1>1 DEF b, LayoutOf, FoldLeft, MapThenFoldSet
<1> HIDE DEF run
<1>6. Computes(run, n, S, b, step)
    <2>1. \A s \in SUBSET (1 .. n) :
              run[s] = IF s = {} THEN b ELSE Lay(run[s \ {Max(s)}], gs[Max(s)])
        BY <1>4, <1>1
    <2>2. ASSUME NEW k \in 1 .. n, run[1 .. k - 1] \in S
          PROVE  run[1 .. k] = step[k][run[1 .. k - 1]]
        <3>1. /\ 1 .. k \in SUBSET (1 .. n) /\ 1 .. k # {}
              /\ Max(1 .. k) = k /\ (1 .. k) \ {k} = 1 .. k - 1
            BY <1>1, Initial
        <3> QED BY <2>1, <2>2, <3>1
    <2>3. run[{}] = b
        BY <2>1
    <2> HIDE DEF step
    <2> QED BY <2>2, <2>3 DEF Computes
<1>7. PICK f : Runs(f, n, S, b, step) /\ f[n] = run[1 .. n]
    <2> HIDE DEF step, Recursion
    <2>1. Fold(n, S, b, step)
        BY <1>1, <1>2, <1>3, Zenon DEF Fold
    <2>2. HasRun(run, n, S, b, step)
        BY <1>6, <2>1, RunAlong, Zenon
    <2> QED BY <2>2, Zenon DEF HasRun
<1>8. \A k \in 1 .. n : f[k] = Lay(f[k - 1], gs[k])
    <2>1. \A k \in 1 .. n : k - 1 \in 0 .. n
        BY <1>1
    <2>2. \A k \in 1 .. n : f[k - 1] \in S
        BY <2>1, <1>7 DEF Runs
    <2> QED BY <1>7, <2>2 DEF Runs
<1> QED BY <1>5, <1>7, <1>8 DEF n, b, S, Runs

\* the screen that print works on
Boxes == [cursor : Int, video : [Cells -> Char], text : Seq(Givens)]

Box(c, v, x) == [cursor |-> c, video |-> v, text |-> x]

LEMMA BoxFields ==
    ASSUME NEW c, NEW v, NEW x
    PROVE  Box(c, v, x).cursor = c /\ Box(c, v, x).video = v /\ Box(c, v, x).text = x
BY DEF Box

LEMMA BoxOf ==
    ASSUME NEW c \in Int, NEW v \in [Cells -> Char], NEW x \in Seq(Givens)
    PROVE  /\ Box(c, v, x) \in Boxes
           /\ Box(c, v, x).cursor = c /\ Box(c, v, x).video = v /\ Box(c, v, x).text = x
<1> HIDE DEF Givens, Cells
<1> QED BY DEF Box, Boxes

LEMMA BoxParts ==
    ASSUME NEW s \in Boxes
    PROVE  /\ s.cursor \in Int /\ s.video \in [Cells -> Char] /\ s.text \in Seq(Givens)
           /\ s = Box(s.cursor, s.video, s.text)
<1> HIDE DEF Givens, Cells
<1> QED BY DEF Box, Boxes

LEMMA PutBox ==
    ASSUME NEW t \in Tty, NEW s \in Boxes, NEW c \in Char
    PROVE  /\ Room(t, s.cursor) => Put(t, s, c) = Box(s.cursor + 1, [s.video EXCEPT ![s.cursor] = c], s.text)
           /\ ~Room(t, s.cursor) => Put(t, s, c) = s
           /\ Put(t, s, c) \in Boxes
<1> DEFINE k == s.cursor
           v == s.video
           x == s.text
<1>1. k \in Int /\ v \in [Cells -> Char] /\ x \in Seq(Givens) /\ s = Box(k, v, x)
    BY BoxParts
<1>2. ~Room(t, s.cursor) => Put(t, s, c) = s
    BY Zenon DEF Put
<1>3. Room(t, s.cursor) => Put(t, s, c) = Box(k + 1, [v EXCEPT ![k] = c], x)
    BY Zenon DEF Put, Box
<1>5. Box(k + 1, [v EXCEPT ![k] = c], x) \in Boxes
    <2>1. k + 1 \in Int /\ [v EXCEPT ![k] = c] \in [Cells -> Char]
        <3>1. k + 1 \in Int
            BY <1>1
        <3> HIDE DEF k, v, Cells
        <3>2. [v EXCEPT ![k] = c] \in [Cells -> Char]
            BY <1>1, Shows
        <3> QED BY <3>1, <3>2
    <2> HIDE DEF k, v, x
    <2> QED BY <1>1, <2>1, BoxOf
<1> QED BY <1>1, <1>2, <1>3, <1>5, Zenon

LEMMA PutAlong ==
    ASSUME NEW t \in Tty, NEW s0 \in Boxes, NEW cs \in Seq(Char)
    PROVE  \E f \in [0 .. Len(cs) -> Boxes] :
              /\ f[0] = s0 /\ f[Len(cs)] = PutAll(t, s0, cs)
              /\ \A k \in 1 .. Len(cs) : f[k] = Put(t, f[k - 1], cs[k])
<1> DEFINE n == Len(cs)
           S == Boxes
           b == s0
           step == [i \in 1 .. n |-> [x \in S |-> Put(t, x, cs[i])]]
           Recursion(it) == it = [s \in SUBSET (DOMAIN cs) |->
               IF s = {} THEN b ELSE Put(t, it[s \ {Max(s)}], cs[Max(s)])]
           run == CHOOSE it : Recursion(it)
<1>1. DOMAIN cs = 1 .. n /\ n \in Nat /\ \A k \in 1 .. n : cs[k] \in Char
    OBVIOUS
<1>2. b \in S /\ \A x \in S : \A c \in Char : Put(t, x, c) \in S
    BY PutBox
<1> HIDE DEF n, b
<1>3. step \in [1 .. n -> [S -> S]]
    <2>1. ASSUME NEW k \in 1 .. n PROVE [x \in S |-> Put(t, x, cs[k])] \in [S -> S]
        <3> HIDE DEF S
        <3> QED BY <1>1, <1>2
    <2> HIDE DEF S
    <2> QED BY <2>1
<1>4. Recursion(run)
    <2>1. PICK it \in [SUBSET (1 .. n) -> S] : Iterates(it, n, b, step)
        <3> HIDE DEF step, S
        <3> QED BY <1>1, <1>2, <1>3, IterationExists
    <2> HIDE DEF S
    <2>2. Recursion(it)
        <3>1. ASSUME NEW s \in SUBSET (1 .. n), s # {}
              PROVE  it[s] = Put(t, it[s \ {Max(s)}], cs[Max(s)])
            <4>1. Max(s) \in 1 .. n /\ s \ {Max(s)} \in SUBSET (1 .. n)
                BY <3>1, MaxOf, <1>1
            <4>2. it[s] = step[Max(s)][it[s \ {Max(s)}]]
                BY <2>1, <3>1 DEF Iterates
            <4>3. it[s \ {Max(s)}] \in S
                BY <4>1
            <4> QED BY <4>1, <4>2, <4>3
        <3>2. it[{}] = b
            BY <2>1 DEF Iterates
        <3> QED BY <1>1, <3>1, <3>2
    <2> QED BY <2>2
<1> HIDE DEF S
<1>5. PutAll(t, s0, cs) = run[1 .. n]
    BY <1>1 DEF b, PutAll, FoldLeft, MapThenFoldSet
<1> HIDE DEF run
<1>6. Computes(run, n, S, b, step)
    <2>1. \A s \in SUBSET (1 .. n) :
              run[s] = IF s = {} THEN b ELSE Put(t, run[s \ {Max(s)}], cs[Max(s)])
        BY <1>4, <1>1
    <2>2. ASSUME NEW k \in 1 .. n, run[1 .. k - 1] \in S
          PROVE  run[1 .. k] = step[k][run[1 .. k - 1]]
        <3>1. /\ 1 .. k \in SUBSET (1 .. n) /\ 1 .. k # {}
              /\ Max(1 .. k) = k /\ (1 .. k) \ {k} = 1 .. k - 1
            BY <1>1, Initial
        <3> QED BY <2>1, <2>2, <3>1
    <2>3. run[{}] = b
        BY <2>1
    <2> HIDE DEF step
    <2> QED BY <2>2, <2>3 DEF Computes
<1>7. PICK f : Runs(f, n, S, b, step) /\ f[n] = run[1 .. n]
    <2> HIDE DEF step, Recursion
    <2>1. Fold(n, S, b, step)
        BY <1>1, <1>2, <1>3, Zenon DEF Fold
    <2>2. HasRun(run, n, S, b, step)
        BY <1>6, <2>1, RunAlong, Zenon
    <2> QED BY <2>2, Zenon DEF HasRun
<1>8. \A k \in 1 .. n : f[k] = Put(t, f[k - 1], cs[k])
    <2>1. \A k \in 1 .. n : k - 1 \in 0 .. n
        BY <1>1
    <2>2. \A k \in 1 .. n : f[k - 1] \in S
        BY <2>1, <1>7 DEF Runs
    <2> QED BY <1>7, <2>2 DEF Runs
<1> QED BY <1>5, <1>7, <1>8 DEF n, b, S, Runs

-----------------------------------------------------------------------------
(* What a console shows.  Matches says that it shows a screen of rows and  *)
(* columns, Keeps that printing on it goes on from where it was, not       *)
(* beyond the console and not on another one.                              *)

Matches(t, c, v, l) ==
    /\ c = v_mem_addr(t) + Place(l)
    /\ \A i \in 0 .. ConsoleCells - 1 : v[v_mem_addr(t) + i] = l.shown[i]

Keeps(t, s, r) ==
    /\ r.cursor >= s.cursor
    /\ r.cursor = s.cursor \/ r.cursor <= v_mem_addr(t) + ConsoleCells
    /\ \A i \in Cells : i < v_mem_addr(t) \/ i >= v_mem_addr(t) + ConsoleCells => r.video[i] = s.video[i]

LEMMA KeepsAlong ==
    ASSUME NEW t \in Tty, NEW a \in Boxes, NEW b \in Boxes, NEW c \in Boxes,
           Keeps(t, a, b), Keeps(t, b, c)
    PROVE  Keeps(t, a, c)
<1> DEFINE m == v_mem_addr(t) + ConsoleCells
           x == a.cursor
           y == b.cursor
           z == c.cursor
<1>1. x \in Int /\ y \in Int /\ z \in Int /\ m \in Int
    BY BoxParts, Addresses, Sizes
<1>2. /\ y >= x /\ (y = x \/ y <= m)
      /\ z >= y /\ (z = y \/ z <= m)
      /\ \A i \in Cells : i < v_mem_addr(t) \/ i >= m => c.video[i] = a.video[i]
    BY Zenon DEF Keeps
<1> HIDE DEF m, x, y, z
<1>3. z >= x /\ (z = x \/ z <= m)
    BY <1>1, <1>2
<1> QED BY <1>2, <1>3, Zenon DEF Keeps, m, x, z

LEMMA KeepsItself ==
    ASSUME NEW t \in Tty, NEW s \in Boxes
    PROVE  Keeps(t, s, s)
<1>1. s.cursor \in Int
    BY BoxParts
<1>2. s.cursor >= s.cursor
    BY <1>1
<1> QED BY <1>2, Zenon DEF Keeps

\* the cells of a console are cells of the video memory
LEMMA RegionCells ==
    ASSUME NEW t \in Tty, NEW i \in 0 .. ConsoleCells
    PROVE  v_mem_addr(t) + i \in Cells /\ v_mem_addr(t) + i \in Nat
<1>1. v_mem_addr(t) \in Nat /\ v_mem_addr(t) + ConsoleCells <= NR_CONSOLE * ConsoleCells
      /\ NR_CONSOLE * ConsoleCells \in Nat /\ SCREEN_WIDTH \in Nat /\ ConsoleCells \in Nat
    BY Addresses, Sizes
<1> QED BY <1>1 DEF Cells

LEMMA RoomIs ==
    ASSUME NEW t \in Tty, NEW c \in Int, v_mem_limit[t] = ConsoleCells
    PROVE  /\ Room(t, c) <=> c < v_mem_addr(t) + ConsoleCells
           /\ LineRoom(t, c) <=> c < v_mem_addr(t) + ConsoleCells - SCREEN_WIDTH
<1>1. ConsoleCells # 0
    BY Sizes
<1> QED BY <1>1 DEF Room, LineRoom

\* a character in its cell
LEMMA MatchesNext ==
    ASSUME NEW t \in Tty, NEW v \in [Cells -> Char], NEW l \in Screens, NEW c \in Char,
           NEW k \in Int, Matches(t, k, v, l), k < v_mem_addr(t) + ConsoleCells
    PROVE  Matches(t, k + 1, [v EXCEPT ![k] = c], Advance(l, c))
<1> DEFINE p == Place(l)
           a == v_mem_addr(t)
           w == Advance(l, c).shown
<1>1. a \in Nat /\ ConsoleCells \in Nat /\ p \in Nat /\ k = a + p
    BY Addresses, Sizes, PlaceIsNat DEF Matches
<1>2. p < ConsoleCells
    BY <1>1
<1>3. Place(Advance(l, c)) = p + 1 /\ w = [l.shown EXCEPT ![p] = c]
    BY <1>2, AdvanceScreen
<1>4. l.shown \in [0 .. ConsoleCells - 1 -> Char]
    BY PlaceIsNat
<1>5. ASSUME NEW i \in 0 .. ConsoleCells - 1
      PROVE  [v EXCEPT ![k] = c][a + i] = w[i]
    <2>1. v[a + i] = l.shown[i]
        BY Zenon DEF Matches
    <2>2. a + i \in Cells
        BY RegionCells, Sizes
    <2> HIDE DEF p, a, w, Cells
    <2>3. i = p <=> a + i = k
        BY <1>1
    <2> QED BY <1>3, <1>4, <2>1, <2>2, <2>3
<1>6. k + 1 = a + (p + 1)
    <2> HIDE DEF p, a
    <2> QED BY <1>1
<1>7. k + 1 = a + Place(Advance(l, c))
    BY <1>3, <1>6, Zenon
<1> QED BY <1>5, <1>7, Zenon DEF Matches

LEMMA PutOnConsole ==
    ASSUME NEW t \in Tty, NEW s \in Boxes, NEW c \in Char,
           v_mem_limit[t] = ConsoleCells, s.cursor >= v_mem_addr(t)
    PROVE  /\ Put(t, s, c) \in Boxes /\ Put(t, s, c).text = s.text /\ Keeps(t, s, Put(t, s, c))
           /\ \A l \in Screens : Matches(t, s.cursor, s.video, l) =>
                  Matches(t, Put(t, s, c).cursor, Put(t, s, c).video, Advance(l, c))
<1> DEFINE k == s.cursor
           v == s.video
           a == v_mem_addr(t)
           r == Put(t, s, c)
<1>1. k \in Int /\ v \in [Cells -> Char] /\ a \in Nat /\ ConsoleCells \in Nat /\ k >= a
    BY BoxParts, Addresses, Sizes
<1>2. r \in Boxes
    BY PutBox
<1>3. Room(t, k) <=> k < a + ConsoleCells
    BY <1>1, RoomIs
<1>4. CASE k < a + ConsoleCells
    <2>1. r = Box(k + 1, [v EXCEPT ![k] = c], s.text)
        BY <1>3, <1>4, PutBox
    <2>2. r.cursor = k + 1 /\ r.video = [v EXCEPT ![k] = c] /\ r.text = s.text
        <3> DEFINE v1 == [v EXCEPT ![k] = c]
                   k1 == k + 1
        <3>1. r = Box(k1, v1, s.text)
            BY <2>1
        <3> HIDE DEF v1, k1, r
        <3>2. r.cursor = k1 /\ r.video = v1 /\ r.text = s.text
            BY <3>1, BoxFields
        <3> QED BY <3>2 DEF v1, k1
    <2>3. \A i \in Cells : i < a \/ i >= a + ConsoleCells => r.video[i] = v[i]
        <3> HIDE DEF r, k, v, a
        <3>1. \A i \in Cells : i < a \/ i >= a + ConsoleCells => i # k
            BY <1>1, <1>4 DEF Cells
        <3> HIDE DEF Cells
        <3> QED BY <3>1, <2>2, <1>1
    <2>4. k + 1 >= k /\ k + 1 <= a + ConsoleCells
        <3> HIDE DEF k, a
        <3> QED BY <1>1, <1>4
    <2>5. Keeps(t, s, r)
        BY <2>2, <2>3, <2>4, Zenon DEF Keeps
    <2>6. ASSUME NEW l \in Screens, Matches(t, k, v, l)
          PROVE  Matches(t, r.cursor, r.video, Advance(l, c))
        <3>1. Matches(t, k + 1, [v EXCEPT ![k] = c], Advance(l, c))
            BY <1>1, <1>4, <2>6, MatchesNext
        <3> QED BY <3>1, <2>2, Zenon
    <2> QED BY <1>2, <2>2, <2>5, <2>6
<1>5. CASE ~(k < a + ConsoleCells)
    <2>1. r = s
        BY <1>3, <1>5, PutBox
    <2>2. Keeps(t, s, r)
        BY <2>1, KeepsItself
    <2>3. ASSUME NEW l \in Screens, Matches(t, k, v, l)
          PROVE  Advance(l, c) = l
        <3>1. k = a + Place(l) /\ Place(l) \in Nat
            BY <2>3, PlaceIsNat DEF Matches
        <3>2. Place(l) >= ConsoleCells
            <4> HIDE DEF k, a
            <4> QED BY <3>1, <1>1, <1>5
        <3> QED BY <3>2, AdvanceScreen
    <2> QED BY <1>2, <2>1, <2>2, <2>3
<1> QED BY <1>4, <1>5

\* the characters of a prompt
LEMMA PutAllOnConsole ==
    ASSUME NEW t \in Tty, NEW s \in Boxes, NEW cs \in Seq(Char),
           v_mem_limit[t] = ConsoleCells, s.cursor >= v_mem_addr(t)
    PROVE  /\ PutAll(t, s, cs) \in Boxes /\ PutAll(t, s, cs).text = s.text
           /\ Keeps(t, s, PutAll(t, s, cs))
           /\ \A l \in Screens : Matches(t, s.cursor, s.video, l) =>
                  /\ AdvanceAll(l, cs) \in Screens
                  /\ Matches(t, PutAll(t, s, cs).cursor, PutAll(t, s, cs).video, AdvanceAll(l, cs))
<1> DEFINE n == Len(cs)
<1>1. n \in Nat /\ \A i \in 1 .. n : cs[i] \in Char /\ i - 1 \in 0 .. n /\ i \in 0 .. n
    OBVIOUS
<1>2. PICK f \in [0 .. n -> Boxes] :
          /\ f[0] = s /\ f[n] = PutAll(t, s, cs)
          /\ \A i \in 1 .. n : f[i] = Put(t, f[i - 1], cs[i])
    BY PutAlong
<1> HIDE DEF n
<1>3. \A i \in 0 .. n : f[i] \in Boxes
    BY <1>2
<1>4. ASSUME NEW x \in Boxes, Keeps(t, s, x) PROVE x.cursor >= v_mem_addr(t)
    <2>1. x.cursor \in Int /\ s.cursor \in Int /\ v_mem_addr(t) \in Int
        BY BoxParts, Addresses
    <2>2. x.cursor >= s.cursor
        BY <1>4, Zenon DEF Keeps
    <2> QED BY <2>1, <2>2
<1>5. \A i \in 0 .. n : f[i].text = s.text /\ Keeps(t, s, f[i])
    <2> DEFINE T == {i \in 0 .. n : f[i].text = s.text /\ Keeps(t, s, f[i])}
    <2>1. 0 \in T
        BY <1>1, <1>2, KeepsItself
    <2>2. ASSUME NEW i \in 1 .. n, i - 1 \in T PROVE i \in T
        <3>1. f[i - 1].text = s.text /\ Keeps(t, s, f[i - 1]) /\ i \in 0 .. n /\ cs[i] \in Char
              /\ f[i - 1] \in Boxes /\ f[i] = Put(t, f[i - 1], cs[i]) /\ f[i] \in Boxes
            BY <2>2, <1>1, <1>2, <1>3
        <3>2. f[i].text = s.text /\ Keeps(t, f[i - 1], f[i])
            BY <3>1, <1>4, PutOnConsole
        <3>3. Keeps(t, s, f[i])
            BY <3>1, <3>2, KeepsAlong
        <3> QED BY <3>1, <3>2, <3>3
    <2> HIDE DEF T
    <2>3. 0 .. n \subseteq T
        BY <2>1, <2>2, <1>1, Induction
    <2> QED BY <2>3 DEF T
<1>6. ASSUME NEW l \in Screens, Matches(t, s.cursor, s.video, l)
      PROVE  AdvanceAll(l, cs) \in Screens /\ Matches(t, f[n].cursor, f[n].video, AdvanceAll(l, cs))
    <2>1. PICK g \in [0 .. n -> Screens] :
              /\ g[0] = l /\ g[n] = AdvanceAll(l, cs)
              /\ \A i \in 1 .. n : g[i] = Advance(g[i - 1], cs[i])
        BY AdvanceAlong DEF n
    <2> DEFINE T == {i \in 0 .. n : Matches(t, f[i].cursor, f[i].video, g[i])}
    <2>2. 0 \in T
        BY <1>1, <1>2, <1>6, <2>1
    <2>3. ASSUME NEW i \in 1 .. n, i - 1 \in T PROVE i \in T
        <3>1. Matches(t, f[i - 1].cursor, f[i - 1].video, g[i - 1]) /\ i \in 0 .. n /\ cs[i] \in Char
              /\ f[i - 1] \in Boxes /\ f[i] = Put(t, f[i - 1], cs[i]) /\ Keeps(t, s, f[i - 1])
            BY <2>3, <1>1, <1>2, <1>3, <1>5
        <3>2. g[i - 1] \in Screens /\ g[i] = Advance(g[i - 1], cs[i])
            <4> HIDE DEF Screens
            <4> QED BY <1>1, <2>1
        <3>3. Matches(t, f[i].cursor, f[i].video, g[i])
            BY <3>1, <3>2, <1>4, PutOnConsole
        <3> QED BY <3>1, <3>3
    <2> HIDE DEF T, Screens
    <2>4. 0 .. n \subseteq T
        BY <2>2, <2>3, <1>1, Induction
    <2>5. n \in 0 .. n
        BY <1>1
    <2> QED BY <2>1, <2>4, <2>5 DEF T
<1>7. n \in 0 .. n
    BY <1>1
<1> QED BY <1>2, <1>3, <1>5, <1>6, <1>7

\* what a terminal is given: a character, or a newline and its prompt
LEMMA GivenIs ==
    ASSUME NEW t \in Tty, NEW c \in Char, Prompt(t) \in Seq(Char)
    PROVE  /\ Given(t, c) \in Givens /\ Given(t, c)[1] = c
           /\ c = "\n" => Tail(Given(t, c)) = Prompt(t)
<1>1. <<c>> \o Prompt(t) \in Seq(Char) /\ (<<c>> \o Prompt(t)) # <<>>
      /\ (<<c>> \o Prompt(t))[1] = c /\ Tail(<<c>> \o Prompt(t)) = Prompt(t)
    <2> DEFINE q == Prompt(t)
    <2>1. q \in Seq(Char) /\ <<c>> \in Seq(Char) /\ Len(<<c>>) = 1 /\ <<c>>[1] = c
        OBVIOUS
    <2> HIDE DEF q
    <2>2. <<c>> \o q \in Seq(Char) /\ Len(<<c>> \o q) = Len(q) + 1 /\ Len(q) \in Nat
        BY <2>1
    <2>3. (<<c>> \o q)[1] = c /\ Tail(<<c>> \o q) = q
        BY <2>1, <2>2
    <2> QED BY <2>2, <2>3
<1>2. <<c>> \in Seq(Char) /\ <<c>> # <<>> /\ <<c>>[1] = c
    OBVIOUS
<1>3. CASE c = "\n"
    <2>1. Given(t, c) = <<c>> \o Prompt(t)
        BY <1>3, Zenon DEF Given
    <2> QED BY <1>1, <2>1, Zenon DEF Givens
<1>4. CASE c # "\n"
    <2>1. Given(t, c) = <<c>>
        BY <1>4, Zenon DEF Given
    <2> QED BY <1>2, <1>4, <2>1, Zenon DEF Givens
<1> QED BY <1>3, <1>4

LEMMA NextLineInt ==
    ASSUME NEW t \in Tty, NEW c \in Int
    PROVE  next_line(t, c) \in Int
<1> DEFINE p == c - v_mem_addr(t)
           q == p \div SCREEN_WIDTH
<1>1. v_mem_addr(t) \in Int /\ SCREEN_WIDTH \in Nat /\ SCREEN_WIDTH > 0
    BY Addresses, Sizes
<1>2. p \in Int
    BY <1>1
<1>3. q \in Int
    <2> HIDE DEF p
    <2> QED BY <1>1, <1>2
<1>4. SCREEN_WIDTH * (q + 1) \in Int
    <2> HIDE DEF q
    <2> QED BY <1>1, <1>3
<1>5. next_line(t, c) = v_mem_addr(t) + SCREEN_WIDTH * (q + 1)
    BY DEF next_line
<1> HIDE DEF q
<1> QED BY <1>1, <1>4, <1>5

\* a newline where there is a next row
LEMMA MatchesNextRow ==
    ASSUME NEW t \in Tty, NEW v, NEW l \in Screens, NEW k \in Int,
           Matches(t, k, v, l), v_mem_limit[t] = ConsoleCells
    PROVE  /\ LineRoom(t, k) <=> ~(Place(l) + SCREEN_WIDTH >= ConsoleCells)
           /\ LineRoom(t, k) => NextRow(l) \in Screens /\ Matches(t, next_line(t, k), v, NextRow(l))
<1> DEFINE p == Place(l)
           a == v_mem_addr(t)
<1>1. a \in Nat /\ ConsoleCells \in Nat /\ SCREEN_WIDTH \in Nat /\ p \in Nat /\ k = a + p
    BY Addresses, Sizes, PlaceIsNat DEF Matches
<1>2. LineRoom(t, k) <=> k < a + ConsoleCells - SCREEN_WIDTH
    BY RoomIs
<1>3. k < a + ConsoleCells - SCREEN_WIDTH <=> p + SCREEN_WIDTH < ConsoleCells
    <2> HIDE DEF p, a
    <2> QED BY <1>1
<1>4. p + SCREEN_WIDTH < ConsoleCells <=> ~(p + SCREEN_WIDTH >= ConsoleCells)
    <2> HIDE DEF p, a
    <2> QED BY <1>1
<1>5. ASSUME p + SCREEN_WIDTH < ConsoleCells
      PROVE  NextRow(l) \in Screens /\ Matches(t, next_line(t, k), v, NextRow(l))
    <2>1. NextRow(l) \in Screens /\ NextRow(l).shown = l.shown
          /\ Place(NextRow(l)) = SCREEN_WIDTH * (p \div SCREEN_WIDTH + 1)
        BY <1>5, NextRowScreen
    <2>2. k - a = p
        <3> HIDE DEF p, a
        <3> QED BY <1>1
    <2>3. next_line(t, k) = a + Place(NextRow(l))
        BY <2>1, <2>2, Zenon DEF next_line
    <2> QED BY <2>1, <2>3, Zenon DEF Matches
<1> QED BY <1>2, <1>3, <1>4, <1>5, Zenon

LEMMA PrintedBox ==
    ASSUME NEW t \in Tty, NEW s \in Boxes, NEW c \in Char, Prompt(t) \in Seq(Char)
    PROVE  Printed(t, s, c) \in Boxes
<1> DEFINE k == s.cursor
           v == s.video
           x == Append(s.text, Given(t, c))
           given == [s EXCEPT !.text = x]
           line == [given EXCEPT !.cursor = next_line(t, k)]
<1>1. k \in Int /\ v \in [Cells -> Char] /\ s = Box(k, v, s.text) /\ x \in Seq(Givens)
    <2>1. s.text \in Seq(Givens) /\ Given(t, c) \in Givens
        BY BoxParts, GivenIs
    <2>2. x \in Seq(Givens)
        <3> HIDE DEF Givens
        <3> QED BY <2>1
    <2> QED BY <2>2, BoxParts
<1>2. given = Box(k, v, x)
    <2> HIDE DEF k, v, x
    <2> QED BY <1>1 DEF Box
<1>3. given \in Boxes /\ given.cursor = k
    <2> HIDE DEF k, v, x, given
    <2> QED BY <1>1, <1>2, BoxOf
<1>4. line = Box(next_line(t, k), v, x)
    <2> HIDE DEF k, v, x, given
    <2> QED BY <1>2 DEF Box
<1>5. line \in Boxes
    <2> HIDE DEF k, v, x, given, line
    <2> QED BY <1>1, <1>4, NextLineInt, BoxOf
<1>6. c # "\n" => Printed(t, s, c) = Put(t, given, c)
    BY Zenon DEF Printed
<1>7. c = "\n" /\ LineRoom(t, k) => Printed(t, s, c) = PutAll(t, line, Prompt(t))
    <2>1. given.cursor = k
        BY <1>3
    <2> QED BY <2>1, Zenon DEF Printed
<1>8. c = "\n" /\ ~LineRoom(t, k) => Printed(t, s, c) = given
    BY Zenon DEF Printed
<1> HIDE DEF k, v, x, given, line
<1>9. Put(t, given, c) \in Boxes
    BY <1>3, PutBox
<1>10. PutAll(t, line, Prompt(t)) \in Boxes
    <2> DEFINE cs == Prompt(t)
    <2>1. cs \in Seq(Char)
        OBVIOUS
    <2>2. Len(cs) \in 0 .. Len(cs)
        BY <2>1
    <2> HIDE DEF cs
    <2>3. PICK f \in [0 .. Len(cs) -> Boxes] :
              /\ f[0] = line /\ f[Len(cs)] = PutAll(t, line, cs)
              /\ \A i \in 1 .. Len(cs) : f[i] = Put(t, f[i - 1], cs[i])
        BY <1>5, <2>1, PutAlong
    <2>4. f[Len(cs)] \in Boxes
        BY <2>2, <2>3
    <2> QED BY <2>3, <2>4 DEF cs
<1> QED BY <1>3, <1>6, <1>7, <1>8, <1>9, <1>10, Zenon

LEMMA PrintedOnConsole ==
    ASSUME NEW t \in Tty, NEW s \in Boxes, NEW c \in Char \ {"BS"}, Prompt(t) \in Seq(Char),
           v_mem_limit[t] = ConsoleCells, s.cursor >= v_mem_addr(t)
    PROVE  /\ Printed(t, s, c).text = Append(s.text, Given(t, c))
           /\ Keeps(t, s, Printed(t, s, c))
           /\ \A l \in Screens : Matches(t, s.cursor, s.video, l) =>
                  Matches(t, Printed(t, s, c).cursor, Printed(t, s, c).video, Lay(l, Given(t, c)))
<1> DEFINE k == s.cursor
           v == s.video
           x == Append(s.text, Given(t, c))
           g == Given(t, c)
           given == [s EXCEPT !.text = x]
           line == [given EXCEPT !.cursor = next_line(t, k)]
           r == Printed(t, s, c)
<1>1. k \in Int /\ v \in [Cells -> Char] /\ s = Box(k, v, s.text) /\ x \in Seq(Givens) /\ k >= v_mem_addr(t)
    <2>1. s.text \in Seq(Givens) /\ Given(t, c) \in Givens
        BY BoxParts, GivenIs
    <2>2. x \in Seq(Givens)
        <3> HIDE DEF Givens
        <3> QED BY <2>1
    <2> QED BY <2>2, BoxParts
<1>2. given = Box(k, v, x)
    <2> HIDE DEF k, v, x
    <2> QED BY <1>1 DEF Box
<1>3. given \in Boxes /\ given.cursor = k /\ given.video = v /\ given.text = x
    <2> HIDE DEF k, v, x, given
    <2> QED BY <1>1, <1>2, BoxOf
<1>4. Keeps(t, s, given)
    <2>1. k >= k
        BY <1>1
    <2> HIDE DEF given
    <2> QED BY <1>3, <2>1, Zenon DEF Keeps
<1>5. g[1] = c /\ (c = "\n" => Tail(g) = Prompt(t))
    BY GivenIs
<1>6. CASE c # "\n"
    <2>1. r = Put(t, given, c)
        BY <1>6, Zenon DEF Printed
    <2> HIDE DEF given
    <2>2. Put(t, given, c) \in Boxes /\ r.text = x /\ Keeps(t, given, r)
        BY <1>1, <1>3, <2>1, PutOnConsole
    <2>3. Keeps(t, s, r)
        BY <1>3, <1>4, <2>1, <2>2, KeepsAlong
    <2>4. ASSUME NEW l \in Screens, Matches(t, k, v, l) PROVE Matches(t, r.cursor, r.video, Lay(l, g))
        <3>1. Matches(t, r.cursor, r.video, Advance(l, c))
            BY <1>1, <1>3, <2>1, <2>4, PutOnConsole
        <3>2. Lay(l, g) = Advance(l, c)
            <4>1. g[1] # "BS" /\ g[1] # "\n"
                BY <1>5, <1>6
            <4> HIDE DEF g
            <4> QED BY <1>5, <4>1 DEF Lay
        <3> QED BY <3>1, <3>2, Zenon
    <2> QED BY <2>2, <2>3, <2>4
<1>7. CASE c = "\n"
    <2>1. g[1] = "\n" /\ g[1] # "BS"
        BY <1>5, <1>7
    <2>2. ASSUME NEW l PROVE Lay(l, g) = NewLine(l, Prompt(t))
        <3> HIDE DEF g
        <3> QED BY <2>1, <1>5, <1>7 DEF Lay
    <2>3. CASE ~LineRoom(t, k)
        <3>1. r = given
            BY <1>7, <2>3, Zenon DEF Printed
        <3> HIDE DEF given
        <3>2. ASSUME NEW l \in Screens, Matches(t, k, v, l) PROVE Matches(t, r.cursor, r.video, Lay(l, g))
            <4>1. Place(l) + SCREEN_WIDTH >= ConsoleCells
                BY <1>1, <2>3, <3>2, MatchesNextRow
            <4>2. Lay(l, g) = l
                BY <2>2, <4>1, Zenon DEF NewLine
            <4> QED BY <1>3, <3>1, <3>2, <4>2, Zenon
        <3>3. r.text = x /\ Keeps(t, s, r)
            BY <1>3, <1>4, <3>1, Zenon
        <3> QED BY <3>2, <3>3
    <2>4. CASE LineRoom(t, k)
        <3> DEFINE m == next_line(t, k)
                   cs == Prompt(t)
        <3>1. r = PutAll(t, line, cs)
            <4>1. given.cursor = k
                BY <1>3
            <4> QED BY <1>7, <2>4, <4>1, Zenon DEF Printed
        <3>2. line = Box(m, v, x)
            <4> HIDE DEF k, v, x, g, given, r, cs
            <4> QED BY <1>2 DEF Box
        <3>3. m \in Int /\ k < m /\ m <= k + SCREEN_WIDTH
            BY <1>1, NextLine
        <3>4. k + SCREEN_WIDTH <= v_mem_addr(t) + ConsoleCells
            <4>1. k < v_mem_addr(t) + ConsoleCells - SCREEN_WIDTH
                BY <1>1, <2>4, RoomIs
            <4>2. v_mem_addr(t) \in Int /\ ConsoleCells \in Int /\ SCREEN_WIDTH \in Int
                BY Addresses, Sizes
            <4> HIDE DEF k
            <4> QED BY <1>1, <4>1, <4>2
        <3>5. m >= k /\ m <= v_mem_addr(t) + ConsoleCells /\ m >= v_mem_addr(t)
            <4>1. v_mem_addr(t) \in Int /\ ConsoleCells \in Int /\ SCREEN_WIDTH \in Int
                BY Addresses, Sizes
            <4> HIDE DEF k, m
            <4> QED BY <1>1, <3>3, <3>4, <4>1
        <3>6. line \in Boxes /\ line.cursor = m /\ line.video = v /\ line.text = x
            <4> HIDE DEF k, v, x, line, m
            <4> QED BY <1>1, <3>2, <3>3, BoxOf
        <3>7. Keeps(t, s, line)
            <4> HIDE DEF line, m
            <4> QED BY <3>5, <3>6, Zenon DEF Keeps
        <3>8. cs \in Seq(Char)
            OBVIOUS
        <3> HIDE DEF cs, line, m
        <3>9. PutAll(t, line, cs) \in Boxes /\ r.text = x /\ Keeps(t, line, r)
            BY <3>1, <3>5, <3>6, <3>8, PutAllOnConsole
        <3>10. Keeps(t, s, r)
            BY <3>1, <3>6, <3>7, <3>9, KeepsAlong
        <3>11. ASSUME NEW l \in Screens, Matches(t, k, v, l) PROVE Matches(t, r.cursor, r.video, Lay(l, g))
            <4>1. ~(Place(l) + SCREEN_WIDTH >= ConsoleCells)
                  /\ NextRow(l) \in Screens /\ Matches(t, m, v, NextRow(l))
                BY <1>1, <2>4, <3>11, MatchesNextRow DEF m
            <4>2. Lay(l, g) = AdvanceAll(NextRow(l), cs)
                BY <2>2, <4>1, Zenon DEF NewLine, cs
            <4>3. Matches(t, r.cursor, r.video, AdvanceAll(NextRow(l), cs))
                BY <3>1, <3>5, <3>6, <3>8, <4>1, PutAllOnConsole
            <4> QED BY <4>2, <4>3, Zenon
        <3> QED BY <3>9, <3>10, <3>11
    <2> QED BY <2>3, <2>4
<1> QED BY <1>6, <1>7

LEMMA PrintedAlong ==
    ASSUME NEW s0 \in Boxes, NEW w \in Seq(Char), Prompt(0) \in Seq(Char)
    PROVE  \E f \in [0 .. Len(w) -> Boxes] :
              /\ f[0] = s0 /\ f[Len(w)] = PrintedAll(s0, w)
              /\ \A k \in 1 .. Len(w) : f[k] = Printed(0, f[k - 1], w[k])
<1> DEFINE n == Len(w)
           S == Boxes
           b == s0
           step == [i \in 1 .. n |-> [x \in S |-> Printed(0, x, w[i])]]
           Recursion(it) == it = [s \in SUBSET (DOMAIN w) |->
               IF s = {} THEN b ELSE Printed(0, it[s \ {Max(s)}], w[Max(s)])]
           run == CHOOSE it : Recursion(it)
<1>1. DOMAIN w = 1 .. n /\ n \in Nat /\ \A k \in 1 .. n : w[k] \in Char
    OBVIOUS
<1>2. b \in S /\ \A x \in S : \A c \in Char : Printed(0, x, c) \in S
    BY Sizes, PrintedBox
<1> HIDE DEF n, b
<1>3. step \in [1 .. n -> [S -> S]]
    <2>1. ASSUME NEW k \in 1 .. n PROVE [x \in S |-> Printed(0, x, w[k])] \in [S -> S]
        <3> HIDE DEF S
        <3> QED BY <1>1, <1>2
    <2> HIDE DEF S
    <2> QED BY <2>1
<1>4. Recursion(run)
    <2>1. PICK it \in [SUBSET (1 .. n) -> S] : Iterates(it, n, b, step)
        <3> HIDE DEF step, S
        <3> QED BY <1>1, <1>2, <1>3, IterationExists
    <2> HIDE DEF S
    <2>2. Recursion(it)
        <3>1. ASSUME NEW s \in SUBSET (1 .. n), s # {}
              PROVE  it[s] = Printed(0, it[s \ {Max(s)}], w[Max(s)])
            <4>1. Max(s) \in 1 .. n /\ s \ {Max(s)} \in SUBSET (1 .. n)
                BY <3>1, MaxOf, <1>1
            <4>2. it[s] = step[Max(s)][it[s \ {Max(s)}]]
                BY <2>1, <3>1 DEF Iterates
            <4>3. it[s \ {Max(s)}] \in S
                BY <4>1
            <4> QED BY <4>1, <4>2, <4>3
        <3>2. it[{}] = b
            BY <2>1 DEF Iterates
        <3> QED BY <1>1, <3>1, <3>2
    <2> QED BY <2>2
<1> HIDE DEF S
<1>5. PrintedAll(s0, w) = run[1 .. n]
    BY <1>1 DEF b, PrintedAll, FoldLeft, MapThenFoldSet
<1> HIDE DEF run
<1>6. Computes(run, n, S, b, step)
    <2>1. \A s \in SUBSET (1 .. n) :
              run[s] = IF s = {} THEN b ELSE Printed(0, run[s \ {Max(s)}], w[Max(s)])
        BY <1>4, <1>1
    <2>2. ASSUME NEW k \in 1 .. n, run[1 .. k - 1] \in S
          PROVE  run[1 .. k] = step[k][run[1 .. k - 1]]
        <3>1. /\ 1 .. k \in SUBSET (1 .. n) /\ 1 .. k # {}
              /\ Max(1 .. k) = k /\ (1 .. k) \ {k} = 1 .. k - 1
            BY <1>1, Initial
        <3> QED BY <2>1, <2>2, <3>1
    <2>3. run[{}] = b
        BY <2>1
    <2> HIDE DEF step
    <2> QED BY <2>2, <2>3 DEF Computes
<1>7. PICK f : Runs(f, n, S, b, step) /\ f[n] = run[1 .. n]
    <2> HIDE DEF step, Recursion
    <2>1. Fold(n, S, b, step)
        BY <1>1, <1>2, <1>3, Zenon DEF Fold
    <2>2. HasRun(run, n, S, b, step)
        BY <1>6, <2>1, RunAlong, Zenon
    <2> QED BY <2>2, Zenon DEF HasRun
<1>8. \A k \in 1 .. n : f[k] = Printed(0, f[k - 1], w[k])
    <2>1. \A k \in 1 .. n : k - 1 \in 0 .. n
        BY <1>1
    <2>2. \A k \in 1 .. n : f[k - 1] \in S
        BY <2>1, <1>7 DEF Runs
    <2> QED BY <1>7, <2>2 DEF Runs
<1> QED BY <1>5, <1>7, <1>8 DEF n, b, S, Runs

\* two folds over the same elements are the same along them
LEMMA SameRuns ==
    ASSUME NEW n \in Nat, NEW f, NEW h, f[0] = h[0],
           \A k \in 1 .. n : f[k - 1] = h[k - 1] => f[k] = h[k]
    PROVE  f[n] = h[n]
<1> DEFINE T == {k \in 0 .. n : f[k] = h[k]}
<1>1. 0 \in T
    OBVIOUS
<1>2. ASSUME NEW k \in 1 .. n, k - 1 \in T PROVE k \in T
    <2>1. k \in 0 .. n
        OBVIOUS
    <2> QED BY <1>2, <2>1
<1>3. n \in 0 .. n
    OBVIOUS
<1> HIDE DEF T
<1>4. 0 .. n \subseteq T
    BY <1>1, <1>2, Induction
<1> QED BY <1>3, <1>4 DEF T

LEMMA LayoutAppend ==
    ASSUME NEW t \in Tty, NEW gs \in Seq(Givens), NEW g \in Givens
    PROVE  /\ LayoutOf(t, gs) \in Screens
           /\ LayoutOf(t, Append(gs, g)) = Lay(LayoutOf(t, gs), g)
<1> DEFINE n == Len(gs)
           all == Append(gs, g)
<1>1. all \in Seq(Givens) /\ Len(all) = n + 1 /\ n \in Nat /\ all[n + 1] = g
      /\ \A k \in 1 .. n : all[k] = gs[k] /\ k \in 1 .. n + 1
    <2> HIDE DEF Givens
    <2> QED OBVIOUS
<1> HIDE DEF n, all
<1>2. PICK f \in [0 .. n -> Screens] :
          /\ f[0] = Blank(t) /\ f[n] = LayoutOf(t, gs)
          /\ \A k \in 1 .. n : f[k] = Lay(f[k - 1], gs[k])
    BY LayoutAlong DEF n
<1>3. PICK h \in [0 .. n + 1 -> Screens] :
          /\ h[0] = Blank(t) /\ h[n + 1] = LayoutOf(t, all)
          /\ \A k \in 1 .. n + 1 : h[k] = Lay(h[k - 1], all[k])
    <2>1. \E h \in [0 .. Len(all) -> Screens] :
              /\ h[0] = Blank(t) /\ h[Len(all)] = LayoutOf(t, all)
              /\ \A k \in 1 .. Len(all) : h[k] = Lay(h[k - 1], all[k])
        BY <1>1, LayoutAlong
    <2> QED BY <1>1, <2>1, Zenon
<1>4. \A k \in 1 .. n : f[k - 1] = h[k - 1] => f[k] = h[k]
    BY <1>1, <1>2, <1>3
<1>5. f[n] = h[n]
    <2>1. n \in Nat /\ f[0] = h[0]
        BY <1>1, <1>2, <1>3
    <2> QED BY <1>4, <2>1, SameRuns
<1>6. n \in 0 .. n /\ n + 1 \in 1 .. n + 1 /\ (n + 1) - 1 = n
    BY <1>1
<1>7. LayoutOf(t, all) = Lay(f[n], g)
    BY <1>1, <1>3, <1>5, <1>6
<1>8. f[n] \in Screens
    <2> HIDE DEF Screens
    <2> QED BY <1>2, <1>6
<1> QED BY <1>2, <1>7, <1>8 DEF all

LEMMA LayoutEmpty == \A t \in Tty : LayoutOf(t, <<>>) = Blank(t)
<1> SUFFICES ASSUME NEW t \in Tty PROVE LayoutOf(t, <<>>) = Blank(t)
    OBVIOUS
<1> DEFINE e == <<>>
<1>1. e \in Seq(Givens) /\ Len(e) = 0
    OBVIOUS
<1> HIDE DEF e
<1>2. LayoutOf(t, e) = Blank(t)
    BY <1>1, LayoutAlong
<1> QED BY <1>2 DEF e

LEMMA EditedAppend ==
    ASSUME NEW V, NEW keys \in Seq(V), NEW c \in V
    PROVE  /\ Edited(keys) \in Seq(V)
           /\ Edited(Append(keys, c)) = Edit(Edited(keys), c)
<1> DEFINE n == Len(keys)
           all == Append(keys, c)
<1>1. all \in Seq(V) /\ Len(all) = n + 1 /\ n \in Nat /\ all[n + 1] = c
      /\ \A k \in 1 .. n : all[k] = keys[k] /\ k \in 1 .. n + 1
    OBVIOUS
<1> HIDE DEF n, all
<1>2. PICK f \in [0 .. n -> Seq(V)] :
          /\ f[0] = <<>> /\ f[n] = Edited(keys)
          /\ \A k \in 1 .. n : f[k] = Edit(f[k - 1], keys[k])
    BY EditedAlong DEF n
<1>3. PICK h \in [0 .. n + 1 -> Seq(V)] :
          /\ h[0] = <<>> /\ h[n + 1] = Edited(all)
          /\ \A k \in 1 .. n + 1 : h[k] = Edit(h[k - 1], all[k])
    <2>1. \E h \in [0 .. Len(all) -> Seq(V)] :
              /\ h[0] = <<>> /\ h[Len(all)] = Edited(all)
              /\ \A k \in 1 .. Len(all) : h[k] = Edit(h[k - 1], all[k])
        BY <1>1, EditedAlong
    <2> QED BY <1>1, <2>1, Zenon
<1>4. \A k \in 1 .. n : f[k - 1] = h[k - 1] => f[k] = h[k]
    BY <1>1, <1>2, <1>3
<1>5. f[n] = h[n]
    <2>1. n \in Nat /\ f[0] = h[0]
        BY <1>1, <1>2, <1>3
    <2> QED BY <1>4, <2>1, SameRuns
<1>6. n \in 0 .. n /\ n + 1 \in 1 .. n + 1 /\ (n + 1) - 1 = n
    BY <1>1
<1>7. Edited(all) = Edit(f[n], c)
    BY <1>1, <1>3, <1>5, <1>6
<1>8. f[n] \in Seq(V)
    BY <1>2, <1>6
<1> QED BY <1>2, <1>7, <1>8 DEF all

LEMMA EditedEmpty == Edited(<<>>) = <<>>
<1> DEFINE e == <<>>
<1>1. e \in Seq({}) /\ Len(e) = 0
    OBVIOUS
<1> HIDE DEF e
<1>2. Edited(e) = <<>>
    BY <1>1, EditedAlong
<1> QED BY <1>2 DEF e

\* a whole text of a write, on the first console
LEMMA WriteTypes ==
    ASSUME NEW s \in Boxes, NEW w \in Seq(Char), Prompt(0) \in Seq(Char)
    PROVE  PrintedAll(s, w) \in Boxes
<1> DEFINE n == Len(w)
<1>1. n \in 0 .. n
    OBVIOUS
<1>2. PICK f \in [0 .. n -> Boxes] :
          /\ f[0] = s /\ f[n] = PrintedAll(s, w)
          /\ \A i \in 1 .. n : f[i] = Printed(0, f[i - 1], w[i])
    BY PrintedAlong
<1> HIDE DEF n
<1> QED BY <1>1, <1>2

LEMMA WriteOnConsole ==
    ASSUME NEW s \in Boxes, NEW w \in Seq(Char \ {"BS"}), Prompt(0) \in Seq(Char),
           v_mem_limit[0] = ConsoleCells, s.cursor >= v_mem_addr(0)
    PROVE  /\ Keeps(0, s, PrintedAll(s, w))
           /\ LET r == PrintedAll(s, w) IN
              Matches(0, s.cursor, s.video, LayoutOf(0, s.text)) => Matches(0, r.cursor, r.video, LayoutOf(0, r.text))
<1> DEFINE n == Len(w)
           Shown(x) == Matches(0, x.cursor, x.video, LayoutOf(0, x.text))
<1>1. w \in Seq(Char) /\ n \in Nat /\ 0 \in Tty
      /\ \A i \in 1 .. n : w[i] \in Char \ {"BS"} /\ i - 1 \in 0 .. n /\ i \in 0 .. n
    BY Sizes
<1>2. PICK f \in [0 .. n -> Boxes] :
          /\ f[0] = s /\ f[n] = PrintedAll(s, w)
          /\ \A i \in 1 .. n : f[i] = Printed(0, f[i - 1], w[i])
    BY <1>1, PrintedAlong
<1> HIDE DEF n, Shown
<1>3. \A i \in 0 .. n : f[i] \in Boxes
    BY <1>2
<1> DEFINE T == {i \in 0 .. n : Keeps(0, s, f[i]) /\ (Shown(s) => Shown(f[i]))}
<1>4. 0 \in T
    BY <1>1, <1>2, KeepsItself
<1>5. ASSUME NEW i \in 1 .. n, i - 1 \in T PROVE i \in T
    <2> DEFINE a == f[i - 1]
               c == w[i]
    <2>1. Keeps(0, s, a) /\ i \in 0 .. n /\ c \in Char \ {"BS"} /\ a \in Boxes
          /\ f[i] \in Boxes /\ f[i] = Printed(0, a, c) /\ (Shown(s) => Shown(a))
        BY <1>5, <1>1, <1>2, <1>3
    <2>2. a.cursor >= v_mem_addr(0)
        <3>1. a.cursor \in Int /\ s.cursor \in Int /\ v_mem_addr(0) \in Int
            BY <1>1, <2>1, BoxParts, Addresses
        <3>2. a.cursor >= s.cursor
            BY <2>1, Zenon DEF Keeps
        <3> HIDE DEF a
        <3> QED BY <3>1, <3>2
    <2> HIDE DEF a, c
    <2>3. f[i].text = Append(a.text, Given(0, c)) /\ Keeps(0, a, f[i])
        BY <1>1, <2>1, <2>2, PrintedOnConsole
    <2>4. Keeps(0, s, f[i])
        BY <1>1, <2>1, <2>3, KeepsAlong
    <2>5. ASSUME Shown(a) PROVE Shown(f[i])
        <3>1. a.text \in Seq(Givens) /\ Given(0, c) \in Givens
            BY <1>1, <2>1, BoxParts, GivenIs
        <3>2. LayoutOf(0, a.text) \in Screens
              /\ LayoutOf(0, f[i].text) = Lay(LayoutOf(0, a.text), Given(0, c))
            BY <1>1, <2>3, <3>1, LayoutAppend
        <3>3. Matches(0, f[i].cursor, f[i].video, Lay(LayoutOf(0, a.text), Given(0, c)))
            BY <1>1, <2>1, <2>2, <2>5, <3>2, PrintedOnConsole DEF Shown
        <3> QED BY <3>2, <3>3, Zenon DEF Shown
    <2> QED BY <2>1, <2>4, <2>5
<1> HIDE DEF T
<1>6. 0 .. n \subseteq T
    BY <1>1, <1>4, <1>5, Induction
<1>7. n \in 0 .. n
    BY <1>1
<1>8. Keeps(0, s, f[n]) /\ (Shown(s) => Shown(f[n]))
    BY <1>6, <1>7 DEF T
<1> QED BY <1>2, <1>8, Zenon DEF Shown

LEMMA RunExists ==
    ASSUME NEW n \in Nat, NEW S, NEW b \in S, NEW step \in [1 .. n -> [S -> S]]
    PROVE  \E f : Runs(f, n, S, b, step)
<1>1. PICK it \in [SUBSET (1 .. n) -> S] : Iterates(it, n, b, step)
    BY IterationExists
<1>2. it[{}] = b
    BY <1>1 DEF Iterates
<1>3. ASSUME NEW k \in 1 .. n PROVE it[1 .. k] = step[k][it[1 .. k - 1]]
    <2>1. /\ 1 .. k \in SUBSET (1 .. n) /\ 1 .. k # {}
          /\ Max(1 .. k) = k /\ (1 .. k) \ {k} = 1 .. k - 1
        BY Initial
    <2> QED BY <1>1, <2>1 DEF Iterates
<1>4. Computes(it, n, S, b, step)
    BY <1>2, <1>3 DEF Computes
<1>5. Fold(n, S, b, step)
    BY Zenon DEF Fold
<1>6. HasRun(it, n, S, b, step)
    BY <1>4, <1>5, RunAlong, Zenon
<1> QED BY <1>6, Zenon DEF HasRun

LEMMA FlattenAlong ==
    ASSUME NEW V, NEW ss \in Seq(Seq(V)), ss # <<>>
    PROVE  \E f \in [1 .. Len(ss) -> Seq(V)] :
              /\ f[1] = ss[1] /\ f[Len(ss)] = FlattenSeq(ss)
              /\ \A k \in 2 .. Len(ss) : f[k] = f[k - 1] \o ss[k]
<1> DEFINE n == Len(ss)
           S == Seq(V)
           b == <<>>
           step == [i \in 1 .. n |-> [x \in S |-> IF i = 1 THEN ss[i] ELSE x \o ss[i]]]
           Recursion(g) == g = [i \in 1 .. Len(ss) |-> IF i = 1 THEN ss[i] ELSE g[i - 1] \o ss[i]]
           f == CHOOSE g : Recursion(g)
<1>1. n \in Nat \ {0} /\ b \in S /\ \A k \in 1 .. n : ss[k] \in S
    OBVIOUS
<1> HIDE DEF n, b
<1>2. step \in [1 .. n -> [S -> S]]
    <2>1. ASSUME NEW k \in 1 .. n
          PROVE  [x \in S |-> IF k = 1 THEN ss[k] ELSE x \o ss[k]] \in [S -> S]
        BY <1>1
    <2> HIDE DEF S
    <2> QED BY <2>1
<1>3. PICK h : Runs(h, n, S, b, step)
    <2> HIDE DEF step, S
    <2> QED BY <1>1, <1>2, RunExists
<1>4. \A k \in 1 .. n : h[k - 1] \in S /\ h[k] = IF k = 1 THEN ss[k] ELSE h[k - 1] \o ss[k]
    <2>1. \A k \in 1 .. n : k - 1 \in 0 .. n
        BY <1>1
    <2> HIDE DEF S
    <2>2. \A k \in 1 .. n : h[k - 1] \in S
        BY <1>3, <2>1 DEF Runs
    <2> QED BY <1>3, <2>2 DEF Runs
<1>5. Recursion([k \in 1 .. n |-> h[k]])
    <2> DEFINE g == [k \in 1 .. n |-> h[k]]
    <2>1. \A k \in 1 .. n : k # 1 => k - 1 \in 1 .. n
        BY <1>1
    <2>2. \A k \in 1 .. n : g[k] = IF k = 1 THEN ss[k] ELSE g[k - 1] \o ss[k]
        BY <1>4, <2>1
    <2>3. g = [k \in 1 .. n |-> g[k]]
        OBVIOUS
    <2> DEFINE E(i) == IF i = 1 THEN ss[i] ELSE g[i - 1] \o ss[i]
    <2> HIDE DEF g
    <2>4. g = [i \in 1 .. n |-> E(i)]
        <3>1. \A k \in 1 .. n : g[k] = E(k)
            BY <2>2
        <3> HIDE DEF E
        <3> QED BY <2>3, <3>1
    <2>5. Recursion(g)
        BY <2>4, Zenon DEF n
    <2> QED BY <2>5 DEF g
<1>6. Recursion(f)
    BY <1>5
<1>7. FlattenSeq(ss) = f[n]
    <2>1. Len(ss) # 0
        BY <1>1 DEF n
    <2> QED BY <2>1 DEF FlattenSeq, n
<1> HIDE DEF f
<1>8. \A k \in 1 .. n : f[k] = IF k = 1 THEN ss[k] ELSE f[k - 1] \o ss[k]
    BY <1>6 DEF n
<1>9. \A k \in 1 .. n : f[k] \in S
    <2> DEFINE T == {k \in 0 .. n : k # 0 => f[k] \in S}
    <2>1. 0 \in T
        BY <1>1
    <2>2. ASSUME NEW k \in 1 .. n, k - 1 \in T PROVE k \in T
        <3>1. k = 1 \/ k - 1 \in 1 .. n
            BY <1>1
        <3>2. ss[k] \in S /\ (k # 1 => f[k - 1] \in S)
            BY <1>1, <2>2
        <3>3. CASE k = 1
            BY <1>8, <3>2, <3>3
        <3>4. CASE k # 1
            <4>1. f[k] = f[k - 1] \o ss[k]
                BY <1>8, <3>4
            <4>2. f[k] \in S
                BY <3>2, <3>4, <4>1
            <4> QED BY <4>2
        <3> QED BY <3>3, <3>4
    <2> HIDE DEF T, S
    <2>3. 0 .. n \subseteq T
        BY <1>1, <2>1, <2>2, Induction
    <2> QED BY <1>1, <2>3 DEF T
<1>10. f \in [1 .. n -> S]
    <2>1. f = [k \in 1 .. n |-> f[k]]
        BY <1>6 DEF n
    <2> HIDE DEF S
    <2> QED BY <1>9, <2>1
<1>11. f[1] = ss[1] /\ \A k \in 2 .. n : f[k] = f[k - 1] \o ss[k]
    <2>1. 1 \in 1 .. n /\ \A k \in 2 .. n : k \in 1 .. n /\ k # 1
        BY <1>1
    <2> QED BY <1>8, <2>1, Zenon
<1> QED BY <1>7, <1>10, <1>11 DEF n, S

LEMMA FlattenIs ==
    ASSUME NEW V, NEW ss \in Seq(Seq(V))
    PROVE  /\ FlattenSeq(ss) \in Seq(V)
           /\ Len(ss) = 1 => FlattenSeq(ss) = ss[1]
           /\ Len(ss) = 2 => FlattenSeq(ss) = ss[1] \o ss[2]
<1>1. CASE ss = <<>>
    BY <1>1 DEF FlattenSeq
<1>2. CASE ss # <<>>
    <2>1. PICK f \in [1 .. Len(ss) -> Seq(V)] :
              /\ f[1] = ss[1] /\ f[Len(ss)] = FlattenSeq(ss)
              /\ \A k \in 2 .. Len(ss) : f[k] = f[k - 1] \o ss[k]
        BY <1>2, FlattenAlong
    <2>2. Len(ss) \in 1 .. Len(ss)
        BY <1>2
    <2>3. f[Len(ss)] \in Seq(V)
        <3> DEFINE S == Seq(V)
                   n == Len(ss)
        <3>1. f \in [1 .. n -> S] /\ n \in 1 .. n
            BY <2>2
        <3> HIDE DEF S, n
        <3>2. f[n] \in S
            BY <3>1
        <3> QED BY <3>2 DEF S, n
    <2>4. Len(ss) = 2 => f[2] = ss[1] \o ss[2]
        BY <2>1
    <2> QED BY <2>1, <2>3, <2>4
<1> QED BY <1>1, <1>2

-----------------------------------------------------------------------------
(* The types, and what the places in print say of the character            *)

LineTypes ==
    /\ command \in [Tty -> [Command -> Plain]]
    /\ curr \in [Tty -> -TTY_IN_BYTES .. TTY_IN_BYTES]
    /\ typed \in [Tty -> Seq(Char \ {"\n"})]

PrefixTypes == prefix \in [Tty -> Seq(Plain)]

DirectoryTypes ==
    /\ dictionary_buffer \in [Tty -> [1 .. 2 -> Seq(Entry)]]
    /\ dir \in [Tty -> Seq(Seq(Entry))] /\ longest \in [Tty -> Nat]

ConsoleTypes ==
    /\ v_mem_limit \in [Tty -> {0, ConsoleCells}] /\ cursor \in [Tty -> Int]
    /\ video \in [Cells -> Char] /\ text \in [Tty -> Seq(Givens)]

PrintTypes ==
    /\ at \in {"init", "rest", "print", "test", "erase", "cells", "move", "show"}
    /\ index \in Tty /\ p_vmem \in Int /\ out \in Seq(Char \cup {"show"})
    /\ at \in {"test", "erase", "cells", "move", "show"} => out # <<>>
    /\ at \in {"test", "erase", "cells", "move"} => char # "show"
    /\ at \in {"cells", "move"} => char \notin {"\n", "BS"}
    /\ at = "erase" => char = "BS"

ShowTypes == current_console \in Tty /\ video_addr \in {v_mem_addr(t) : t \in Tty}

Types == LineTypes /\ PrefixTypes /\ DirectoryTypes /\ ConsoleTypes /\ PrintTypes /\ ShowTypes

LEMMA Characters ==
    /\ "show" \notin Char /\ NUL \in Plain /\ "/" \in Plain /\ ">" \in Plain /\ " " \in Plain
    /\ "r" \in Plain /\ "o" \in Plain /\ "t" \in Plain /\ FirstByte \in Char
    /\ "\n" \in Char /\ "BS" \in Char
    /\ \A t \in Tty : digit[t + 1] \in Plain
<1>1. "show" \notin Char /\ NUL \in Plain /\ "/" \in Plain /\ ">" \in Plain /\ " " \in Plain
      /\ "r" \in Plain /\ "o" \in Plain /\ "t" \in Plain /\ FirstByte \in Char
      /\ "\n" \in Char /\ "BS" \in Char
    BY TextAssumption DEF Plain, NUL
<1>2. "0" \in Plain /\ "1" \in Plain /\ "2" \in Plain
    BY TextAssumption DEF Plain
<1>3. ASSUME NEW t \in Tty PROVE digit[t + 1] \in Plain
    <2>1. NR_CONSOLE \in 1 .. 3
        BY SizesAssumption DEF digit
    <2>2. t = 0 \/ t = 1 \/ t = 2
        BY <2>1 DEF Tty
    <2>3. digit[1] \in Plain /\ digit[2] \in Plain /\ digit[3] \in Plain
        BY <1>2 DEF digit
    <2>4. 0 + 1 = 1 /\ 1 + 1 = 2 /\ 2 + 1 = 3
        OBVIOUS
    <2> QED BY <2>2, <2>3, <2>4, Zenon
<1> QED BY <1>1, <1>3

LEMMA PromptType ==
    ASSUME PrefixTypes, NEW t \in Tty
    PROVE  Prompt(t) \in Seq(Plain) /\ Prompt(t) \in Seq(Char) /\ Prompt(t) # <<>>
<1> DEFINE p == prefix[t]
<1>1. p \in Seq(Plain) /\ ">" \in Plain
    BY Characters DEF PrefixTypes
<1> HIDE DEF p
<1>2. p \o <<">">> \in Seq(Plain) /\ Len(p \o <<">">>) = Len(p) + 1 /\ Len(p) \in Nat
    BY <1>1
<1>3. p \o <<">">> \in Seq(Char)
    BY <1>2 DEF Plain
<1>4. p \o <<">">> # <<>>
    BY <1>2
<1> QED BY <1>2, <1>3, <1>4 DEF p, Prompt

LEMMA MinOf ==
    ASSUME NEW s \in SUBSET Nat, s # {}
    PROVE  Min(s) \in s /\ \A i \in s : Min(s) <= i
<1>1. PICK m \in s : \A k \in s : m <= k
    BY LeastNumber
<1> QED BY <1>1 DEF Min

LEMMA ArgumentType ==
    ASSUME LineTypes, NEW t \in Tty, NEW i \in Nat
    PROVE  Argument(t, i) \in Seq(Plain)
<1> DEFINE end == {j \in i .. TTY_IN_BYTES - 1 : command[t][j] = NUL}
           n == IF end = {} THEN TTY_IN_BYTES - i ELSE Min(end) - i
<1>1. TTY_IN_BYTES \in Nat
    BY Sizes
<1>2. n \in Int /\ i + n <= TTY_IN_BYTES
    <2>1. CASE end = {}
        BY <1>1, <2>1
    <2>2. CASE end # {}
        <3>1. end \in SUBSET Nat /\ \A j \in end : j <= TTY_IN_BYTES - 1
            BY <1>1
        <3> HIDE DEF end
        <3>2. Min(end) \in end
            BY <2>2, <3>1, MinOf
        <3>3. Min(end) \in Nat /\ Min(end) <= TTY_IN_BYTES - 1
            BY <3>1, <3>2
        <3> QED BY <1>1, <2>2, <3>3
    <2> QED BY <2>1, <2>2
<1>3. Argument(t, i) = [k \in 1 .. n |-> command[t][i + k - 1]]
    BY DEF Argument
<1> HIDE DEF n
<1>4. \A k \in 1 .. n : i + k - 1 \in Command
    BY <1>1, <1>2 DEF Command
<1>5. command[t] \in [Command -> Plain]
    BY DEF LineTypes
<1>6. \A k \in 1 .. n : command[t][i + k - 1] \in Plain
    <2> HIDE DEF Command
    <2> QED BY <1>4, <1>5
<1>7. [k \in 1 .. n |-> command[t][i + k - 1]] \in Seq(Plain)
    <2> DEFINE f == [k \in 1 .. n |-> command[t][i + k - 1]]
    <2>1. ASSUME n >= 0 PROVE f \in Seq(Plain)
        <3>1. f \in [1 .. n -> Plain] /\ n \in Nat
            BY <1>2, <1>6, <2>1
        <3> HIDE DEF f
        <3> QED BY <3>1
    <2>2. ASSUME ~(n >= 0) PROVE f \in Seq(Plain)
        <3>1. 1 .. n = 1 .. 0
            BY <1>2, <2>2
        <3>2. f \in [1 .. 0 -> Plain]
            BY <3>1
        <3> HIDE DEF f
        <3> QED BY <3>2
    <2> QED BY <2>1, <2>2
<1> QED BY <1>3, <1>7

LEMMA EntryParts ==
    ASSUME NEW e \in Entry
    PROVE  /\ e.name \in Seq(Char \ {FirstByte}) /\ e.name \in Seq(Char)
           /\ e.inode \in Nat /\ e.last \in BOOLEAN
<1>1. e.name \in Seq(Char \ {FirstByte}) /\ e.inode \in Nat /\ e.last \in BOOLEAN
    BY DEF Entry
<1> QED BY <1>1

LEMMA EntriesType ==
    ASSUME NEW b \in [1 .. 2 -> Seq(Entry)]
    PROVE  Entries(b) \in Seq(Entry)
<1>1. b[1] \in Seq(Entry) /\ b[2] \in Seq(Entry)
    OBVIOUS
<1> HIDE DEF Entry
<1> QED BY <1>1 DEF Entries

LEMMA NamesType ==
    ASSUME DirectoryTypes, NEW t \in Tty
    PROVE  Names(t) \in Seq(Char)
<1> DEFINE e == Entries(dictionary_buffer[t])
           s == [i \in DOMAIN e |-> Append(CString(e, i), " ")]
<1>1. e \in Seq(Entry)
    BY EntriesType DEF DirectoryTypes
<1>2. ASSUME NEW i \in DOMAIN e PROVE Append(CString(e, i), " ") \in Seq(Char)
    <2>1. e[i] \in Entry
        <3> HIDE DEF e, Entry
        <3> QED BY <1>1, <1>2
    <2>2. e[i].name \in Seq(Char) /\ FirstByte \in Char /\ " " \in Char
        BY <2>1, EntryParts, Characters DEF Plain
    <2>3. CString(e, i) = e[i].name \/ CString(e, i) = Append(e[i].name, FirstByte)
        BY Zenon DEF CString
    <2>4. ASSUME NEW x \in Seq(Char)
          PROVE  Append(x, FirstByte) \in Seq(Char) /\ Append(x, " ") \in Seq(Char)
        <3>1. FirstByte \in Char /\ " " \in Char
            BY Characters DEF Plain
        <3> QED BY <3>1, AppendProperties
    <2> QED BY <2>2, <2>3, <2>4, Zenon
<1>3. s \in Seq(Seq(Char))
    <2> HIDE DEF e
    <2>1. DOMAIN e = 1 .. Len(e) /\ Len(e) \in Nat
        <3> HIDE DEF Entry
        <3> QED BY <1>1
    <2> DEFINE n == Len(e)
               S == Seq(Char)
               a(i) == Append(CString(e, i), " ")
    <2>2. n \in Nat /\ DOMAIN e = 1 .. n /\ \A i \in 1 .. n : a(i) \in S
        BY <1>2, <2>1
    <2> HIDE DEF n, S, a
    <2>3. [i \in 1 .. n |-> a(i)] \in Seq(S)
        BY <2>2
    <2> QED BY <2>2, <2>3 DEF a, S
<1> HIDE DEF s
<1>4. FlattenSeq(s) \in Seq(Char)
    BY <1>3, FlattenIs
<1> QED BY <1>4 DEF s, Names

\* what a step leaves alone
LEMMA Frames ==
    ASSUME [Next]_vars
    PROVE  /\ init \/ type \/ (command' = command /\ curr' = curr /\ typed' = typed /\ prefix' = prefix)
           /\ type \/ (dictionary_buffer' = dictionary_buffer /\ dir' = dir /\ longest' = longest)
           /\ init \/ v_mem_limit' = v_mem_limit
           /\ init \/ write \/ print_step \/ cursor' = cursor
           /\ write \/ print_step \/ (video' = video /\ text' = text)
           /\ init \/ type \/ printed \/ print_step \/
                 (at' = at /\ index' = index /\ out' = out /\ p_vmem' = p_vmem)
           /\ init \/ type \/ printed \/ index' = index
           /\ select_console \/ current_console' = current_console
           /\ write \/ select_console \/ print_step \/ printed \/ video_addr' = video_addr
<1>1. CASE UNCHANGED vars
    BY <1>1 DEF vars, lineVars, dirVars, consoleVars, printVars, showVars
<1>2. CASE print_step
    BY <1>2 DEF print_step, print, print_newline, print_backspace, erase, print_char, cells, move, show,
                goto, lineVars, dirVars, consoleVars, printVars, showVars
<1>3. CASE init
    BY <1>3 DEF init, lineVars, dirVars, consoleVars, printVars, showVars
<1>4. CASE printed
    BY <1>4 DEF printed, lineVars, dirVars, consoleVars, printVars, showVars
<1>5. CASE type
    BY <1>5 DEF type, lineVars, dirVars, consoleVars, printVars, showVars
<1>6. CASE select_console
    BY <1>6 DEF select_console, lineVars, dirVars, consoleVars, printVars, showVars
<1>7. CASE write
    BY <1>7 DEF write, lineVars, dirVars, consoleVars, printVars, showVars
<1> QED BY <1>1, <1>2, <1>3, <1>4, <1>5, <1>6, <1>7 DEF Next, task_tty

LEMMA WholeSeq ==
    ASSUME NEW s \in Seq(Char)
    PROVE  SubSeq(s, 1, Len(s)) = s
BY SMTT(30)

LEMMA KeyTyped ==
    ASSUME LineTypes, ShowTypes, type
    PROVE  \E c \in Char : /\ at = "rest" /\ tty_do_write(current_console, c)
                           /\ UNCHANGED <<consoleVars, showVars, torn, writes>>
<1>1. PICK l \in Lines :
          /\ IsStrictPrefix(typed[current_console], l)
          /\ tty_do_write(current_console, l[Len(typed[current_console]) + 1])
    BY DEF type
<1> DEFINE s == typed[current_console]
<1>2. s \in Seq(Char) /\ l \in Seq(Char)
    <2>1. s \in Seq(Char \ {"\n"})
        BY DEF LineTypes, ShowTypes
    <2>2. Char \ {"\n"} \subseteq Char
        OBVIOUS
    <2>3. s \in Seq(Char)
        <3> HIDE DEF s
        <3> QED BY <2>1, <2>2, SeqMonotonic
    <2> QED BY <2>3, TextAssumption, Zenon
<1> HIDE DEF s
<1>3. Len(s) + 1 \in 1 .. Len(l)
    <2>1. Len(s) <= Len(l) /\ SubSeq(s, 1, Len(s)) = SubSeq(l, 1, Len(s)) /\ s # l
        <3>1. IsStrictPrefix(s, l)
            BY <1>1, Zenon DEF s
        <3> QED BY <3>1, Zenon DEF IsStrictPrefix, IsPrefix
    <2>2. SubSeq(s, 1, Len(s)) = s /\ SubSeq(l, 1, Len(l)) = l
        BY <1>2, WholeSeq, Zenon
    <2>3. Len(s) # Len(l)
        BY <2>1, <2>2
    <2> QED BY <1>2, <2>1, <2>3
<1>4. l[Len(s) + 1] \in Char
    BY <1>2, <1>3
<1> QED BY <1>1, <1>4 DEF type, s

LEMMA LineTypesStep ==
    ASSUME LineTypes, ShowTypes, PrintTypes, [Next]_vars
    PROVE  LineTypes'
<1>1. ASSUME NEW t \in Tty, clear_command(t)
      PROVE  command' \in [Tty -> [Command -> Plain]] /\ curr' \in [Tty -> -TTY_IN_BYTES .. TTY_IN_BYTES]
    <2>1. ASSUME NEW i \in Command PROVE (IF i < 0 THEN command[t][i] ELSE NUL) \in Plain
        BY Characters DEF LineTypes
    <2>2. [i \in Command |-> IF i < 0 THEN command[t][i] ELSE NUL] \in [Command -> Plain]
        BY <2>1
    <2>3. 0 \in -TTY_IN_BYTES .. TTY_IN_BYTES
        BY Sizes
    <2> QED BY <1>1, <2>2, <2>3 DEF clear_command, LineTypes
<1>2. CASE init
    <2>1. clear_command(index) /\ index \in Tty /\ typed' = typed
        BY <1>2 DEF init, PrintTypes
    <2> QED BY <1>1, <2>1 DEF LineTypes
<1>3. CASE type
    <2> DEFINE t == current_console
    <2>1. PICK c \in Char : tty_do_write(t, c)
        BY <1>3, KeyTyped
    <2>2. t \in Tty
        BY DEF ShowTypes
    <2> HIDE DEF t
    <2>3. ~Full(t) /\ curr[t] \in -TTY_IN_BYTES .. TTY_IN_BYTES /\ TTY_IN_BYTES \in Nat
        BY <2>1, <2>2, Sizes DEF tty_do_write, LineTypes
    <2>4. curr[t] - 1 \in -TTY_IN_BYTES .. TTY_IN_BYTES /\ curr[t] + 1 \in -TTY_IN_BYTES .. TTY_IN_BYTES
        BY <2>3 DEF Full
    <2>5. CASE c = "\n"
        <3>1. clear_command(t) /\ typed' = [typed EXCEPT ![t] = <<>>]
            BY <2>1, <2>5 DEF tty_do_write
        <3>2. typed' \in [Tty -> Seq(Char \ {"\n"})]
            <4> DEFINE S == Seq(Char \ {"\n"})
                       e == <<>>
            <4>1. e \in S /\ typed \in [Tty -> S] /\ typed' = [typed EXCEPT ![t] = e]
                BY <3>1 DEF LineTypes
            <4> HIDE DEF S, e
            <4>2. typed' \in [Tty -> S]
                BY <4>1
            <4> QED BY <4>2 DEF S
        <3> QED BY <1>1, <2>2, <3>1, <3>2 DEF LineTypes
    <2>6. CASE c # "\n"
        <3>1. typed' = [typed EXCEPT ![t] = Append(@, c)]
            BY <2>1, <2>6 DEF tty_do_write
        <3>2. Append(typed[t], c) \in Seq(Char \ {"\n"})
            <4>1. typed[t] \in Seq(Char \ {"\n"}) /\ c \in Char \ {"\n"}
                BY <2>2, <2>6 DEF LineTypes
            <4> QED BY <4>1
        <3>3. typed' \in [Tty -> Seq(Char \ {"\n"})]
            BY <3>1, <3>2 DEF LineTypes
        <3>4. CASE c = "BS"
            <4>1. curr' = [curr EXCEPT ![t] = @ - 1] /\ command' = [command EXCEPT ![t][curr[t] - 1] = NUL]
                BY <2>1, <3>4 DEF tty_do_write
            <4>2. curr' \in [Tty -> -TTY_IN_BYTES .. TTY_IN_BYTES]
                BY <2>4, <4>1 DEF LineTypes
            <4>3. command' \in [Tty -> [Command -> Plain]]
                BY <4>1, Characters DEF LineTypes
            <4> QED BY <3>3, <4>2, <4>3 DEF LineTypes
        <3>5. CASE c # "BS"
            <4>1. curr' = [curr EXCEPT ![t] = @ + 1] /\ command' = [command EXCEPT ![t][curr[t]] = c]
                  /\ c \in Plain
                BY <2>1, <2>6, <3>5 DEF tty_do_write, Plain
            <4>2. curr' \in [Tty -> -TTY_IN_BYTES .. TTY_IN_BYTES]
                BY <2>4, <4>1 DEF LineTypes
            <4>3. command' \in [Tty -> [Command -> Plain]]
                BY <4>1 DEF LineTypes
            <4> QED BY <3>3, <4>2, <4>3 DEF LineTypes
        <3> QED BY <3>4, <3>5
    <2> QED BY <2>5, <2>6
<1>4. CASE command' = command /\ curr' = curr /\ typed' = typed
    BY <1>4 DEF LineTypes
<1> QED BY <1>2, <1>3, <1>4, Frames

LEMMA PrefixTypesStep ==
    ASSUME LineTypes, ShowTypes, PrintTypes, PrefixTypes, [Next]_vars
    PROVE  PrefixTypes'
<1>1. CASE init
    <2>1. prefix' = [prefix EXCEPT ![index] = <<digit[index + 1]>>] /\ index \in Tty
        BY <1>1 DEF init, PrintTypes
    <2>2. digit[index + 1] \in Plain
        BY <2>1, Characters
    <2> DEFINE d == digit[index + 1]
    <2> HIDE DEF d
    <2>3. <<d>> \in Seq(Plain)
        BY <2>2 DEF d
    <2> QED BY <2>1, <2>3 DEF PrefixTypes, d
<1>2. CASE type
    <2> DEFINE t == current_console
    <2>1. PICK c \in Char : tty_do_write(t, c)
        BY <1>2, KeyTyped
    <2>2. t \in Tty
        BY DEF ShowTypes
    <2> HIDE DEF t
    <2>3. prefix' = prefix \/ root(t) \/ cd(t)
        BY <2>1 DEF tty_do_write, tty_command, ls, other_command, dirVars
    <2>4. CASE prefix' = prefix
        BY <2>4 DEF PrefixTypes
    <2>5. CASE root(t)
        <3> DEFINE p == <<"r", "o", "o", "t", "/", ">">>
        <3>1. p \in Seq(Plain)
            <4>1. "r" \in Plain /\ "o" \in Plain /\ "t" \in Plain /\ "/" \in Plain /\ ">" \in Plain
                BY Characters
            <4> QED BY <4>1
        <3>2. prefix' = [prefix EXCEPT ![t] = p]
            BY <2>5 DEF root
        <3> HIDE DEF p
        <3> QED BY <3>1, <3>2 DEF PrefixTypes
    <2>6. CASE cd(t) /\ prefix' # prefix
        <3> DEFINE a == Argument(t, 3)
        <3>1. prefix' = [prefix EXCEPT ![t] = @ \o a \o <<"/">>]
            BY <2>6 DEF cd, dirVars
        <3>2. a \in Seq(Plain) /\ prefix[t] \in Seq(Plain) /\ "/" \in Plain
            BY <2>2, ArgumentType, Characters DEF PrefixTypes
        <3> HIDE DEF a
        <3>3. prefix[t] \o a \o <<"/">> \in Seq(Plain)
            BY <3>2
        <3> QED BY <3>1, <3>3 DEF PrefixTypes
    <2> QED BY <2>3, <2>4, <2>5, <2>6
<1>3. CASE prefix' = prefix
    BY <1>3 DEF PrefixTypes
<1> QED BY <1>1, <1>2, <1>3, Frames

LEMMA WriteIs ==
    ASSUME ConsoleTypes, PrefixTypes, write
    PROVE  \E w \in Texts : LET s == Box(cursor[0], video, text[0])
                                r == PrintedAll(s, w) IN
              /\ w \in Seq(Char \ {"BS"}) /\ s \in Boxes /\ r \in Boxes
              /\ s.cursor = cursor[0] /\ s.video = video /\ s.text = text[0]
              /\ cursor' = [cursor EXCEPT ![0] = r.cursor] /\ video' = r.video
              /\ text' = [text EXCEPT ![0] = r.text]
              /\ torn' = (torn \/ InPrint \/ v_mem_limit[0] = 0)
<1>1. PICK w \in Texts :
          LET s == Box(cursor[0], video, text[0])
              r == PrintedAll(s, w) IN
          /\ cursor' = [cursor EXCEPT ![0] = r.cursor] /\ video' = r.video
          /\ text' = [text EXCEPT ![0] = r.text]
          /\ torn' = (torn \/ InPrint \/ v_mem_limit[0] = 0)
    BY Zenon DEF write, Box
<1> DEFINE s == Box(cursor[0], video, text[0])
<1>2. 0 \in Tty
    BY Sizes
<1>3. cursor[0] \in Int /\ text[0] \in Seq(Givens) /\ video \in [Cells -> Char]
    <2> HIDE DEF Givens
    <2> QED BY <1>2 DEF ConsoleTypes
<1>4. s \in Boxes /\ s.cursor = cursor[0] /\ s.video = video /\ s.text = text[0]
    BY <1>3, BoxOf
<1>5. w \in Seq(Char \ {"BS"})
    BY TextAssumption
<1>6. w \in Seq(Char)
    BY <1>5, SeqMonotonic
<1> HIDE DEF s
<1>7. PrintedAll(s, w) \in Boxes
    BY <1>2, <1>4, <1>6, PromptType, WriteTypes
<1> QED BY <1>1, <1>4, <1>5, <1>7, Zenon DEF s

LEMMA ConsoleTypesStep ==
    ASSUME ConsoleTypes, PrefixTypes, PrintTypes, [Next]_vars
    PROVE  ConsoleTypes'
<1> USE DEF ConsoleTypes
<1> DEFINE S == Seq(Givens)
           C == [Cells -> Char]
<1>1. /\ v_mem_limit \in [Tty -> {0, ConsoleCells}] /\ cursor \in [Tty -> Int]
      /\ video \in C /\ text \in [Tty -> S] /\ index \in Tty /\ p_vmem \in Int
      /\ out \in Seq(Char \cup {"show"})
    BY DEF PrintTypes
<1>2. v_mem_limit' \in [Tty -> {0, ConsoleCells}]
    <2>1. CASE init
        BY <1>1, <2>1 DEF init
    <2>2. CASE v_mem_limit' = v_mem_limit
        BY <1>1, <2>2
    <2> QED BY <2>1, <2>2, Frames
<1>3. CASE write
    <2>1. PICK w \in Texts : LET s == Box(cursor[0], video, text[0])
                                 r == PrintedAll(s, w) IN
              /\ r \in Boxes
              /\ cursor' = [cursor EXCEPT ![0] = r.cursor] /\ video' = r.video
              /\ text' = [text EXCEPT ![0] = r.text]
        BY <1>3, WriteIs, Zenon
    <2> DEFINE r == PrintedAll(Box(cursor[0], video, text[0]), w)
    <2>2. r.cursor \in Int /\ r.video \in C /\ r.text \in S
        BY <2>1, BoxParts
    <2> HIDE DEF r, S, C
    <2>3. cursor' = [cursor EXCEPT ![0] = r.cursor] /\ video' = r.video
          /\ text' = [text EXCEPT ![0] = r.text]
        BY <2>1, Zenon DEF r
    <2>4. cursor' \in [Tty -> Int] /\ video' \in C /\ text' \in [Tty -> S]
        BY <1>1, <2>2, <2>3
    <2> QED BY <1>2, <2>4 DEF S, C
<1>4. CASE init
    <2>1. disp_pos \in Int /\ v_mem_addr(index) \in Int
        BY <1>1, SizesAssumption, Addresses
    <2>2. cursor' = [cursor EXCEPT ![index] = IF index = 0 THEN disp_pos ELSE v_mem_addr(index)]
          /\ video' = video /\ text' = text
        BY <1>4 DEF init
    <2>3. cursor' \in [Tty -> Int]
        BY <1>1, <2>1, <2>2
    <2> QED BY <1>1, <1>2, <2>2, <2>3
<1>5. ASSUME NEW c \in Int, cursor' = [cursor EXCEPT ![index] = c]
      PROVE  cursor' \in [Tty -> Int]
    BY <1>1, <1>5
<1>6. ASSUME NEW p, NEW c \in Char, video' = [video EXCEPT ![p] = c]
      PROVE  video' \in C
    <2>1. [video EXCEPT ![p] = c] \in C
        BY <1>1, Shows
    <2> QED BY <1>6, <2>1
<1>7. ASSUME at \in {"test", "cells", "move", "erase"} \/ (at = "print" /\ out # <<>> /\ char # "show")
      PROVE  char \in Char
    <2>1. out # <<>> /\ char # "show"
        BY <1>7 DEF PrintTypes
    <2>2. char \in Char \cup {"show"}
        BY <1>1, <2>1 DEF char
    <2> QED BY <2>1, <2>2
<1>8. cursor[index] \in Int /\ cursor[index] + 1 \in Int /\ cursor[index] - 1 \in Int
      /\ next_line(index, cursor[index]) \in Int
    BY <1>1, NextLineInt
<1>9. CASE print_step
    <2>1. CASE print
        <3>1. char \in Char
            BY <1>7, <2>1 DEF print
        <3>2. Prompt(index) \in Seq(Char)
            BY <1>1, PromptType
        <3>3. Given(index, char) \in Givens
            BY <1>1, <3>1, <3>2, GivenIs
        <3> DEFINE g == Given(index, char)
        <3>4. text[index] \in S /\ g \in Givens
            <4> HIDE DEF S, g
            <4> QED BY <1>1, <3>3 DEF g
        <3> HIDE DEF g
        <3>5. Append(text[index], g) \in S
            BY <3>4, AppendProperties
        <3>6. text' = [text EXCEPT ![index] = IF InPrompt THEN @ ELSE Append(@, g)]
            BY <2>1 DEF print, g
        <3>7. text' \in [Tty -> S]
            <4> HIDE DEF S
            <4> QED BY <1>1, <3>4, <3>5, <3>6
        <3>8. cursor' = cursor /\ video' = video
            BY <2>1 DEF print
        <3> QED BY <1>1, <1>2, <3>7, <3>8
    <2>2. CASE print_newline
        <3>1. text' = text /\ video' = video
              /\ (cursor' = cursor \/ cursor' = [cursor EXCEPT ![index] = next_line(index, cursor[index])])
            BY <2>2 DEF print_newline
        <3>2. cursor' \in [Tty -> Int]
            BY <1>1, <1>5, <1>8, <3>1
        <3> QED BY <1>1, <1>2, <3>1, <3>2
    <2>3. CASE print_backspace
        <3>1. text' = text /\ video' = video
              /\ (cursor' = cursor \/ cursor' = [cursor EXCEPT ![index] = cursor[index] - 1])
            BY <2>3 DEF print_backspace
        <3>2. cursor' \in [Tty -> Int]
            BY <1>1, <1>5, <1>8, <3>1
        <3> QED BY <1>1, <1>2, <3>1, <3>2
    <2>4. CASE erase
        <3>1. text' = text /\ cursor' = cursor /\ video' = [video EXCEPT ![p_vmem - 1] = " "]
            BY <2>4 DEF erase
        <3>2. " " \in Char
            BY Characters DEF Plain
        <3>3. video' \in C
            BY <1>6, <3>1, <3>2
        <3> QED BY <1>1, <1>2, <3>1, <3>3
    <2>5. CASE print_char
        BY <1>1, <2>5 DEF print_char, consoleVars
    <2>6. CASE cells
        <3>1. text' = text /\ cursor' = cursor /\ video' = [video EXCEPT ![p_vmem] = char]
            BY <2>6 DEF cells
        <3>2. char \in Char
            BY <1>7, <2>6 DEF cells
        <3>3. video' \in C
            BY <1>6, <3>1, <3>2
        <3> QED BY <1>1, <1>2, <3>1, <3>3
    <2>7. CASE move
        <3>1. text' = text /\ video' = video /\ cursor' = [cursor EXCEPT ![index] = cursor[index] + 1]
            BY <2>7 DEF move
        <3>2. cursor' \in [Tty -> Int]
            BY <1>5, <1>8, <3>1
        <3> QED BY <1>1, <1>2, <3>1, <3>2
    <2>8. CASE show
        BY <1>1, <2>8 DEF show, consoleVars
    <2> QED BY <1>9, <2>1, <2>2, <2>3, <2>4, <2>5, <2>6, <2>7, <2>8 DEF print_step
<1>10. CASE cursor' = cursor /\ video' = video /\ text' = text
    BY <1>1, <1>2, <1>10
<1> QED BY <1>3, <1>4, <1>9, <1>10, Frames

\* terminals are initialised one after the other, and only then is typed
OrderInv ==
    /\ at = "init" => v_mem_limit[index] = 0
    /\ at = "rest" => Initialised
    /\ Initialised \/ \A t \in Tty :
          v_mem_limit[t] = 0 <=> t >= (IF at = "init" THEN index ELSE index + 1)

LEMMA OutTypes ==
    ASSUME PrintTypes, PrefixTypes
    PROVE  /\ out # <<>> => Tail(out) \in Seq(Char \cup {"show"}) /\ char \in Char \cup {"show"}
           /\ out # <<>> => Prompt(index) \o <<"show">> \o Tail(out) \in Seq(Char \cup {"show"})
<1> DEFINE V == Char \cup {"show"}
           p == Prompt(index)
<1>1. p \in Seq(Char)
    BY PromptType DEF PrintTypes
<1>2. out \in Seq(V) /\ "show" \in V /\ Char \subseteq V
    BY DEF PrintTypes
<1> HIDE DEF V, p
<1>3. p \in Seq(V)
    BY <1>1, <1>2, SeqMonotonic
<1>4. ASSUME out # <<>>
      PROVE  Tail(out) \in Seq(V) /\ char \in V /\ p \o <<"show">> \o Tail(out) \in Seq(V)
    <2>1. Tail(out) \in Seq(V) /\ char \in V
        BY <1>2, <1>4 DEF char
    <2>2. p \o <<"show">> \in Seq(V)
        BY <1>2, <1>3
    <2> QED BY <2>1, <2>2, ConcatProperties
<1> QED BY <1>4 DEF V, p

\* what a key has task_tty print
LEMMA TypePrints ==
    ASSUME PrintTypes, LineTypes, DirectoryTypes, ShowTypes, type
    PROVE  /\ at = "rest" /\ index' \in Tty
           /\ \/ at' = at /\ out' = out /\ p_vmem' = p_vmem
              \/ \E s \in Seq(Char) : prints(s)
<1> DEFINE t == current_console
<1>1. PICK c \in Char : at = "rest" /\ tty_do_write(t, c)
    BY KeyTyped
<1>2. t \in Tty /\ index' = t
    BY <1>1 DEF ShowTypes, tty_do_write
<1> HIDE DEF t
<1>3. <<c>> \in Seq(Char) /\ <<"\n">> \in Seq(Char) /\ Append(Names(t), "\n") \in Seq(Char)
    <2>1. "\n" \in Char
        BY Characters
    <2>2. Names(t) \in Seq(Char)
        BY <1>2, NamesType
    <2>3. Append(Names(t), "\n") \in Seq(Char)
        BY <2>1, <2>2, AppendProperties
    <2> QED BY <2>1, <2>3
<1>4. (at' = at /\ out' = out /\ p_vmem' = p_vmem)
      \/ prints(<<c>>) \/ prints(<<"\n">>) \/ prints(Append(Names(t), "\n"))
    <2>1. c = "\n" => tty_command(t)
        BY <1>1 DEF tty_do_write
    <2>2. c # "\n" => prints(<<c>>)
        BY <1>1 DEF tty_do_write
    <2>3. tty_command(t) => (at' = at /\ out' = out /\ p_vmem' = p_vmem)
              \/ prints(<<"\n">>) \/ prints(Append(Names(t), "\n"))
        BY Zenon DEF tty_command, root, cd, ls, other_command
    <2> QED BY <2>1, <2>2, <2>3, Zenon
<1>5. (at' = at /\ out' = out /\ p_vmem' = p_vmem) \/ \E s \in Seq(Char) : prints(s)
    BY <1>3, <1>4, Zenon
<1> QED BY <1>1, <1>2, <1>5

LEMMA PrintTypesStep ==
    ASSUME PrintTypes, PrefixTypes, LineTypes, DirectoryTypes, ShowTypes, ConsoleTypes, OrderInv, [Next]_vars
    PROVE  PrintTypes'
<1>1. /\ at \in {"init", "rest", "print", "test", "erase", "cells", "move", "show"}
      /\ index \in Tty /\ p_vmem \in Int /\ out \in Seq(Char \cup {"show"})
    BY DEF PrintTypes
<1>2. CASE print_step
    <2>1. cursor[index] \in Int
        BY <1>1 DEF ConsoleTypes
    <2>2. CASE print
        BY <1>1, <2>1, <2>2 DEF print, PrintTypes, char
    <2>3. CASE print_newline
        <3>1. out # <<>> /\ char # "show" /\ index' = index /\ p_vmem' = p_vmem
            BY <2>3 DEF print_newline, PrintTypes
        <3>2. \/ at' = "print" /\ out' = Prompt(index) \o <<"show">> \o Tail(out)
              \/ at' = "show" /\ out' = out
            BY <2>3 DEF print_newline
        <3>3. out' \in Seq(Char \cup {"show"})
            BY <1>1, <3>1, <3>2, OutTypes
        <3>4. at' = "show" => out' # <<>>
            BY <3>1, <3>2
        <3> QED BY <1>1, <3>1, <3>2, <3>3, <3>4 DEF PrintTypes
    <2>4. CASE print_backspace
        BY <2>4 DEF print_backspace, PrintTypes, goto, char
    <2>5. CASE erase
        BY <2>5 DEF erase, PrintTypes, goto, char
    <2>6. CASE print_char
        BY <2>6 DEF print_char, PrintTypes, goto, char
    <2>7. CASE cells
        BY <2>7 DEF cells, PrintTypes, goto, char
    <2>8. CASE move
        BY <2>8 DEF move, PrintTypes, goto, char
    <2>9. CASE show
        <3>1. out # <<>>
            BY <2>9 DEF show, PrintTypes
        <3>2. Tail(out) \in Seq(Char \cup {"show"})
            BY <3>1, OutTypes
        <3> QED BY <2>9, <1>1, <3>2 DEF show, PrintTypes
    <2> QED BY <1>2, <2>2, <2>3, <2>4, <2>5, <2>6, <2>7, <2>8, <2>9 DEF print_step
<1>3. ASSUME NEW s \in Seq(Char), prints(s), index' \in Tty PROVE PrintTypes'
    <2>1. s \in Seq(Char \cup {"show"})
        BY SeqMonotonic
    <2> QED BY <1>1, <1>3, <2>1 DEF prints, PrintTypes
<1>4. CASE init
    <2> DEFINE d == digit[index + 1]
    <2>1. d \in Char /\ ">" \in Char
        BY <1>1, Characters DEF Plain
    <2>2. prints(<<d, ">">>) /\ index' = index
        BY <1>4 DEF init
    <2> HIDE DEF d
    <2>3. <<d, ">">> \in Seq(Char)
        BY <2>1
    <2> QED BY <1>1, <1>3, <2>2, <2>3
<1>5. CASE printed
    <2>1. out' = out /\ p_vmem' = p_vmem /\ at = "print"
        BY <1>5 DEF printed
    <2>2. CASE Initialised
        <3>1. at' = "rest" /\ index' = index
            BY <1>5, <2>2 DEF printed
        <3> QED BY <1>1, <2>1, <3>1 DEF PrintTypes
    <2>3. CASE ~Initialised
        <3>1. at' = "init" /\ index' = index + 1
            BY <1>5, <2>3 DEF printed
        <3>2. PICK t \in Tty : v_mem_limit[t] = 0
            BY <2>3 DEF Initialised
        <3>3. t >= index + 1
            BY <2>1, <2>3, <3>2 DEF OrderInv
        <3>4. index + 1 \in Tty
            BY <1>1, <3>3, Sizes DEF Tty
        <3> QED BY <1>1, <2>1, <3>1, <3>4 DEF PrintTypes
    <2> QED BY <2>2, <2>3
<1>6. CASE type
    <2>1. index' \in Tty
        BY <1>6, TypePrints
    <2>2. CASE at' = at /\ out' = out /\ p_vmem' = p_vmem
        <3>1. at = "rest"
            BY <1>6, TypePrints
        <3> QED BY <1>1, <2>1, <2>2, <3>1 DEF PrintTypes
    <2>3. CASE \E s \in Seq(Char) : prints(s)
        BY <1>3, <2>1, <2>3
    <2> QED BY <1>6, <2>2, <2>3, TypePrints
<1>7. CASE at' = at /\ index' = index /\ out' = out /\ p_vmem' = p_vmem
    BY <1>7 DEF PrintTypes, char
<1> QED BY <1>2, <1>4, <1>5, <1>6, <1>7, Frames

LEMMA ShowTypesStep ==
    ASSUME ShowTypes, PrintTypes, [Next]_vars
    PROVE  ShowTypes'
<1>1. index \in Tty /\ 0 \in Tty /\ current_console \in Tty
    BY Sizes DEF PrintTypes, ShowTypes
<1>2. current_console' \in Tty
    <2>1. CASE select_console
        BY <2>1 DEF select_console
    <2>2. CASE current_console' = current_console
        BY <1>1, <2>2
    <2> QED BY <2>1, <2>2, Frames
<1>3. video_addr' = video_addr \/ \E t \in Tty : video_addr' = v_mem_addr(t)
    <2>1. CASE write
        BY <1>1, <2>1 DEF write
    <2>2. CASE select_console
        BY <2>2 DEF select_console
    <2>3. CASE print_step
        BY <1>1, <2>3 DEF print_step, show, showVars
    <2>4. CASE printed
        BY <1>1, <2>4 DEF printed
    <2> QED BY <2>1, <2>2, <2>3, <2>4, Frames
<1>4. \A t : v_mem_addr(t)' = v_mem_addr(t)
    BY DEF v_mem_addr
<1> QED BY <1>2, <1>3, <1>4 DEF ShowTypes

LEMMA OrderStep ==
    ASSUME OrderInv, PrintTypes, ConsoleTypes, LineTypes, ShowTypes, [Next]_vars
    PROVE  OrderInv'
<1>1. index \in Tty /\ \A t \in Tty : t \in Int
    BY Sizes DEF PrintTypes
<1>2. CASE init
    <2>1. at = "init" /\ v_mem_limit' = [v_mem_limit EXCEPT ![index] = ConsoleCells]
          /\ at' = "print" /\ index' = index
        BY <1>2 DEF init, prints
    <2>2. ConsoleCells # 0
        BY Sizes
    <2>3. \A t \in Tty : v_mem_limit[t] = 0 <=> t >= index
        BY <1>1, <2>1 DEF OrderInv, Initialised
    <2>4. \A t \in Tty : v_mem_limit'[t] = 0 <=> t >= index + 1
        BY <1>1, <2>1, <2>2, <2>3 DEF ConsoleTypes
    <2> QED BY <2>1, <2>4 DEF OrderInv
<1>3. CASE v_mem_limit' = v_mem_limit /\ ~init
    <2>1. Initialised' = Initialised
        BY <1>3 DEF Initialised
    <2>2. CASE print_step
        <3>1. at \notin {"init", "rest"} /\ at' \notin {"init", "rest"} /\ index' = index
            BY <2>2 DEF print_step, print, print_newline, print_backspace, erase, print_char, cells, move, show, goto
        <3> QED BY <1>3, <2>1, <3>1 DEF OrderInv
    <2>3. CASE printed
        <3>1. at = "print"
            BY <2>3 DEF printed
        <3>2. CASE Initialised
            BY <2>1, <2>3, <3>2 DEF printed, OrderInv
        <3>3. CASE ~Initialised
            <4>1. at' = "init" /\ index' = index + 1
                BY <2>3, <3>3 DEF printed
            <4>2. \A t \in Tty : v_mem_limit[t] = 0 <=> t >= index + 1
                BY <3>1, <3>3 DEF OrderInv
            <4>3. PICK t \in Tty : v_mem_limit[t] = 0
                BY <3>3 DEF Initialised
            <4>4. index + 1 \in Tty /\ index + 1 >= index + 1
                BY <1>1, <4>2, <4>3, Sizes DEF Tty
            <4> QED BY <1>3, <4>1, <4>2, <4>4 DEF OrderInv
        <3> QED BY <3>2, <3>3
    <2>4. CASE type
        <3>1. at = "rest" /\ at' \in {"rest", "print"}
            <4>1. PICK c \in Char : at = "rest" /\ tty_do_write(current_console, c)
                BY <2>4, KeyTyped
            <4> QED BY <4>1 DEF tty_do_write, tty_command, root, cd, ls, other_command, prints
        <3> QED BY <2>1, <3>1 DEF OrderInv
    <2>5. CASE at' = at /\ index' = index
        BY <1>3, <2>1, <2>5 DEF OrderInv
    <2> QED BY <1>3, <2>2, <2>3, <2>4, <2>5, Frames
<1> QED BY <1>2, <1>3, Frames

-----------------------------------------------------------------------------
(* The directory in the buffer.  A block of the buffer is that of the last *)
(* directory, where it has one, and otherwise was written by a longer one  *)
(* or not at all.                                                          *)

Buffered(b, d, m) ==
    /\ b \in [1 .. 2 -> Seq(Entry)] /\ d \in Seq(Seq(Entry)) /\ m \in Nat
    /\ Len(d) <= 2 /\ Len(d) <= m /\ (d # <<>> => d[1] # <<>>)
    /\ \A i \in 1 .. 2 : IF i <= Len(d) THEN b[i] = d[i] ELSE i > m => b[i] = <<>>

DirectoryInv == \A t \in Tty : Buffered(dictionary_buffer[t], dir[t], longest[t])

LEMMA ReadBlocks ==
    ASSUME NEW V, NEW b \in [1 .. 2 -> V], NEW d \in Seq(V), Len(d) = 1 \/ Len(d) = 2
    PROVE  LET r == d \o SubSeq(b, Len(d) + 1, 2) IN
           r \in [1 .. 2 -> V] /\ \A i \in 1 .. 2 : r[i] = IF i <= Len(d) THEN d[i] ELSE b[i]
<1>1. b \in Seq(V) /\ Len(b) = 2
    <2>1. b \in [1 .. 2 -> V] /\ 2 \in Nat
        OBVIOUS
    <2>2. b \in Seq(V)
        BY <2>1, IsASeq
    <2>3. DOMAIN b = 1 .. Len(b) /\ DOMAIN b = 1 .. 2 /\ Len(b) \in Nat
        BY <2>2
    <2> QED BY <2>2, <2>3
<1> DEFINE u == SubSeq(b, Len(d) + 1, 2)
           r == d \o u
<1>2. u \in Seq(V) /\ Len(u) = 2 - Len(d) /\ (Len(d) = 1 => u[1] = b[2])
    <2>1. CASE Len(d) = 1
        BY <1>1, <2>1, SubSeqProperties
    <2>2. CASE Len(d) = 2
        BY <1>1, <2>2
    <2> QED BY <2>1, <2>2
<1> HIDE DEF u
<1>3. r \in Seq(V) /\ Len(r) = 2 /\ \A i \in 1 .. 2 : r[i] = IF i <= Len(d) THEN d[i] ELSE b[i]
    <2>1. CASE Len(d) = 1
        BY <1>2, <2>1, ConcatProperties
    <2>2. CASE Len(d) = 2
        <3>1. u = <<>>
            BY <1>2, <2>2
        <3>2. r = d
            BY <3>1
        <3> HIDE DEF r
        <3> QED BY <2>2, <3>2
    <2> QED BY <2>1, <2>2
<1> HIDE DEF r
<1>4. r \in [1 .. 2 -> V]
    BY <1>3
<1> QED BY <1>3, <1>4 DEF r, u

LEMMA ReadOver ==
    ASSUME NEW b, NEW d0, NEW m, Buffered(b, d0, m), NEW d \in Directories
    PROVE  Buffered(d \o SubSeq(b, Len(d) + 1, 2), d, IF Len(d) > m THEN Len(d) ELSE m)
<1> DEFINE V == Seq(Entry)
           n == IF Len(d) > m THEN Len(d) ELSE m
           r == d \o SubSeq(b, Len(d) + 1, 2)
<1>1. d \in Seq(V) /\ (Len(d) = 1 \/ Len(d) = 2) /\ d[1] # <<>>
    BY DirectoryAssumption
<1>2. b \in [1 .. 2 -> V] /\ m \in Nat /\ \A i \in 1 .. 2 : i > m /\ i > Len(d0) => b[i] = <<>>
    BY DEF Buffered
<1>3. Len(d0) <= m /\ Len(d0) \in Nat
    BY DEF Buffered
<1> HIDE DEF V
<1>5. n \in Nat /\ Len(d) <= n /\ m <= n
    BY <1>1, <1>2
<1> HIDE DEF n
<1>6. r \in [1 .. 2 -> V] /\ \A i \in 1 .. 2 : r[i] = IF i <= Len(d) THEN d[i] ELSE b[i]
    BY <1>1, <1>2, ReadBlocks
<1> HIDE DEF r
<1>4. Len(d) \in Nat /\ Len(d) <= 2
    <2> DEFINE k == Len(d)
    <2>1. k = 1 \/ k = 2
        BY <1>1
    <2> HIDE DEF k
    <2>2. k \in Nat /\ k <= 2
        BY <2>1
    <2> QED BY <2>2 DEF k
<1>7. \A i \in 1 .. 2 : IF i <= Len(d) THEN r[i] = d[i] ELSE i > n => r[i] = <<>>
    BY <1>2, <1>3, <1>4, <1>5, <1>6
<1>8. Len(d) <= 2
    BY <1>4
<1>9. Buffered(r, d, n)
    BY <1>1, <1>5, <1>6, <1>7, <1>8, Zenon DEF Buffered, V
<1> QED BY <1>9 DEF r, n

LEMMA DirectoryInvStep ==
    ASSUME DirectoryInv, DirectoryTypes, LineTypes, ShowTypes, [Next]_vars
    PROVE  DirectoryInv' /\ DirectoryTypes'
<1>1. CASE dictionary_buffer' = dictionary_buffer /\ dir' = dir /\ longest' = longest
    BY <1>1, Zenon DEF DirectoryInv, DirectoryTypes
<1>2. CASE type
    <2> DEFINE t == current_console
    <2>1. PICK c \in Char : tty_do_write(t, c)
        BY <1>2, KeyTyped
    <2>2. t \in Tty
        BY DEF ShowTypes
    <2> HIDE DEF t
    <2>3. fs_answer(t) \/ (dictionary_buffer' = dictionary_buffer /\ dir' = dir /\ longest' = longest)
        BY <2>1 DEF tty_do_write, tty_command, root, cd, ls, other_command, dirVars
    <2>4. ASSUME NEW d \in Directories,
                 dictionary_buffer' = [dictionary_buffer EXCEPT ![t] = d \o SubSeq(@, Len(d) + 1, 2)],
                 dir' = [dir EXCEPT ![t] = d],
                 longest' = [longest EXCEPT ![t] = IF Len(d) > @ THEN Len(d) ELSE @]
          PROVE  DirectoryInv' /\ DirectoryTypes'
        <3> DEFINE b == dictionary_buffer[t]
                   m == longest[t]
                   r == d \o SubSeq(b, Len(d) + 1, 2)
                   n == IF Len(d) > m THEN Len(d) ELSE m
                   B == [1 .. 2 -> Seq(Entry)]
                   D == Seq(Seq(Entry))
        <3>1. Buffered(r, d, n)
            BY <2>2, ReadOver DEF DirectoryInv
        <3>2. r \in B /\ d \in D /\ n \in Nat
            BY <3>1, Zenon DEF Buffered
        <3>3. dictionary_buffer \in [Tty -> B] /\ dir \in [Tty -> D] /\ longest \in [Tty -> Nat]
            BY DEF DirectoryTypes
        <3>4. dictionary_buffer' = [dictionary_buffer EXCEPT ![t] = r] /\ longest' = [longest EXCEPT ![t] = n]
            BY <2>4
        <3> HIDE DEF b, m, r, n, B, D
        <3>5. dictionary_buffer' \in [Tty -> B] /\ dir' \in [Tty -> D] /\ longest' \in [Tty -> Nat]
            BY <2>4, <3>2, <3>3, <3>4
        <3>6. ASSUME NEW u \in Tty PROVE Buffered(dictionary_buffer'[u], dir'[u], longest'[u])
            <4>1. CASE u = t
                <5>1. dictionary_buffer'[u] = r /\ dir'[u] = d /\ longest'[u] = n
                    BY <2>4, <3>3, <3>4, <4>1
                <5> QED BY <3>1, <5>1, Zenon
            <4>2. CASE u # t
                <5>1. dictionary_buffer'[u] = dictionary_buffer[u] /\ dir'[u] = dir[u] /\ longest'[u] = longest[u]
                    BY <2>4, <3>3, <3>4, <4>2
                <5> QED BY <5>1, Zenon DEF DirectoryInv
            <4> QED BY <4>1, <4>2
        <3> QED BY <3>5, <3>6 DEF DirectoryInv, DirectoryTypes, B, D
    <2> QED BY <1>1, <2>3, <2>4 DEF fs_answer
<1> QED BY <1>1, <1>2, Frames

\* what is read from the buffer is the directory
LEMMA EntriesOf ==
    ASSUME NEW b, NEW d, Buffered(b, d, Len(d))
    PROVE  /\ Entries(b) = IF d = <<>> THEN <<>> ELSE FlattenSeq(d)
           /\ Entries(b) \in Seq(Entry)
<1> DEFINE S == Seq(Entry)
           n == Len(d)
           b1 == b[1]
           d1 == d[1]
           d2 == d[2]
<1>1. /\ b \in [1 .. 2 -> S] /\ d \in Seq(S) /\ n <= 2 /\ n \in Nat /\ (d # <<>> => d1 # <<>>)
      /\ (1 <= n => b1 = d1) /\ (2 <= n => b[2] = d2)
      /\ (1 > n => b1 = <<>>) /\ (2 > n => b[2] = <<>>)
    BY DEF Buffered
<1>2. Entries(b) \in S
    BY <1>1, EntriesType
<1>3. (d = <<>> <=> n = 0) /\ b1 \in S
    <2> HIDE DEF S
    <2> QED BY <1>1
<1>4. (n = 1 => FlattenSeq(d) = d1) /\ (n = 2 => FlattenSeq(d) = d1 \o d2)
    BY <1>1, FlattenIs
<1>5. b1 \o <<>> = b1
    BY <1>3, ConcatEmptySeq
<1>6. Entries(b) = IF b1 = <<>> THEN <<>> ELSE b1 \o b[2]
    BY DEF Entries
<1> HIDE DEF S, n, b1, d1, d2
<1>7. CASE n = 0
    BY <1>1, <1>2, <1>3, <1>6, <1>7 DEF S
<1>8. CASE n = 1
    <2>1. d # <<>> /\ d1 # <<>> /\ b1 = d1 /\ b[2] = <<>>
        BY <1>1, <1>3, <1>8
    <2> QED BY <1>2, <1>4, <1>5, <1>6, <1>8, <2>1, Zenon DEF S
<1>9. CASE n = 2
    <2>1. d # <<>> /\ d1 # <<>> /\ b1 = d1 /\ b[2] = d2
        BY <1>1, <1>3, <1>9
    <2> QED BY <1>2, <1>4, <1>6, <1>9, <2>1, Zenon DEF S
<1>10. n = 0 \/ n = 1 \/ n = 2
    BY <1>1
<1> QED BY <1>7, <1>8, <1>9, <1>10

\* a name whose length is no multiple of 4 is compared as it is
LEMMA NameCompared ==
    ASSUME NEW n \in Seq(Char \ {FirstByte}), Len(n) % 4 # 0,
           NEW e \in Seq(Entry), NEW i \in DOMAIN e
    PROVE  n = CString(e, i) <=> e[i].name = n
<1> DEFINE m == e[i].name
<1>1. e[i] \in Entry
    <2> HIDE DEF Entry
    <2> QED OBVIOUS
<1>2. m \in Seq(Char \ {FirstByte}) /\ m \in Seq(Char)
    BY <1>1, EntryParts
<1>3. CString(e, i) = IF Len(m) % 4 # 0 \/ e[i].last THEN m ELSE Append(m, FirstByte)
    BY DEF CString
<1> HIDE DEF m
<1>4. n # Append(m, FirstByte)
    <2> SUFFICES ASSUME n = Append(m, FirstByte) PROVE FALSE
        OBVIOUS
    <2>1. Len(m) \in Nat /\ Append(m, FirstByte)[Len(m) + 1] = FirstByte /\ Len(Append(m, FirstByte)) = Len(m) + 1
        BY <1>2
    <2>2. Len(m) + 1 \in 1 .. Len(n)
        BY <2>1
    <2>3. n[Len(m) + 1] \in Char \ {FirstByte}
        BY <2>2
    <2> QED BY <2>1, <2>3
<1>5. CASE Len(m) % 4 # 0 \/ e[i].last
    BY <1>3, <1>5 DEF m
<1>6. CASE ~(Len(m) % 4 # 0 \/ e[i].last)
    <2>1. CString(e, i) = Append(m, FirstByte) /\ m # n
        BY <1>3, <1>6
    <2> QED BY <1>4, <2>1, Zenon DEF m
<1> QED BY <1>5, <1>6

LEMMA NamesAreNames ==
    ASSUME NEW d \in Directories, NEW n \in NamesOf(d)
    PROVE  n \in Seq(Char \ {FirstByte})
<1>1. d \in Seq(Seq(Entry))
    BY DirectoryAssumption
<1>2. PICK b \in ToSet(d) : \E i \in DOMAIN b : n = b[i].name
    BY DEF NamesOf
<1>3. b \in Seq(Entry)
    <2> DEFINE S == Seq(Entry)
    <2> HIDE DEF S
    <2> QED BY <1>1, <1>2 DEF ToSet, S
<1>4. PICK i \in DOMAIN b : n = b[i].name
    BY <1>2
<1>5. b[i] \in Entry
    <2> HIDE DEF Entry
    <2> QED BY <1>3, <1>4
<1> QED BY <1>4, <1>5, EntryParts

(***************************************************************************)
(* search_file compares the entries in their order and stops at the first  *)
(* that is equal.                                                          *)
(***************************************************************************)
LEMMA SearchIsFirst ==
    ASSUME DirectoryInv, NEW t \in Tty, longest[t] = Len(dir[t]),
           NEW n \in Seq(Char \ {FirstByte}), Len(n) % 4 # 0, NEW f
    PROVE  search_file(t, n, f) = FirstEntry(dir[t], n, f)
<1> DEFINE e == Entries(dictionary_buffer[t])
           found == {i \in DOMAIN e : strcmp(n, CString(e, i)) /\ e[i].file_type = f}
           I == {i \in 1 .. Len(e) : e[i].name = n /\ e[i].file_type = f}
<1>1. e \in Seq(Entry) /\ e = IF dir[t] = <<>> THEN <<>> ELSE FlattenSeq(dir[t])
    <2>1. Buffered(dictionary_buffer[t], dir[t], Len(dir[t]))
        BY DEF DirectoryInv
    <2> QED BY <2>1, EntriesOf
<1>2. DOMAIN e = 1 .. Len(e) /\ Len(e) \in Nat
    <2> HIDE DEF e, Entry
    <2> QED BY <1>1
<1>3. found = I
    <2>1. \A i \in DOMAIN e : strcmp(n, CString(e, i)) <=> e[i].name = n
        <3> HIDE DEF e
        <3> QED BY <1>1, NameCompared DEF strcmp
    <2> HIDE DEF e
    <2> QED BY <1>2, <2>1
<1>4. search_file(t, n, f) = IF found = {} THEN 0 ELSE e[Min(found)].inode
    BY DEF search_file, Min
<1>5. FirstEntry(dir[t], n, f) = LET i == IF I # {} THEN Min(I) ELSE 0 IN IF i = 0 THEN 0 ELSE e[i].inode
    <2> HIDE DEF e
    <2> QED BY <1>1 DEF FirstEntry, SelectInSeq
<1> HIDE DEF e, found, I
<1>6. I # {} => Min(I) # 0
    <2> SUFFICES ASSUME I # {} PROVE Min(I) # 0
        OBVIOUS
    <2>1. I \in SUBSET Nat /\ 0 \notin I
        BY <1>2 DEF I
    <2> QED BY <2>1, MinOf
<1> QED BY <1>3, <1>4, <1>5, <1>6

LEMMA SearchFinds == DirectoryInv => SearchFindsEntry
<1> SUFFICES ASSUME DirectoryInv, NEW t \in Tty, longest[t] = Len(dir[t]),
                    NEW d \in Directories, NEW n \in NamesOf(d), Len(n) % 4 # 0,
                    NEW f \in {"dir", "file"}
             PROVE  search_file(t, n, f) = FirstEntry(dir[t], n, f)
    BY Zenon DEF SearchFindsEntry, FindsEntries
<1> QED BY NamesAreNames, SearchIsFirst

-----------------------------------------------------------------------------
(* The line that is typed.  Every key changes command as it changes the    *)
(* edited line; a deletion where there is nothing takes curr below 0 and   *)
(* ends the correspondence, until the line does.                           *)

CommandInv == \A t \in Tty :
    /\ v_mem_limit[t] = 0 => typed[t] = <<>>
    /\ Deletes(typed[t]) => LET l == Edited(typed[t]) IN
          /\ curr[t] = Len(l)
          /\ \A i \in 0 .. TTY_IN_BYTES - 1 : command[t][i] = IF i < Len(l) THEN l[i + 1] ELSE NUL

\* of one terminal: command cmd, curr n, line l
Holds(cmd, n, l) ==
    /\ n = Len(l)
    /\ \A i \in 0 .. TTY_IN_BYTES - 1 : cmd[i] = IF i < Len(l) THEN l[i + 1] ELSE NUL

LEMMA DeletesAppend ==
    ASSUME NEW V, NEW s \in Seq(V), NEW c \in V
    PROVE  Deletes(Append(s, c)) => Deletes(s) /\ (c = "BS" => Edited(s) # <<>>)
<1> DEFINE a == Append(s, c)
<1>1. SUFFICES ASSUME Deletes(a) PROVE Deletes(s) /\ (c = "BS" => Edited(s) # <<>>)
    OBVIOUS
<1>2. a \in Seq(V) /\ Len(a) = Len(s) + 1 /\ Len(s) \in Nat /\ a[Len(s) + 1] = c
      /\ \A n \in 1 .. Len(s) : a[n] = s[n]
    OBVIOUS
<1>3. \A n \in 1 .. Len(s) + 1 : SubSeq(a, 1, n - 1) = SubSeq(s, 1, n - 1)
    <2> SUFFICES ASSUME NEW n \in 1 .. Len(s) + 1 PROVE SubSeq(a, 1, n - 1) = SubSeq(s, 1, n - 1)
        OBVIOUS
    <2> HIDE DEF a
    <2>1. n - 1 \in 0 .. Len(s) /\ n - 1 \in 0 .. Len(a)
        BY <1>2
    <2> DEFINE m == n - 1
    <2> HIDE DEF m
    <2>2. /\ SubSeq(a, 1, m) \in Seq(V) /\ SubSeq(s, 1, m) \in Seq(V)
          /\ Len(SubSeq(a, 1, m)) = m /\ Len(SubSeq(s, 1, m)) = m
          /\ \A i \in 1 .. m : SubSeq(a, 1, m)[i] = a[i] /\ SubSeq(s, 1, m)[i] = s[i]
        BY <1>2, <2>1 DEF m
    <2>3. \A i \in 1 .. m : a[i] = s[i]
        BY <1>2, <2>1 DEF m
    <2>4. SubSeq(a, 1, m) = SubSeq(s, 1, m)
        BY <2>2, <2>3, SeqEqual
    <2> QED BY <2>4 DEF m
<1>4. \A n \in 1 .. Len(s) + 1 : a[n] = "BS" => Edited(SubSeq(a, 1, n - 1)) # <<>>
    <2> HIDE DEF a
    <2>1. DOMAIN a = 1 .. Len(s) + 1
        BY <1>2
    <2> QED BY <1>1, <2>1 DEF Deletes
<1> HIDE DEF a
<1>5. \A n \in 1 .. Len(s) : s[n] = "BS" => Edited(SubSeq(s, 1, n - 1)) # <<>>
    <2>1. \A n \in 1 .. Len(s) : n \in 1 .. Len(s) + 1
        BY <1>2
    <2> QED BY <1>2, <1>3, <1>4, <2>1
<1>6. c = "BS" => Edited(s) # <<>>
    <2>1. Len(s) + 1 \in 1 .. Len(s) + 1 /\ (Len(s) + 1) - 1 = Len(s)
        BY <1>2
    <2>2. SubSeq(s, 1, Len(s)) = s
        OBVIOUS
    <2> QED BY <1>2, <1>3, <1>4, <2>1, <2>2
<1>7. DOMAIN s = 1 .. Len(s)
    OBVIOUS
<1> QED BY <1>5, <1>6, <1>7 DEF Deletes

\* a key at the end of the line
LEMMA KeyHeld ==
    ASSUME NEW cmd \in [Command -> Plain], NEW n \in Int, NEW l \in Seq(Char), Holds(cmd, n, l),
           n < TTY_IN_BYTES, NEW c \in Plain
    PROVE  Holds([cmd EXCEPT ![n] = c], n + 1, Append(l, c))
<1> DEFINE a == Append(l, c)
           d == [cmd EXCEPT ![n] = c]
<1>1. TTY_IN_BYTES \in Nat /\ n \in Nat /\ n = Len(l)
    BY Sizes DEF Holds
<1>2. c \in Char
    BY DEF Plain
<1>3. Len(a) = n + 1 /\ a[n + 1] = c /\ \A i \in 1 .. n : a[i] = l[i]
    BY <1>1, <1>2
<1>4. \A i \in 0 .. TTY_IN_BYTES - 1 : i \in Command /\ cmd[i] = IF i < n THEN l[i + 1] ELSE NUL
    BY <1>1 DEF Holds, Command
<1>5. \A i \in 0 .. TTY_IN_BYTES - 1 : d[i] = IF i = n THEN c ELSE cmd[i]
    BY <1>1, <1>4
<1> HIDE DEF a, d
<1>6. \A i \in 0 .. TTY_IN_BYTES - 1 : i < n => i + 1 \in 1 .. n
    BY <1>1
<1>7. ASSUME NEW i \in 0 .. TTY_IN_BYTES - 1
      PROVE  d[i] = IF i < n + 1 THEN a[i + 1] ELSE NUL
    <2>1. CASE i < n
        BY <1>1, <1>3, <1>4, <1>5, <1>6, <2>1
    <2>2. CASE i = n
        BY <1>1, <1>3, <1>5, <2>2
    <2>3. CASE i > n
        BY <1>1, <1>4, <1>5, <2>3
    <2> QED BY <1>1, <2>1, <2>2, <2>3
<1>8. n + 1 = Len(a)
    BY <1>3
<1>9. Holds(d, n + 1, a)
    <2>1. \A i \in 0 .. TTY_IN_BYTES - 1 : d[i] = IF i < Len(a) THEN a[i + 1] ELSE NUL
        BY <1>7, <1>8
    <2> QED BY <1>8, <2>1 DEF Holds
<1> QED BY <1>9 DEF a, d

\* a deletion
LEMMA DeletionHeld ==
    ASSUME NEW cmd \in [Command -> Plain], NEW n \in Int, NEW l \in Seq(Char), Holds(cmd, n, l),
           n <= TTY_IN_BYTES, l # <<>>
    PROVE  Holds([cmd EXCEPT ![n - 1] = NUL], n - 1, SubSeq(l, 1, Len(l) - 1))
<1> DEFINE a == SubSeq(l, 1, Len(l) - 1)
           d == [cmd EXCEPT ![n - 1] = NUL]
           m == n - 1
<1>1. TTY_IN_BYTES \in Nat /\ n \in Nat /\ n = Len(l) /\ n > 0
    BY Sizes DEF Holds
<1>2. m \in Nat /\ m < n
    BY <1>1
<1>3. Len(a) = m /\ \A i \in 1 .. m : a[i] = l[i]
    BY <1>1
<1>4. \A i \in 0 .. TTY_IN_BYTES - 1 : i \in Command /\ cmd[i] = IF i < n THEN l[i + 1] ELSE NUL
    BY <1>1 DEF Holds, Command
<1>5. \A i \in 0 .. TTY_IN_BYTES - 1 : d[i] = IF i = m THEN NUL ELSE cmd[i]
    BY <1>1, <1>4
<1>6. \A i \in 0 .. TTY_IN_BYTES - 1 : i < m => i + 1 \in 1 .. m
    BY <1>2
<1>7. \A i \in 0 .. TTY_IN_BYTES - 1 : (i > m => i >= n) /\ (i < m => i < n)
    BY <1>1
<1> HIDE DEF a, d, m
<1>8. ASSUME NEW i \in 0 .. TTY_IN_BYTES - 1
      PROVE  d[i] = IF i < m THEN a[i + 1] ELSE NUL
    <2>1. CASE i < m
        BY <1>2, <1>3, <1>4, <1>5, <1>6, <1>7, <2>1
    <2>2. CASE i = m
        BY <1>2, <1>5, <2>2
    <2>3. CASE i > m
        BY <1>1, <1>2, <1>4, <1>5, <1>7, <2>3
    <2> QED BY <1>2, <2>1, <2>2, <2>3
<1>9. Holds(d, m, a)
    <2>1. \A i \in 0 .. TTY_IN_BYTES - 1 : d[i] = IF i < Len(a) THEN a[i + 1] ELSE NUL
        BY <1>3, <1>8
    <2> QED BY <1>3, <2>1 DEF Holds
<1> QED BY <1>9 DEF a, d, m

LEMMA EmptyHeld ==
    ASSUME NEW cmd, \A i \in 0 .. TTY_IN_BYTES - 1 : cmd[i] = NUL
    PROVE  Holds(cmd, 0, <<>>) /\ Edited(<<>>) = <<>>
<1>1. \A i \in 0 .. TTY_IN_BYTES - 1 : ~(i < 0)
    OBVIOUS
<1> QED BY <1>1, EditedEmpty DEF Holds

LEMMA CommandStep ==
    ASSUME CommandInv, LineTypes, ShowTypes, PrintTypes, ConsoleTypes, OrderInv, [Next]_vars
    PROVE  CommandInv'
<1> DEFINE Ok(t) == Deletes(typed[t]) => Holds(command[t], curr[t], Edited(typed[t]))
<1>1. \A t \in Tty : (v_mem_limit[t] = 0 => typed[t] = <<>>) /\ Ok(t)
    BY Zenon DEF CommandInv, Holds
<1>2. SUFFICES \A t \in Tty : (v_mem_limit'[t] = 0 => typed'[t] = <<>>)
                  /\ (Deletes(typed'[t]) => Holds(command'[t], curr'[t], Edited(typed'[t])))
    BY Zenon DEF CommandInv, Holds
<1>3. command \in [Tty -> [Command -> Plain]] /\ curr \in [Tty -> -TTY_IN_BYTES .. TTY_IN_BYTES]
      /\ typed \in [Tty -> Seq(Char \ {"\n"})] /\ TTY_IN_BYTES \in Nat /\ index \in Tty
      /\ v_mem_limit \in [Tty -> {0, ConsoleCells}]
    BY Sizes DEF LineTypes, PrintTypes, ConsoleTypes
<1>4. ASSUME NEW t \in Tty, clear_command(t)
      PROVE  /\ Holds(command'[t], curr'[t], <<>>) /\ Edited(<<>>) = <<>>
             /\ \A u \in Tty : u # t => command'[u] = command[u] /\ curr'[u] = curr[u]
    <2>1. command'[t] = [i \in Command |-> IF i < 0 THEN command[t][i] ELSE NUL] /\ curr'[t] = 0
        BY <1>3, <1>4 DEF clear_command
    <2>2. \A i \in 0 .. TTY_IN_BYTES - 1 : i \in Command /\ ~(i < 0)
        BY <1>3 DEF Command
    <2>3. \A i \in 0 .. TTY_IN_BYTES - 1 : command'[t][i] = NUL
        BY <2>1, <2>2
    <2>4. Holds(command'[t], 0, <<>>) /\ Edited(<<>>) = <<>>
        BY <2>3, EmptyHeld
    <2> QED BY <1>3, <1>4, <2>1, <2>4 DEF clear_command
<1>5. CASE init
    <2>1. clear_command(index) /\ typed' = typed /\ at = "init"
          /\ v_mem_limit' = [v_mem_limit EXCEPT ![index] = ConsoleCells]
        BY <1>5 DEF init
    <2>2. typed[index] = <<>>
        BY <1>1, <1>3, <2>1 DEF OrderInv
    <2> SUFFICES ASSUME NEW t \in Tty
                 PROVE  (v_mem_limit'[t] = 0 => typed'[t] = <<>>)
                        /\ (Deletes(typed'[t]) => Holds(command'[t], curr'[t], Edited(typed'[t])))
        OBVIOUS
    <2>3. CASE t = index
        BY <1>3, <1>4, <2>1, <2>2, <2>3
    <2>4. CASE t # index
        <3>1. v_mem_limit'[t] = v_mem_limit[t]
            BY <1>3, <2>1, <2>4
        <3> QED BY <1>1, <1>3, <1>4, <2>1, <2>4, <3>1
    <2> QED BY <2>3, <2>4
<1>6. CASE type
    <2> DEFINE u == current_console
    <2>1. PICK c \in Char : at = "rest" /\ tty_do_write(u, c)
        BY <1>6, KeyTyped
    <2>2. u \in Tty
        BY DEF ShowTypes
    <2> HIDE DEF u
    <2>3. v_mem_limit' = v_mem_limit /\ v_mem_limit[u] # 0
        BY <1>6, <2>1, <2>2 DEF type, consoleVars, OrderInv, Initialised
    <2>4. ASSUME NEW t \in Tty, t # u
          PROVE  command'[t] = command[t] /\ curr'[t] = curr[t] /\ typed'[t] = typed[t]
        BY <1>3, <2>1, <2>4 DEF tty_do_write, clear_command
    <2>5. Deletes(typed'[u]) => Holds(command'[u], curr'[u], Edited(typed'[u]))
        <3>1. CASE c = "\n"
            <4>1. clear_command(u) /\ typed' = [typed EXCEPT ![u] = <<>>]
                BY <2>1, <3>1 DEF tty_do_write
            <4>2. typed'[u] = <<>>
                BY <1>3, <2>2, <4>1
            <4> QED BY <1>4, <2>2, <4>1, <4>2
        <3>2. CASE c # "\n"
            <4> DEFINE s == typed[u]
                       l == Edited(s)
                       n == curr[u]
            <4>1. s \in Seq(Char) /\ n \in Int /\ n <= TTY_IN_BYTES /\ command[u] \in [Command -> Plain]
                <5>1. s \in Seq(Char \ {"\n"}) /\ Char \ {"\n"} \subseteq Char
                    BY <1>3, <2>2
                <5>2. s \in Seq(Char)
                    <6> HIDE DEF s
                    <6> QED BY <5>1, SeqMonotonic
                <5> QED BY <1>3, <2>2, <5>2
            <4>2. typed'[u] = Append(s, c)
                BY <1>3, <2>1, <2>2, <3>2 DEF tty_do_write
            <4>3. ~Full(u)
                BY <2>1 DEF tty_do_write
            <4> HIDE DEF s
            <4>4. l \in Seq(Char) /\ Edited(Append(s, c)) = Edit(l, c)
                BY <4>1, EditedAppend
            <4>5. Deletes(typed'[u]) => Holds(command[u], n, l) /\ (c = "BS" => l # <<>>)
                BY <1>1, <2>2, <4>1, <4>2, DeletesAppend DEF s
            <4> HIDE DEF l
            <4>6. CASE c = "BS"
                <5>1. curr'[u] = n - 1 /\ command'[u] = [command[u] EXCEPT ![n - 1] = NUL]
                    BY <1>3, <2>1, <2>2, <4>6 DEF tty_do_write
                <5>2. Edit(l, c) = SubSeq(l, 1, Len(l) - 1)
                    BY <4>6 DEF Edit
                <5>3. Deletes(typed'[u]) =>
                          Holds([command[u] EXCEPT ![n - 1] = NUL], n - 1, SubSeq(l, 1, Len(l) - 1))
                    BY <4>1, <4>4, <4>5, <4>6, DeletionHeld
                <5> QED BY <4>2, <4>4, <5>1, <5>2, <5>3
            <4>7. CASE c # "BS"
                <5>1. curr'[u] = n + 1 /\ command'[u] = [command[u] EXCEPT ![n] = c] /\ c \in Plain
                    BY <1>3, <2>1, <2>2, <3>2, <4>7 DEF tty_do_write, Plain
                <5>2. Edit(l, c) = Append(l, c)
                    BY <4>7 DEF Edit
                <5>3. n < TTY_IN_BYTES
                    BY <1>3, <4>1, <4>3 DEF Full
                <5>4. Deletes(typed'[u]) => Holds([command[u] EXCEPT ![n] = c], n + 1, Append(l, c))
                    BY <4>1, <4>4, <4>5, <5>1, <5>3, KeyHeld
                <5> QED BY <4>2, <4>4, <5>1, <5>2, <5>4
            <4> QED BY <4>6, <4>7
        <3> QED BY <3>1, <3>2
    <2> SUFFICES ASSUME NEW t \in Tty
                 PROVE  (v_mem_limit'[t] = 0 => typed'[t] = <<>>)
                        /\ (Deletes(typed'[t]) => Holds(command'[t], curr'[t], Edited(typed'[t])))
        OBVIOUS
    <2>6. CASE t = u
        BY <2>3, <2>5, <2>6
    <2>7. CASE t # u
        BY <1>1, <2>3, <2>4, <2>7
    <2> QED BY <2>6, <2>7
<1>7. CASE command' = command /\ curr' = curr /\ typed' = typed /\ v_mem_limit' = v_mem_limit
    BY <1>1, <1>7
<1> QED BY <1>5, <1>6, <1>7, Frames

-----------------------------------------------------------------------------
(* The cursor.  A write between the statements of print moves only the     *)
(* cursor, and not beyond the console: the address p_vmem of the character *)
(* is behind it, and the step after the character may leave the console.   *)

CursorInv ==
    /\ \A t \in Tty : v_mem_limit[t] # 0 =>
          v_mem_addr(t) <= cursor[t] /\ cursor[t] <= v_mem_addr(t) + ConsoleCells + 1
    /\ at \in {"cells", "move"} => cursor[index] <= v_mem_addr(index) + ConsoleCells
    /\ at \in {"test", "erase", "cells"} => v_mem_addr(index) <= p_vmem
    /\ at = "test" => p_vmem <= cursor[index]
    /\ at = "cells" => p_vmem < v_mem_addr(index) + ConsoleCells

\* a terminal that prints is initialised
LEMMA IndexInitialised ==
    ASSUME ConsoleTypes, PrintTypes, OrderInv, at # "init"
    PROVE  v_mem_limit[index] = ConsoleCells
<1>1. index \in Tty /\ index \in Int
    BY Sizes DEF PrintTypes
<1>2. ~(index >= index + 1)
    BY <1>1
<1>3. v_mem_limit[index] # 0
    BY <1>1, <1>2 DEF OrderInv, Initialised
<1> QED BY <1>1, <1>3 DEF ConsoleTypes

LEMMA WriteKeeps ==
    ASSUME ConsoleTypes, PrefixTypes, CursorInv, write, v_mem_limit[0] # 0
    PROVE  /\ cursor'[0] \in Int /\ cursor'[0] >= cursor[0]
           /\ cursor'[0] = cursor[0] \/ cursor'[0] <= v_mem_addr(0) + ConsoleCells
           /\ \A t \in Tty \ {0} : cursor'[t] = cursor[t] /\ text'[t] = text[t]
           /\ \A i \in Cells : i < v_mem_addr(0) \/ i >= v_mem_addr(0) + ConsoleCells => video'[i] = video[i]
           /\ Matches(0, cursor[0], video, Layout(0)) => Matches(0, cursor'[0], video', LayoutOf(0, text'[0]))
<1>1. PICK w \in Texts : LET s == Box(cursor[0], video, text[0])
                             r == PrintedAll(s, w) IN
          /\ w \in Seq(Char \ {"BS"}) /\ s \in Boxes /\ r \in Boxes
          /\ s.cursor = cursor[0] /\ s.video = video /\ s.text = text[0]
          /\ cursor' = [cursor EXCEPT ![0] = r.cursor] /\ video' = r.video
          /\ text' = [text EXCEPT ![0] = r.text]
    BY WriteIs, Zenon
<1> DEFINE s == Box(cursor[0], video, text[0])
           r == PrintedAll(s, w)
<1>2. 0 \in Tty /\ v_mem_limit[0] = ConsoleCells /\ Prompt(0) \in Seq(Char)
    BY Sizes, PromptType DEF ConsoleTypes
<1>3. /\ w \in Seq(Char \ {"BS"}) /\ s \in Boxes /\ r \in Boxes
      /\ s.cursor = cursor[0] /\ s.video = video /\ s.text = text[0]
      /\ cursor' = [cursor EXCEPT ![0] = r.cursor] /\ video' = r.video
      /\ text' = [text EXCEPT ![0] = r.text]
    BY <1>1, Zenon
<1> HIDE DEF s
<1>4. s.cursor >= v_mem_addr(0)
    <2>1. v_mem_addr(0) \in Int /\ cursor[0] \in Int
        BY <1>2, Addresses DEF ConsoleTypes
    <2> QED BY <1>2, <1>3, <2>1 DEF CursorInv
<1>5. Keeps(0, s, r) /\ (Matches(0, s.cursor, s.video, LayoutOf(0, s.text)) => Matches(0, r.cursor, r.video, LayoutOf(0, r.text)))
    BY <1>2, <1>3, <1>4, WriteOnConsole
<1>6. r.cursor \in Int
    BY <1>3, BoxParts
<1> HIDE DEF r
<1>7. cursor'[0] = r.cursor /\ text'[0] = r.text
      /\ \A t \in Tty \ {0} : cursor'[t] = cursor[t] /\ text'[t] = text[t]
    <2>1. DOMAIN cursor = Tty /\ DOMAIN text = Tty
        BY DEF ConsoleTypes
    <2> QED BY <1>2, <1>3, <2>1
<1>8. /\ r.cursor >= s.cursor /\ (r.cursor = s.cursor \/ r.cursor <= v_mem_addr(0) + ConsoleCells)
      /\ \A i \in Cells : i < v_mem_addr(0) \/ i >= v_mem_addr(0) + ConsoleCells => r.video[i] = s.video[i]
    BY <1>5, Zenon DEF Keeps
<1>9. /\ cursor'[0] >= cursor[0]
      /\ cursor'[0] = cursor[0] \/ cursor'[0] <= v_mem_addr(0) + ConsoleCells
      /\ \A i \in Cells : i < v_mem_addr(0) \/ i >= v_mem_addr(0) + ConsoleCells => video'[i] = video[i]
    BY <1>3, <1>7, <1>8, Zenon
<1>10. Matches(0, cursor[0], video, Layout(0)) => Matches(0, cursor'[0], video', LayoutOf(0, text'[0]))
    BY <1>3, <1>5, <1>7, Zenon DEF Layout
<1> QED BY <1>6, <1>7, <1>9, <1>10, Zenon

LEMMA CursorStep ==
    ASSUME CursorInv, ConsoleTypes, PrintTypes, PrefixTypes, LineTypes, ShowTypes, OrderInv, [Next]_vars
    PROVE  CursorInv'
<1>1. /\ cursor \in [Tty -> Int] /\ index \in Tty /\ p_vmem \in Int
      /\ \A t \in Tty : v_mem_addr(t) \in Nat
      /\ ConsoleCells \in Nat /\ ConsoleCells > SCREEN_WIDTH /\ SCREEN_WIDTH \in Nat /\ 0 \in Tty
    BY Sizes, Addresses DEF ConsoleTypes, PrintTypes
<1>2. \A t \in Tty : cursor[t] \in Int
    BY <1>1
<1>3. ASSUME v_mem_limit' = v_mem_limit, cursor' = cursor,
             (at' = at /\ p_vmem' = p_vmem /\ index' = index) \/ at' \notin {"test", "erase", "cells", "move"}
      PROVE  CursorInv'
    BY <1>3 DEF CursorInv, v_mem_addr
<1>4. CASE write
    <2>1. at' = at /\ index' = index /\ p_vmem' = p_vmem /\ v_mem_limit' = v_mem_limit
        BY <1>4 DEF write, printVars
    <2>2. CASE v_mem_limit[0] # 0
        <3>1. /\ cursor'[0] \in Int /\ cursor'[0] >= cursor[0]
              /\ cursor'[0] = cursor[0] \/ cursor'[0] <= v_mem_addr(0) + ConsoleCells
              /\ \A t \in Tty \ {0} : cursor'[t] = cursor[t]
            BY <1>4, <2>2, WriteKeeps
        <3>2. \A t \in Tty : v_mem_limit[t] # 0 =>
                  v_mem_addr(t) <= cursor'[t] /\ cursor'[t] <= v_mem_addr(t) + ConsoleCells + 1
            BY <1>1, <1>2, <2>2, <3>1 DEF CursorInv
        <3>3. CASE index = 0
            <4> DEFINE c == cursor[0]
                       k == cursor'[0]
                       m == v_mem_addr(0) + ConsoleCells
            <4>1. c \in Int /\ k \in Int /\ m \in Int /\ k >= c /\ (k = c \/ k <= m) /\ p_vmem \in Int
                BY <1>1, <1>2, <3>1
            <4>2. /\ at \in {"cells", "move"} => c <= m
                  /\ at = "test" => p_vmem <= c
                BY <3>3 DEF CursorInv
            <4> HIDE DEF c, k, m
            <4>3. (at \in {"cells", "move"} => k <= m) /\ (at = "test" => p_vmem <= k)
                BY <4>1, <4>2
            <4> QED BY <2>1, <3>2, <3>3, <4>3 DEF CursorInv, v_mem_addr, c, k, m
        <3>4. CASE index # 0
            BY <1>1, <2>1, <3>1, <3>2, <3>4 DEF CursorInv, v_mem_addr
        <3> QED BY <3>3, <3>4
    <2>3. CASE v_mem_limit[0] = 0
        <3>1. \A t \in Tty \ {0} : cursor'[t] = cursor[t]
            BY <1>1, <1>4 DEF write
        <3>2. index = 0 => at = "init"
            <4>1. at # "init" => v_mem_limit[index] = ConsoleCells /\ ConsoleCells # 0
                BY <1>1, IndexInitialised
            <4> QED BY <2>3, <4>1
        <3> QED BY <1>1, <2>1, <2>3, <3>1, <3>2 DEF CursorInv, v_mem_addr
    <2> QED BY <2>2, <2>3
<1>5. CASE init
    <2>1. at' = "print" /\ index' = index /\ v_mem_limit' = [v_mem_limit EXCEPT ![index] = ConsoleCells]
          /\ cursor' = [cursor EXCEPT ![index] = IF index = 0 THEN disp_pos ELSE v_mem_addr(index)]
        BY <1>5 DEF init, prints
    <2>2. disp_pos \in Nat /\ disp_pos < ConsoleCells /\ v_mem_addr(0) = 0
        BY <1>1, SizesAssumption, FirstAddress
    <2>3. \A t \in Tty : t # index => v_mem_limit'[t] = v_mem_limit[t] /\ cursor'[t] = cursor[t]
        BY <1>1, <2>1 DEF ConsoleTypes
    <2>4. v_mem_addr(index) <= cursor'[index] /\ cursor'[index] <= v_mem_addr(index) + ConsoleCells + 1
        BY <1>1, <2>1, <2>2
    <2> QED BY <2>1, <2>3, <2>4 DEF CursorInv, v_mem_addr
<1>6. CASE print_step
    <2>1. at # "init" /\ index' = index /\ v_mem_limit' = v_mem_limit
        BY <1>6 DEF print_step, print, print_newline, print_backspace, erase, print_char, cells, move, show,
                    goto, consoleVars
    <2> DEFINE c == cursor[index]
               b == v_mem_addr(index)
               m == v_mem_addr(index) + ConsoleCells
    <2>2. v_mem_limit[index] = ConsoleCells /\ ConsoleCells # 0
        BY <1>1, <2>1, IndexInitialised
    <2>3. /\ c \in Int /\ b \in Int /\ m \in Int /\ m = b + ConsoleCells /\ b <= c /\ c <= m + 1
          /\ at \in {"cells", "move"} => c <= m
          /\ at \in {"test", "erase", "cells"} => b <= p_vmem
          /\ at = "test" => p_vmem <= c
          /\ at = "cells" => p_vmem < m
        BY <1>1, <1>2, <2>2 DEF CursorInv
    <2>4. (Room(index, c) <=> c < m) /\ (LineRoom(index, c) <=> c < m - SCREEN_WIDTH)
        BY <1>1, <1>2, <2>2, RoomIs
    <2> HIDE DEF c, b, m
    <2>5. ASSUME NEW k \in Int, cursor' = [cursor EXCEPT ![index] = k], b <= k, k <= m + 1,
                 at' \in {"cells", "move"} => k <= m,
                 at' \in {"test", "erase", "cells"} => b <= p_vmem',
                 at' = "test" => p_vmem' <= k,
                 at' = "cells" => p_vmem' < m
          PROVE  CursorInv'
        <3>1. cursor'[index] = k /\ \A t \in Tty : t # index => cursor'[t] = cursor[t]
            BY <1>1, <2>5
        <3> QED BY <2>1, <2>5, <3>1 DEF CursorInv, v_mem_addr, b, m
    <2>6. ASSUME cursor' = cursor,
                 at' \in {"cells", "move"} => c <= m,
                 at' \in {"test", "erase", "cells"} => b <= p_vmem',
                 at' = "test" => p_vmem' <= c,
                 at' = "cells" => p_vmem' < m
          PROVE  CursorInv'
        BY <1>1, <2>1, <2>6 DEF CursorInv, v_mem_addr, b, c, m
    <2>7. CASE print
        <3>1. at' = "test" /\ p_vmem' = c /\ cursor' = cursor
            BY <2>7 DEF print, c
        <3> QED BY <2>3, <2>6, <3>1
    <2>8. CASE print_newline
        <3>1. CASE LineRoom(index, c)
            <4>1. cursor' = [cursor EXCEPT ![index] = next_line(index, c)] /\ at' = "print"
                BY <2>8, <3>1 DEF print_newline, c
            <4>2. next_line(index, c) \in Int /\ c < next_line(index, c)
                  /\ next_line(index, c) <= c + SCREEN_WIDTH
                BY <1>1, <2>3, NextLine DEF b
            <4> DEFINE k == next_line(index, c)
            <4> HIDE DEF k
            <4>3. k \in Int /\ b <= k /\ k <= m + 1
                BY <1>1, <2>3, <2>4, <3>1, <4>2 DEF k
            <4> QED BY <2>5, <4>1, <4>3 DEF k
        <3>2. CASE ~LineRoom(index, c)
            <4>1. cursor' = cursor /\ at' = "show"
                BY <2>8, <3>2 DEF print_newline, c
            <4> QED BY <2>6, <4>1
        <3> QED BY <3>1, <3>2
    <2>9. CASE print_backspace
        <3>1. CASE c > b
            <4>1. cursor' = [cursor EXCEPT ![index] = c - 1] /\ at' = "erase" /\ p_vmem' = p_vmem /\ at = "test"
                BY <2>9, <3>1 DEF print_backspace, c, b, goto
            <4> DEFINE k == c - 1
            <4>2. k \in Int /\ b <= k /\ k <= m + 1
                BY <2>3, <3>1
            <4>3. at' \in {"test", "erase", "cells"} => b <= p_vmem'
                BY <2>3, <4>1
            <4> HIDE DEF k
            <4> QED BY <2>5, <4>1, <4>2, <4>3 DEF k
        <3>2. CASE ~(c > b)
            <4>1. cursor' = cursor /\ at' = "show"
                BY <2>9, <3>2 DEF print_backspace, c, b, goto
            <4> QED BY <2>6, <4>1
        <3> QED BY <3>1, <3>2
    <2>10. CASE erase
        BY <2>6, <2>10 DEF erase, goto
    <2>11. CASE print_char
        <3>1. cursor' = cursor /\ at = "test" /\ p_vmem' = p_vmem
              /\ ((at' = "cells" /\ Room(index, c)) \/ at' = "show")
            BY <2>11 DEF print_char, c, goto, consoleVars
        <3> QED BY <1>1, <2>3, <2>4, <2>6, <3>1
    <2>12. CASE cells
        <3>1. cursor' = cursor /\ at = "cells" /\ at' = "move"
            BY <2>12 DEF cells, goto
        <3> QED BY <2>3, <2>6, <3>1
    <2>13. CASE move
        <3>1. cursor' = [cursor EXCEPT ![index] = c + 1] /\ at = "move" /\ at' = "show"
            BY <2>13 DEF move, c, goto
        <3> DEFINE k == c + 1
        <3>2. k \in Int /\ b <= k /\ k <= m + 1
            BY <2>3, <3>1
        <3> HIDE DEF k
        <3> QED BY <2>5, <3>1, <3>2 DEF k
    <2>14. CASE show
        BY <2>6, <2>14 DEF show, consoleVars
    <2> QED BY <1>6, <2>7, <2>8, <2>9, <2>10, <2>11, <2>12, <2>13, <2>14 DEF print_step
<1>7. CASE printed
    BY <1>3, <1>7 DEF printed, consoleVars
<1>8. CASE type
    <2>1. PICK c \in Char : at = "rest" /\ tty_do_write(current_console, c)
        BY <1>8, KeyTyped
    <2>2. at' \in {"rest", "print"}
        BY <2>1 DEF tty_do_write, tty_command, root, cd, ls, other_command, prints
    <2> QED BY <1>3, <1>8, <2>2 DEF type, consoleVars
<1>9. CASE v_mem_limit' = v_mem_limit /\ cursor' = cursor /\ at' = at /\ index' = index /\ p_vmem' = p_vmem
    BY <1>3, <1>9
<1> QED BY <1>4, <1>5, <1>6, <1>7, <1>8, <1>9, Frames

LEMMA RegionsApart ==
    ASSUME NEW t \in Tty, NEW u \in Tty, NEW c \in Region(t), c \in Region(u)
    PROVE  t = u
<1>1. /\ v_mem_addr(t) \in Int /\ v_mem_addr(u) \in Int /\ ConsoleCells \in Int
      /\ v_mem_addr(t + 1) = v_mem_addr(t) + ConsoleCells
      /\ v_mem_addr(u + 1) = v_mem_addr(u) + ConsoleCells
      /\ t < u => v_mem_addr(t) + ConsoleCells <= v_mem_addr(u)
      /\ u < t => v_mem_addr(u) + ConsoleCells <= v_mem_addr(t)
      /\ t \in Int /\ u \in Int
    BY Addresses, Sizes
<1>2. c \in Int /\ c >= v_mem_addr(t) /\ c < v_mem_addr(t) + ConsoleCells
      /\ c >= v_mem_addr(u) /\ c < v_mem_addr(u) + ConsoleCells
    BY <1>1 DEF Region
<1> QED BY <1>1, <1>2

LEMMA InRegion ==
    ASSUME NEW t \in Tty, NEW c
    PROVE  /\ c \in Region(t) <=> c \in Int /\ v_mem_addr(t) <= c /\ c < v_mem_addr(t) + ConsoleCells
           /\ c \in Region(t) => c \in Cells
<1>1. /\ v_mem_addr(t) \in Nat /\ ConsoleCells \in Int /\ SCREEN_WIDTH \in Nat
      /\ v_mem_addr(t + 1) = v_mem_addr(t) + ConsoleCells
      /\ v_mem_addr(t) + ConsoleCells <= NR_CONSOLE * ConsoleCells /\ NR_CONSOLE * ConsoleCells \in Nat
    BY Addresses, Sizes
<1> QED BY <1>1 DEF Region, Cells

\* what a step may write on a console
LEMMA CharsStep ==
    ASSUME CursorInv, ConsoleTypes, PrintTypes, PrefixTypes, [Next]_vars, Initialised,
           NEW t \in Tty, NEW c \in Region(t)
    PROVE  video'[c] \in {video[c], " "} \/ (write /\ t = 0) \/ (task_tty /\ t = index)
<1>1. /\ index \in Tty /\ 0 \in Tty /\ video \in [Cells -> Char] /\ c \in Cells /\ c \in Int
      /\ v_mem_limit[0] # 0 /\ p_vmem \in Int
    BY Sizes, InRegion DEF ConsoleTypes, PrintTypes, Initialised
<1>2. ASSUME write, video'[c] # video[c] PROVE t = 0
    <2>1. \A i \in Cells : i < v_mem_addr(0) \/ i >= v_mem_addr(0) + ConsoleCells => video'[i] = video[i]
        BY <1>1, <1>2, WriteKeeps
    <2>2. v_mem_addr(0) \in Int /\ ConsoleCells \in Int
        BY FirstAddress, Sizes
    <2>3. v_mem_addr(0) <= c /\ c < v_mem_addr(0) + ConsoleCells
        BY <1>1, <2>1, <1>2, <2>2
    <2>4. c \in Region(0)
        BY <1>1, <2>3, InRegion
    <2>5. t = 0
        BY <1>1, <2>4, RegionsApart
    <2> QED BY <2>5
<1>3. CASE print_step
    <2>1. CASE erase
        <3>1. video' = [video EXCEPT ![p_vmem - 1] = " "]
            BY <2>1 DEF erase
        <3>2. video'[c] = video[c] \/ video'[c] = " "
            BY <1>1, <3>1
        <3> QED BY <3>2
    <2>2. CASE cells
        <3>1. video' = [video EXCEPT ![p_vmem] = char] /\ at = "cells"
            BY <2>2 DEF cells
        <3>2. ASSUME video'[c] # video[c] PROVE t = index
            <4>1. c = p_vmem
                BY <1>1, <3>1, <3>2
            <4>2. c \in Region(index)
                BY <1>1, <3>1, <4>1, InRegion DEF CursorInv
            <4> QED BY <1>1, <4>2, RegionsApart
        <3> QED BY <1>3, <3>2, Zenon DEF task_tty
    <2>3. CASE video' = video
        BY <2>3
    <2> QED BY <1>3, <2>1, <2>2, <2>3
        DEF print_step, print, print_newline, print_backspace, print_char, move, show, consoleVars
<1>4. CASE video' = video
    BY <1>4
<1> QED BY <1>2, <1>3, <1>4, Frames

-----------------------------------------------------------------------------
(* The screens                                                             *)

LEMMA AdvanceFirst ==
    ASSUME NEW s \in Screens, NEW cs \in Seq(Char), cs # <<>>
    PROVE  AdvanceAll(s, cs) = AdvanceAll(Advance(s, Head(cs)), Tail(cs))
<1> DEFINE n == Len(cs)
           m == Len(Tail(cs))
           a == Advance(s, Head(cs))
           tl == Tail(cs)
<1>1. n \in Nat /\ m = n - 1 /\ m \in Nat /\ tl \in Seq(Char) /\ Head(cs) = cs[1] /\ Head(cs) \in Char
      /\ \A k \in 1 .. m : tl[k] = cs[k + 1]
    OBVIOUS
<1>2. a \in Screens
    BY <1>1, AdvanceScreen
<1> HIDE DEF a, tl
<1>3. PICK f \in [0 .. n -> Screens] :
          /\ f[0] = s /\ f[n] = AdvanceAll(s, cs)
          /\ \A k \in 1 .. n : f[k] = Advance(f[k - 1], cs[k])
    BY AdvanceAlong
<1>4. PICK h \in [0 .. m -> Screens] :
          /\ h[0] = a /\ h[m] = AdvanceAll(a, tl)
          /\ \A k \in 1 .. m : h[k] = Advance(h[k - 1], tl[k])
    BY <1>1, <1>2, AdvanceAlong DEF tl
<1> HIDE DEF n, m
<1> DEFINE e == [k \in 0 .. m |-> f[k + 1]]
<1>5. 1 \in 1 .. n /\ 1 - 1 = 0 /\ 0 \in 0 .. m /\ m \in 0 .. m /\ 0 + 1 = 1 /\ m + 1 = n
    BY <1>1
<1>6. e[0] = a /\ e[m] = f[n]
    BY <1>1, <1>3, <1>5 DEF a
<1>7. \A k \in 1 .. m : k + 1 \in 1 .. n /\ (k + 1) - 1 = k /\ k \in 0 .. m /\ k - 1 \in 0 .. m /\ (k - 1) + 1 = k
    BY <1>1
<1>8. \A k \in 1 .. m : e[k] = Advance(e[k - 1], tl[k])
    BY <1>1, <1>3, <1>7
<1> HIDE DEF e
<1>9. e[m] = h[m]
    <2>1. m \in Nat /\ e[0] = h[0] /\ \A k \in 1 .. m : e[k - 1] = h[k - 1] => e[k] = h[k]
        BY <1>1, <1>4, <1>6, <1>8
    <2> QED BY <2>1, SameRuns
<1> QED BY <1>3, <1>4, <1>6, <1>9 DEF a, tl

LEMMA AdvanceNone ==
    ASSUME NEW s \in Screens
    PROVE  AdvanceAll(s, <<>>) = s
<1> DEFINE e == <<>>
<1>1. e \in Seq(Char) /\ Len(e) = 0
    OBVIOUS
<1> HIDE DEF e
<1>2. PICK f \in [0 .. Len(e) -> Screens] : f[0] = s /\ f[Len(e)] = AdvanceAll(s, e)
    BY <1>1, AdvanceAlong
<1>3. AdvanceAll(s, e) = s
    BY <1>1, <1>2
<1> QED BY <1>3 DEF e

LEMMA TailConcat ==
    ASSUME NEW V, NEW q \in Seq(V), q # <<>>, NEW b \in Seq(V)
    PROVE  Head(q \o b) = Head(q) /\ Tail(q \o b) = Tail(q) \o b
<1> DEFINE a == q \o b
           d == Tail(q) \o b
           n == Len(q)
           k == Len(b)
<1>1. /\ n \in Nat /\ k \in Nat /\ n > 0 /\ Tail(q) \in Seq(V) /\ Len(Tail(q)) = n - 1
      /\ Head(q) = q[1] /\ \A i \in 1 .. n - 1 : Tail(q)[i] = q[i + 1]
    OBVIOUS
<1>2. /\ a \in Seq(V) /\ Len(a) = n + k
      /\ (\A i \in 1 .. n : a[i] = q[i]) /\ \A i \in 1 .. k : a[n + i] = b[i]
    OBVIOUS
<1>3. /\ d \in Seq(V) /\ Len(d) = (n - 1) + k
      /\ (\A i \in 1 .. n - 1 : d[i] = q[i + 1]) /\ \A i \in 1 .. k : d[(n - 1) + i] = b[i]
    <2> DEFINE p == Tail(q)
    <2>1. p \in Seq(V) /\ Len(p) = n - 1 /\ \A i \in 1 .. n - 1 : p[i] = q[i + 1]
        BY <1>1
    <2> HIDE DEF p
    <2>2. p \o b \in Seq(V) /\ Len(p \o b) = Len(p) + k
          /\ (\A i \in 1 .. Len(p) : (p \o b)[i] = p[i]) /\ \A i \in 1 .. k : (p \o b)[Len(p) + i] = b[i]
        <3>1. p \in Seq(V) /\ b \in Seq(V)
            BY <2>1
        <3>2. p \o b \in Seq(V) /\ Len(p \o b) = Len(p) + k
            BY <3>1
        <3>3. \A i \in 1 .. Len(p) : (p \o b)[i] = p[i]
            BY <3>1
        <3>4. \A i \in 1 .. k : (p \o b)[Len(p) + i] = b[i]
            BY <3>1
        <3> QED BY <3>2, <3>3, <3>4
    <2>3. d = p \o b
        BY DEF p
    <2> HIDE DEF d
    <2> QED BY <1>1, <2>1, <2>2, <2>3
<1> HIDE DEF a, d, n, k
<1>4. a # <<>>
    BY <1>1, <1>2
<1>5. Head(a) = a[1] /\ Tail(a) \in Seq(V) /\ Len(Tail(a)) = (n + k) - 1
      /\ \A i \in 1 .. (n + k) - 1 : Tail(a)[i] = a[i + 1]
    BY <1>1, <1>2, <1>4
<1>6. 1 \in 1 .. n
    BY <1>1
<1>7. ASSUME NEW i \in 1 .. (n + k) - 1 PROVE a[i + 1] = d[i]
    <2>1. CASE i <= n - 1
        <3>1. i \in 1 .. n - 1 /\ i + 1 \in 1 .. n
            BY <1>1, <2>1
        <3> QED BY <1>2, <1>3, <3>1
    <2>2. CASE i >= n
        <3>1. i + 1 - n \in 1 .. k /\ n + (i + 1 - n) = i + 1 /\ (n - 1) + (i + 1 - n) = i
            BY <1>1, <2>2
        <3>2. a[n + (i + 1 - n)] = b[i + 1 - n] /\ d[(n - 1) + (i + 1 - n)] = b[i + 1 - n]
            BY <1>2, <1>3, <3>1
        <3> QED BY <3>1, <3>2
    <2> QED BY <1>1, <2>1, <2>2
<1>8. Tail(a) = d
    <2>1. \A i \in 1 .. Len(Tail(a)) : Tail(a)[i] = d[i]
        BY <1>5, <1>7
    <2>2. Len(Tail(a)) = Len(d)
        BY <1>1, <1>3, <1>5
    <2> QED BY <1>3, <1>5, <2>1, <2>2, SeqEqual
<1> QED BY <1>1, <1>2, <1>5, <1>6, <1>8 DEF a, d

\* the nested prints of a prompt: its characters, and the mark of its end
Marked(q, r) == q \o <<"show">> \o r

LEMMA MarkedParts ==
    ASSUME NEW q \in Seq(Plain), NEW r \in Seq(Char)
    PROVE  /\ Marked(q, r) # <<>>
           /\ \E i \in DOMAIN Marked(q, r) : Marked(q, r)[i] = "show"
           /\ q = <<>> => Head(Marked(q, r)) = "show" /\ Tail(Marked(q, r)) = r
           /\ q # <<>> => /\ Head(Marked(q, r)) = Head(q) /\ Head(q) \in Plain
                          /\ Tail(q) \in Seq(Plain) /\ Tail(Marked(q, r)) = Marked(Tail(q), r)
<1> DEFINE V == Plain \cup Char \cup {"show"}
           e == <<"show">>
           m == q \o e \o r
<1>1. q \in Seq(V) /\ e \in Seq(V) /\ r \in Seq(V) /\ Len(e) = 1 /\ e[1] = "show"
    <2>1. "show" \in V /\ Plain \subseteq V /\ Char \subseteq V
        OBVIOUS
    <2> HIDE DEF V
    <2>2. e \in Seq(V) /\ Len(e) = 1 /\ e[1] = "show"
        BY <2>1
    <2>3. q \in Seq(V) /\ r \in Seq(V)
        BY <2>1, SeqMonotonic
    <2> QED BY <2>2, <2>3
<1> HIDE DEF V, e
<1>2. /\ m \in Seq(V) /\ Len(m) = Len(q) + 1 + Len(r) /\ Len(q) \in Nat /\ Len(r) \in Nat
      /\ \A i \in 1 .. Len(q) : m[i] = q[i]
      /\ m[Len(q) + 1] = "show"
      /\ \A i \in 1 .. Len(r) : m[Len(q) + 1 + i] = r[i]
    <2>1. /\ q \o e \in Seq(V) /\ Len(q \o e) = Len(q) + 1 /\ Len(q) \in Nat /\ Len(r) \in Nat
          /\ \A i \in 1 .. Len(q) : (q \o e)[i] = q[i]
          /\ (q \o e)[Len(q) + 1] = "show"
        <3>1. q \in Seq(V) /\ e \in Seq(V)
            BY <1>1
        <3>2. q \o e \in Seq(V) /\ Len(q \o e) = Len(q) + Len(e) /\ Len(q) \in Nat
            BY <3>1
        <3>3. \A i \in 1 .. Len(q) : (q \o e)[i] = q[i]
            BY <3>1
        <3>4. \A i \in 1 .. Len(e) : (q \o e)[Len(q) + i] = e[i]
            BY <3>1
        <3>5. Len(r) \in Nat /\ 1 \in 1 .. 1
            BY <1>1
        <3> QED BY <1>1, <3>2, <3>3, <3>4, <3>5
    <2> DEFINE a == q \o e
    <2> HIDE DEF a
    <2>2. /\ a \o r \in Seq(V) /\ Len(a \o r) = Len(a) + Len(r) /\ Len(a) \in Nat
          /\ \A i \in 1 .. Len(a) : (a \o r)[i] = a[i]
          /\ \A i \in 1 .. Len(r) : (a \o r)[Len(a) + i] = r[i]
        BY <1>1, <2>1 DEF a
    <2>3. m = a \o r
        BY DEF a
    <2> HIDE DEF m
    <2> QED BY <2>1, <2>2, <2>3 DEF a
<1>3. m # <<>> /\ \E i \in DOMAIN m : m[i] = "show"
    <2> HIDE DEF m
    <2>1. Len(q) + 1 \in DOMAIN m
        BY <1>2
    <2> QED BY <1>2, <2>1
<1>4. ASSUME q = <<>> PROVE Head(m) = "show" /\ Tail(m) = r
    <2> HIDE DEF m
    <2>1. Len(q) = 0
        BY <1>4
    <2>2. m[1] = "show" /\ Len(m) = 1 + Len(r) /\ \A i \in 1 .. Len(r) : m[i + 1] = r[i]
        BY <1>2, <2>1
    <2>3. /\ Head(m) = m[1] /\ Tail(m) \in Seq(V) /\ Len(Tail(m)) = Len(r)
          /\ \A i \in 1 .. Len(r) : Tail(m)[i] = m[i + 1]
        BY <1>2, <1>3, <2>2
    <2>4. Tail(m) = r
        BY <1>1, <2>2, <2>3, SeqEqual
    <2> QED BY <2>2, <2>3, <2>4
<1>5. ASSUME q # <<>>
      PROVE  Head(m) = Head(q) /\ Head(q) \in Plain /\ Tail(q) \in Seq(Plain)
             /\ Tail(m) = Marked(Tail(q), r)
    <2> DEFINE p == Tail(q)
    <2>1. Head(q) \in Plain /\ p \in Seq(Plain) /\ p \in Seq(V) /\ Len(q) > 0
        BY <1>1, <1>5
    <2>2. q = <<Head(q)>> \o p
        BY <1>5
    <2>3. Head(m) = Head(q)
        <3>1. m[1] = q[1] /\ Head(q) = q[1]
            BY <1>2, <2>1
        <3> HIDE DEF m
        <3> QED BY <1>2, <1>3, <3>1
    <2>4. Tail(m) = Tail(q \o (e \o r))
        <3>1. m = q \o (e \o r)
            BY <1>1, ConcatAssociative
        <3> HIDE DEF m
        <3> QED BY <3>1
    <2> DEFINE b == e \o r
    <2>5. b \in Seq(V)
        BY <1>1, ConcatProperties
    <2>6. Tail(q \o b) = p \o b
        <3> HIDE DEF b
        <3> QED BY <1>1, <1>5, <2>5, TailConcat
    <2>7. p \o b = (p \o e) \o r
        <3> HIDE DEF p
        <3>1. p \in Seq(V) /\ e \in Seq(V) /\ r \in Seq(V)
            BY <1>1, <2>1
        <3> QED BY <3>1
    <2> HIDE DEF m, b
    <2> QED BY <2>1, <2>3, <2>4, <2>6, <2>7 DEF Marked, e, b
<1> QED BY <1>3, <1>4, <1>5 DEF Marked, m, e

\* d is on the screen of t when the character of g is, where print is at place
\* with the cursor k, the video memory v and the address p
Drawn(t, place, k, v, p, g, d) ==
    /\ place \in {"print", "show", "rest"} => Matches(t, k, v, d)
    /\ place = "move" => Matches(t, k + 1, v, d)
    /\ place \in {"test", "erase", "cells"} => \E l \in Screens :
          /\ d = Lay(l, g)
          /\ IF place = "erase" THEN Matches(t, p, v, l) /\ k = p - 1
             ELSE Matches(t, k, v, l) /\ p = k

\* after that character, q is to print of a prompt, and then the rest of o
ToPrint(place, o, q) == \E r \in Seq(Char) :
    LET left == IF place \in {"print", "rest"} THEN o ELSE Tail(o) IN
    \/ q = <<>> /\ left = r
    \/ left = Marked(q, r) /\ (place \notin {"print", "rest"} => Head(o) \in Plain)

\* the screen is that of the text x but for what print has yet to do
ShownBy(t, place, k, v, p, g, o, x) == \E d \in Screens, q \in Seq(Plain) :
    Drawn(t, place, k, v, p, g, d) /\ ToPrint(place, o, q) /\ LayoutOf(t, x) = AdvanceAll(d, q)

LEMMA PlainGiven ==
    ASSUME NEW t \in Tty, NEW c \in Plain, NEW l \in Screens
    PROVE  Given(t, c) = <<c>> /\ Lay(l, Given(t, c)) = Advance(l, c)
<1>1. c # "\n" /\ c # "BS"
    BY DEF Plain
<1>2. Given(t, c) = <<c>>
    BY <1>1, Zenon DEF Given
<1>3. <<c>>[1] = c
    OBVIOUS
<1>4. Lay(l, <<c>>) = Advance(l, c)
    <2> DEFINE g == <<c>>
    <2>1. g[1] = c
        BY <1>3
    <2> HIDE DEF g
    <2>2. Lay(l, g) = Advance(l, c)
        BY <1>1, <2>1, Zenon DEF Lay
    <2> QED BY <2>2 DEF g
<1> QED BY <1>2, <1>4

LEMMA LayGiven ==
    ASSUME NEW t \in Tty, NEW l \in Screens, Prompt(t) \in Seq(Char)
    PROVE  /\ Lay(l, Given(t, "\n")) = NewLine(l, Prompt(t))
           /\ Lay(l, Given(t, "BS")) = Back(l)
<1>1. "\n" \in Char /\ "BS" \in Char
    BY Characters
<1>2. Given(t, "\n")[1] = "\n" /\ Tail(Given(t, "\n")) = Prompt(t) /\ Given(t, "BS")[1] = "BS"
    BY <1>1, GivenIs
<1> DEFINE a == Given(t, "\n")
           b == Given(t, "BS")
<1> HIDE DEF a, b
<1>3. Lay(l, a) = NewLine(l, Prompt(t))
    BY <1>2, Zenon DEF Lay, a
<1>4. Lay(l, b) = Back(l)
    BY <1>2, Zenon DEF Lay, b
<1> QED BY <1>3, <1>4 DEF a, b

\* a prompt begins with plain characters
LEMMA NotInPrompt ==
    ASSUME NEW o \in Seq(Char \cup {"show"}), o # <<>>, Head(o) \notin Plain, NEW place, NEW q,
           place \notin {"print", "rest"}, ToPrint(place, o, q)
    PROVE  q = <<>> /\ Tail(o) \in Seq(Char)
<1>1. PICK r \in Seq(Char) : q = <<>> /\ Tail(o) = r
    BY Zenon DEF ToPrint
<1> QED BY <1>1

LEMMA NothingToPrint ==
    ASSUME NEW o, NEW r \in Seq(Char), NEW place,
           place \in {"print", "rest"} => o = r, place \notin {"print", "rest"} => Tail(o) = r
    PROVE  ToPrint(place, o, <<>>) /\ <<>> \in Seq(Plain)
<1>1. ToPrint(place, o, <<>>)
    BY Zenon DEF ToPrint
<1> QED BY <1>1

LEMMA DrawPrint ==
    ASSUME PrefixTypes, NEW t \in Tty, NEW k, NEW v, NEW p, NEW g, NEW x \in Seq(Givens),
           NEW o \in Seq(Char \cup {"show"}), o # <<>>, Head(o) # "show",
           ShownBy(t, "print", k, v, p, g, o, x)
    PROVE  LET h == Given(t, Head(o)) IN
           ShownBy(t, "test", k, v, k, h, o,
                   IF \E i \in DOMAIN o : o[i] = "show" THEN x ELSE Append(x, h))
<1> DEFINE c == Head(o)
           h == Given(t, c)
           y == IF \E i \in DOMAIN o : o[i] = "show" THEN x ELSE Append(x, h)
<1>1. PICK d \in Screens, q \in Seq(Plain) :
          Drawn(t, "print", k, v, p, g, d) /\ ToPrint("print", o, q) /\ LayoutOf(t, x) = AdvanceAll(d, q)
    BY Zenon DEF ShownBy
<1>2. Matches(t, k, v, d)
    BY <1>1, Zenon DEF Drawn
<1>3. PICK r \in Seq(Char) : (q = <<>> /\ o = r) \/ o = Marked(q, r)
    BY <1>1, Zenon DEF ToPrint
<1>4. Prompt(t) \in Seq(Char)
    BY PromptType
<1>5. ASSUME NEW e \in Screens, e = Lay(d, h), NEW s \in Seq(Plain), ToPrint("test", o, s),
             LayoutOf(t, y) = AdvanceAll(e, s)
      PROVE  ShownBy(t, "test", k, v, k, h, o, y)
    <2> HIDE DEF h, y
    <2>1. Drawn(t, "test", k, v, k, h, e)
        BY <1>2, <1>5, Zenon DEF Drawn
    <2> QED BY <1>5, <2>1, Zenon DEF ShownBy
<1>6. CASE q = <<>> /\ o = r
    <2>1. c \in Char /\ Tail(o) \in Seq(Char) /\ \A i \in DOMAIN o : o[i] # "show"
        <3>1. r # <<>>
            BY <1>6
        <3>2. Head(r) \in Char /\ Tail(r) \in Seq(Char) /\ \A i \in DOMAIN r : r[i] \in Char
            BY <3>1
        <3>3. "show" \notin Char
            BY Characters
        <3>4. \A i \in DOMAIN r : r[i] # "show"
            BY <3>2, <3>3
        <3> QED BY <1>6, <3>2, <3>4
    <2>2. h \in Givens
        BY <1>4, <2>1, GivenIs
    <2>3. y = Append(x, h)
        BY <2>1, Zenon
    <2> HIDE DEF h, y, c
    <2>4. LayoutOf(t, x) \in Screens /\ LayoutOf(t, y) = Lay(LayoutOf(t, x), h)
        BY <2>2, <2>3, LayoutAppend
    <2>5. LayoutOf(t, x) = d
        BY <1>1, <1>6, AdvanceNone
    <2>6. Lay(d, h) \in Screens
        BY <2>2, LayScreen
    <2>7. LayoutOf(t, y) = AdvanceAll(Lay(d, h), <<>>)
        BY <2>4, <2>5, <2>6, AdvanceNone
    <2>8. ToPrint("test", o, <<>>) /\ <<>> \in Seq(Plain)
        BY <2>1, NothingToPrint
    <2> QED BY <1>5, <2>6, <2>7, <2>8 DEF h, y, c
<1>7. CASE o = Marked(q, r)
    <2>1. q # <<>> /\ c = Head(q) /\ c \in Plain /\ Tail(q) \in Seq(Plain) /\ Tail(o) = Marked(Tail(q), r)
          /\ \E i \in DOMAIN o : o[i] = "show"
        BY <1>7, MarkedParts
    <2>2. y = x
        BY <2>1, Zenon
    <2>3. ToPrint("test", o, Tail(q))
        BY <2>1, Zenon DEF ToPrint
    <2>4. Lay(d, h) = Advance(d, c)
        BY <2>1, PlainGiven
    <2>5. Advance(d, c) \in Screens
        BY <2>1, AdvanceScreen DEF Plain
    <2>6. q \in Seq(Char)
        BY SeqMonotonic DEF Plain
    <2>7. AdvanceAll(d, q) = AdvanceAll(Advance(d, c), Tail(q))
        BY <2>1, <2>6, AdvanceFirst
    <2> HIDE DEF h, y, c
    <2> QED BY <1>1, <1>5, <2>1, <2>2, <2>3, <2>4, <2>5, <2>7 DEF h, y, c
<1> QED BY <1>3, <1>6, <1>7

LEMMA DrawNewline ==
    ASSUME PrefixTypes, NEW t \in Tty, v_mem_limit[t] = ConsoleCells, NEW k \in Int, NEW v, NEW p, NEW g, NEW x,
           NEW o \in Seq(Char \cup {"show"}), o # <<>>, Head(o) = "\n",
           ShownBy(t, "test", k, v, p, Given(t, "\n"), o, x)
    PROVE  IF LineRoom(t, k)
           THEN ShownBy(t, "print", next_line(t, k), v, p, g, Marked(Prompt(t), Tail(o)), x)
           ELSE ShownBy(t, "show", k, v, p, g, o, x)
<1> DEFINE n == next_line(t, k)
           m == Prompt(t)
           u == Marked(m, Tail(o))
<1>1. PICK d \in Screens, q \in Seq(Plain) :
          Drawn(t, "test", k, v, p, Given(t, "\n"), d) /\ ToPrint("test", o, q) /\ LayoutOf(t, x) = AdvanceAll(d, q)
    BY Zenon DEF ShownBy
<1>2. PICK l \in Screens : d = Lay(l, Given(t, "\n")) /\ Matches(t, k, v, l)
    BY <1>1, Zenon DEF Drawn
<1>3. m \in Seq(Char) /\ m \in Seq(Plain)
    BY PromptType
<1>4. q = <<>> /\ Tail(o) \in Seq(Char)
    <2>1. Head(o) \notin Plain
        BY DEF Plain
    <2> QED BY <1>1, <2>1, NotInPrompt
<1>5. d = NewLine(l, m) /\ LayoutOf(t, x) = d
    BY <1>1, <1>2, <1>3, <1>4, LayGiven, AdvanceNone
<1>6. /\ LineRoom(t, k) <=> ~(Place(l) + SCREEN_WIDTH >= ConsoleCells)
      /\ LineRoom(t, k) => NextRow(l) \in Screens /\ Matches(t, n, v, NextRow(l))
    BY <1>2, MatchesNextRow
<1>7. CASE LineRoom(t, k)
    <2>1. LayoutOf(t, x) = AdvanceAll(NextRow(l), m)
        BY <1>5, <1>6, <1>7, Zenon DEF NewLine
    <2>2. ToPrint("print", u, m)
        BY <1>4, Zenon DEF ToPrint
    <2> HIDE DEF n, m, u
    <2>3. Drawn(t, "print", n, v, p, g, NextRow(l))
        BY <1>6, <1>7, Zenon DEF Drawn
    <2>4. ShownBy(t, "print", n, v, p, g, u, x)
        BY <1>3, <1>6, <1>7, <2>1, <2>2, <2>3, Zenon DEF ShownBy
    <2> QED BY <1>7, <2>4, Zenon DEF n, m, u
<1>8. CASE ~LineRoom(t, k)
    <2>1. d = l
        BY <1>5, <1>6, <1>8, Zenon DEF NewLine
    <2>2. Drawn(t, "show", k, v, p, g, d)
        BY <1>2, <2>1, Zenon DEF Drawn
    <2>3. ToPrint("show", o, <<>>) /\ <<>> \in Seq(Plain)
        BY <1>4, NothingToPrint
    <2>4. LayoutOf(t, x) = AdvanceAll(d, <<>>)
        BY <1>1, <1>4
    <2>5. ShownBy(t, "show", k, v, p, g, o, x)
        BY <2>2, <2>3, <2>4, Zenon DEF ShownBy
    <2> QED BY <1>8, <2>5, Zenon
<1> QED BY <1>7, <1>8

LEMMA DrawBackspace ==
    ASSUME PrefixTypes, NEW t \in Tty, NEW k \in Int, NEW v, NEW p, NEW g, NEW x,
           NEW o \in Seq(Char \cup {"show"}), o # <<>>, Head(o) = "BS",
           ShownBy(t, "test", k, v, p, Given(t, "BS"), o, x)
    PROVE  IF k > v_mem_addr(t)
           THEN ShownBy(t, "erase", k - 1, v, p, Given(t, "BS"), o, x)
           ELSE ShownBy(t, "show", k, v, p, g, o, x)
<1> DEFINE h == Given(t, "BS")
<1>1. PICK d \in Screens, q \in Seq(Plain) :
          Drawn(t, "test", k, v, p, h, d) /\ ToPrint("test", o, q) /\ LayoutOf(t, x) = AdvanceAll(d, q)
    BY Zenon DEF ShownBy
<1>2. PICK l \in Screens : d = Lay(l, h) /\ Matches(t, k, v, l) /\ p = k
    BY <1>1, Zenon DEF Drawn
<1>3. q = <<>> /\ Tail(o) \in Seq(Char)
    <2>1. Head(o) \notin Plain
        BY DEF Plain
    <2> QED BY <1>1, <2>1, NotInPrompt
<1>4. Prompt(t) \in Seq(Char)
    BY PromptType
<1>5. d = Back(l)
    BY <1>2, <1>4, LayGiven
<1>6. ASSUME NEW place \in {"erase", "show"} PROVE ToPrint(place, o, <<>>) /\ <<>> \in Seq(Plain)
    BY <1>3, NothingToPrint
<1> HIDE DEF h
<1>7. CASE k > v_mem_addr(t)
    <2> DEFINE j == k - 1
    <2>1. j = p - 1
        BY <1>2
    <2> HIDE DEF j
    <2>2. Matches(t, p, v, l)
        BY <1>2
    <2>3. Drawn(t, "erase", j, v, p, h, d)
        BY <1>2, <2>1, <2>2, Zenon DEF Drawn
    <2>4. ShownBy(t, "erase", j, v, p, h, o, x)
        <3>1. ToPrint("erase", o, <<>>) /\ <<>> \in Seq(Plain)
            BY <1>6
        <3> QED BY <1>1, <1>3, <2>3, <3>1, Zenon DEF ShownBy
    <2> QED BY <1>7, <2>4, Zenon DEF j, h
<1>8. CASE ~(k > v_mem_addr(t))
    <2>1. Place(l) = 0
        <3>1. k = v_mem_addr(t) + Place(l)
            BY <1>2, Zenon DEF Matches
        <3>2. Place(l) \in Nat /\ v_mem_addr(t) \in Nat
            BY PlaceIsNat, Addresses
        <3> QED BY <1>8, <3>1, <3>2
    <2>2. d = l
        BY <1>5, <2>1, BackScreen
    <2>3. Drawn(t, "show", k, v, p, g, d)
        BY <1>2, <2>2, Zenon DEF Drawn
    <2>4. ShownBy(t, "show", k, v, p, g, o, x)
        <3>1. ToPrint("show", o, <<>>) /\ <<>> \in Seq(Plain)
            BY <1>6
        <3> QED BY <1>1, <1>3, <2>3, <3>1, Zenon DEF ShownBy
    <2> QED BY <1>8, <2>4, Zenon
<1> QED BY <1>7, <1>8

\* v, where the cell before p is blank
Blanked(v, p) == [v EXCEPT ![p - 1] = " "]

LEMMA MatchesBack ==
    ASSUME NEW t \in Tty, NEW v \in [Cells -> Char], NEW l \in Screens,
           NEW k \in Int, Matches(t, k + 1, v, l), v_mem_addr(t) <= k
    PROVE  /\ Matches(t, k, Blanked(v, k + 1), Back(l))
           /\ k < v_mem_addr(t) + ConsoleCells
<1> DEFINE p == Place(l)
           a == v_mem_addr(t)
           w == Back(l).shown
           e == " "
<1>1. a \in Nat /\ ConsoleCells \in Nat /\ p \in Nat /\ p <= ConsoleCells /\ k + 1 = a + p
    BY Addresses, Sizes, PlaceIsNat DEF Matches
<1>2. p > 0 /\ k = a + (p - 1) /\ k < a + ConsoleCells
    <2>1. a <= k
        OBVIOUS
    <2> HIDE DEF p, a
    <2> QED BY <1>1, <2>1
<1>3. Place(Back(l)) = p - 1 /\ w = [l.shown EXCEPT ![p - 1] = e]
    BY <1>2, BackScreen
<1>4. l.shown \in [0 .. ConsoleCells - 1 -> Char]
    BY PlaceIsNat
<1> HIDE DEF e
<1>5. ASSUME NEW i \in 0 .. ConsoleCells - 1
      PROVE  [v EXCEPT ![k] = e][a + i] = w[i]
    <2>1. v[a + i] = l.shown[i]
        BY Zenon DEF Matches
    <2>2. a + i \in Cells
        BY RegionCells, Sizes
    <2> HIDE DEF p, a, w, Cells
    <2>3. i = p - 1 <=> a + i = k
        BY <1>1, <1>2
    <2> QED BY <1>3, <1>4, <2>1, <2>2, <2>3
<1>6. k = a + Place(Back(l))
    BY <1>2, <1>3, Zenon
<1>7. Matches(t, k, [v EXCEPT ![k] = e], Back(l))
    BY <1>5, <1>6, Zenon DEF Matches
<1>8. [v EXCEPT ![k] = e] = Blanked(v, k + 1)
    <2>1. (k + 1) - 1 = k
        OBVIOUS
    <2> QED BY <2>1 DEF Blanked, e
<1> QED BY <1>2, <1>7, <1>8

LEMMA DrawErase ==
    ASSUME PrefixTypes, NEW t \in Tty, NEW k \in Int, NEW v \in [Cells -> Char], NEW p \in Int, NEW x,
           NEW o \in Seq(Char \cup {"show"}), o # <<>>, Head(o) = "BS",
           ShownBy(t, "erase", k, v, p, Given(t, "BS"), o, x), v_mem_addr(t) <= k
    PROVE  /\ \A g : ShownBy(t, "show", k, Blanked(v, p), p, g, o, x)
           /\ p - 1 = k /\ k < v_mem_addr(t) + ConsoleCells
<1> DEFINE h == Given(t, "BS")
           b == v_mem_addr(t)
<1>1. PICK d \in Screens, q \in Seq(Plain) :
          Drawn(t, "erase", k, v, p, h, d) /\ ToPrint("erase", o, q) /\ LayoutOf(t, x) = AdvanceAll(d, q)
    BY Zenon DEF ShownBy
<1>2. PICK l \in Screens : d = Lay(l, h) /\ Matches(t, p, v, l) /\ k = p - 1
    BY <1>1, Zenon DEF Drawn
<1>3. q = <<>> /\ Tail(o) \in Seq(Char)
    <2>1. Head(o) \notin Plain
        BY DEF Plain
    <2> QED BY <1>1, <2>1, NotInPrompt
<1>4. Prompt(t) \in Seq(Char)
    BY PromptType
<1>5. d = Back(l)
    BY <1>2, <1>4, LayGiven
<1>6. p = k + 1 /\ p - 1 = k
    BY <1>2
<1> DEFINE w == Blanked(v, p)
<1>7. Matches(t, k, w, d) /\ k < b + ConsoleCells
    <2>1. Matches(t, k + 1, v, l)
        BY <1>2, <1>6
    <2>2. Matches(t, k, Blanked(v, k + 1), Back(l)) /\ k < b + ConsoleCells
        BY <2>1, MatchesBack
    <2> QED BY <1>5, <1>6, <2>2, Zenon
<1>8. ASSUME NEW g PROVE ShownBy(t, "show", k, w, p, g, o, x)
    <2> HIDE DEF w
    <2>1. ToPrint("show", o, <<>>) /\ <<>> \in Seq(Plain)
        BY <1>3, NothingToPrint
    <2>2. Drawn(t, "show", k, w, p, g, d)
        BY <1>7, Zenon DEF Drawn
    <2> QED BY <1>1, <1>3, <2>1, <2>2, Zenon DEF ShownBy
<1> QED BY <1>6, <1>7, <1>8, Zenon

LEMMA DrawChar ==
    ASSUME NEW t \in Tty, v_mem_limit[t] = ConsoleCells, NEW k \in Int, NEW v, NEW p, NEW g, NEW o, NEW x,
           Head(o) \in Plain, ShownBy(t, "test", k, v, p, Given(t, Head(o)), o, x)
    PROVE  IF Room(t, k) THEN ShownBy(t, "cells", k, v, p, Given(t, Head(o)), o, x)
                         ELSE ShownBy(t, "show", k, v, p, g, o, x)
<1> DEFINE c == Head(o)
           h == Given(t, c)
<1>1. PICK d \in Screens, q \in Seq(Plain) :
          Drawn(t, "test", k, v, p, h, d) /\ ToPrint("test", o, q) /\ LayoutOf(t, x) = AdvanceAll(d, q)
    BY Zenon DEF ShownBy
<1>2. PICK l \in Screens : d = Lay(l, h) /\ Matches(t, k, v, l) /\ p = k
    BY <1>1, Zenon DEF Drawn
<1>3. d = Advance(l, c) /\ c \in Char
    BY <1>2, PlainGiven DEF Plain
<1>4. ToPrint("cells", o, q) /\ ToPrint("show", o, q)
    BY <1>1, Zenon DEF ToPrint
<1> HIDE DEF c, h
<1>5. CASE Room(t, k)
    <2>1. Drawn(t, "cells", k, v, p, h, d)
        BY <1>2, Zenon DEF Drawn
    <2>2. ShownBy(t, "cells", k, v, p, h, o, x)
        BY <1>1, <1>4, <2>1, Zenon DEF ShownBy
    <2> QED BY <1>5, <2>2, Zenon DEF h, c
<1>6. CASE ~Room(t, k)
    <2>1. k = v_mem_addr(t) + Place(l)
        BY <1>2, Zenon DEF Matches
    <2>2. Place(l) \in Nat /\ v_mem_addr(t) \in Nat /\ ConsoleCells \in Nat
        BY PlaceIsNat, Addresses, Sizes
    <2>3. ~(k < v_mem_addr(t) + ConsoleCells)
        BY <1>6, RoomIs
    <2>4. Place(l) >= ConsoleCells
        BY <2>1, <2>2, <2>3
    <2>5. d = l
        BY <1>3, <2>4, AdvanceScreen
    <2>6. Drawn(t, "show", k, v, p, g, d)
        BY <1>2, <2>5, Zenon DEF Drawn
    <2>7. ShownBy(t, "show", k, v, p, g, o, x)
        BY <1>1, <1>4, <2>6, Zenon DEF ShownBy
    <2> QED BY <1>6, <2>7, Zenon
<1> QED BY <1>5, <1>6

LEMMA DrawCells ==
    ASSUME NEW t \in Tty, NEW k \in Int, NEW v \in [Cells -> Char], NEW p, NEW g, NEW o, NEW x,
           Head(o) \in Plain, ShownBy(t, "cells", k, v, p, Given(t, Head(o)), o, x),
           p < v_mem_addr(t) + ConsoleCells
    PROVE  ShownBy(t, "move", k, [v EXCEPT ![p] = Head(o)], p, g, o, x)
<1> DEFINE c == Head(o)
           h == Given(t, c)
           w == [v EXCEPT ![p] = c]
<1>1. PICK d \in Screens, q \in Seq(Plain) :
          Drawn(t, "cells", k, v, p, h, d) /\ ToPrint("cells", o, q) /\ LayoutOf(t, x) = AdvanceAll(d, q)
    BY Zenon DEF ShownBy
<1>2. PICK l \in Screens : d = Lay(l, h) /\ Matches(t, k, v, l) /\ p = k
    BY <1>1, Zenon DEF Drawn
<1>3. d = Advance(l, c) /\ c \in Char
    BY <1>2, PlainGiven DEF Plain
<1>4. ToPrint("move", o, q)
    BY <1>1, Zenon DEF ToPrint
<1>5. Matches(t, k + 1, w, d)
    <2> HIDE DEF c
    <2> QED BY <1>2, <1>3, MatchesNext
<1> HIDE DEF w
<1>6. Drawn(t, "move", k, w, p, g, d)
    BY <1>5, Zenon DEF Drawn
<1>7. ShownBy(t, "move", k, w, p, g, o, x)
    BY <1>1, <1>4, <1>6, Zenon DEF ShownBy
<1> QED BY <1>7 DEF w, c

LEMMA DrawMove ==
    ASSUME NEW t, NEW k, NEW v, NEW p, NEW g, NEW h, NEW o, NEW x, ShownBy(t, "move", k, v, p, g, o, x)
    PROVE  ShownBy(t, "show", k + 1, v, p, h, o, x)
<1>1. PICK d \in Screens, q \in Seq(Plain) :
          Drawn(t, "move", k, v, p, g, d) /\ ToPrint("move", o, q) /\ LayoutOf(t, x) = AdvanceAll(d, q)
    BY Zenon DEF ShownBy
<1>2. Drawn(t, "show", k + 1, v, p, h, d) /\ ToPrint("show", o, q)
    BY <1>1, Zenon DEF Drawn, ToPrint
<1> QED BY <1>1, <1>2, Zenon DEF ShownBy

\* the end of print, and the end of a prompt
LEMMA DrawShow ==
    ASSUME NEW t, NEW k, NEW v, NEW p, NEW g, NEW h, NEW o \in Seq(Char \cup {"show"}), o # <<>>, NEW x,
           NEW place \in {"show", "print"}, place = "print" => Head(o) = "show",
           ShownBy(t, place, k, v, p, g, o, x)
    PROVE  ShownBy(t, "print", k, v, p, h, Tail(o), x)
<1> DEFINE u == Tail(o)
<1>1. PICK d \in Screens, q \in Seq(Plain) :
          Drawn(t, place, k, v, p, g, d) /\ ToPrint(place, o, q) /\ LayoutOf(t, x) = AdvanceAll(d, q)
    BY Zenon DEF ShownBy
<1>2. Drawn(t, "print", k, v, p, h, d)
    BY <1>1, Zenon DEF Drawn
<1>3. ToPrint("print", u, q)
    <2>1. CASE place = "show"
        BY <1>1, <2>1, Zenon DEF ToPrint
    <2>2. CASE place = "print"
        <3>1. PICK r \in Seq(Char) : (q = <<>> /\ o = r) \/ o = Marked(q, r)
            BY <1>1, <2>2, Zenon DEF ToPrint
        <3>2. Head(o) \notin Char /\ Head(o) \notin Plain
            BY <2>2, Characters DEF Plain
        <3>3. o # r
            <4>1. r # <<>> => Head(r) \in Char
                OBVIOUS
            <4> QED BY <3>2, <4>1
        <3>4. q = <<>> /\ Tail(o) = r
            BY <3>1, <3>2, <3>3, MarkedParts
        <3> QED BY <3>4, NothingToPrint
    <2> QED BY <2>1, <2>2
<1> HIDE DEF u
<1>4. ShownBy(t, "print", k, v, p, h, u, x)
    BY <1>1, <1>2, <1>3, Zenon DEF ShownBy
<1> QED BY <1>4 DEF u

(***************************************************************************)
(* Consoles show what their terminals were given to print, but for what    *)
(* the terminal index has yet to print of it (ShownBy); the console of a   *)
(* terminal that is not initialised is blank.                              *)
(***************************************************************************)
ScreenInv ==
    /\ at = "rest" => out = <<>>
    /\ ~torn =>
       /\ \A t \in Tty : v_mem_limit[t] = 0 =>
             text[t] = <<>> /\ \A i \in 0 .. ConsoleCells - 1 : video[v_mem_addr(t) + i] = " "
       /\ \A t \in Tty \ {index} : v_mem_limit[t] # 0 => Matches(t, cursor[t], video, Layout(t))
       /\ at # "init" =>
             ShownBy(index, at, cursor[index], video, p_vmem, Given(index, char), out, text[index])

LEMMA PrintFrame ==
    ASSUME PrintTypes, ConsoleTypes, print_step
    PROVE  /\ at \notin {"init", "rest"} /\ at' \notin {"init", "rest"} /\ out # <<>>
           /\ index' = index /\ v_mem_limit' = v_mem_limit /\ prefix' = prefix /\ torn' = torn
           /\ \A t \in Tty \ {index} : cursor'[t] = cursor[t] /\ text'[t] = text[t]
<1>1. /\ at \notin {"init", "rest"} /\ at' \notin {"init", "rest"} /\ out # <<>>
      /\ index' = index /\ v_mem_limit' = v_mem_limit
    BY DEF print_step, print, print_newline, print_backspace, erase, print_char, cells, move, show,
           goto, consoleVars, PrintTypes
<1>2. prefix' = prefix /\ torn' = torn
    BY DEF print_step, dirVars
<1>3. \A t \in Tty \ {index} : cursor'[t] = cursor[t] /\ text'[t] = text[t]
    <2>1. DOMAIN cursor = Tty /\ DOMAIN text = Tty
        BY DEF ConsoleTypes
    <2> QED BY <2>1 DEF print_step, print, print_newline, print_backspace, erase, print_char, cells, move,
                        show, goto, consoleVars
<1> QED BY <1>1, <1>2, <1>3

\* the terminal that prints
LEMMA ShownStep ==
    ASSUME ScreenInv, CursorInv, ConsoleTypes, PrintTypes, PrefixTypes, OrderInv, print_step, ~torn
    PROVE  /\ ShownBy(index, at', cursor'[index], video', p_vmem', Given(index, char)', out', text'[index])
           /\ erase => p_vmem - 1 \in Region(index)
<1> DEFINE t == index
           k == cursor[index]
           v == video
           p == p_vmem
           o == out
           x == text[index]
           h == Given(index, char)
           G == Given(index, char)'
           c == Head(out)
<1>1. /\ t \in Tty /\ k \in Int /\ v \in [Cells -> Char] /\ p \in Int /\ x \in Seq(Givens)
      /\ o \in Seq(Char \cup {"show"}) /\ o # <<>> /\ cursor \in [Tty -> Int] /\ DOMAIN text = Tty
    <2>1. x \in Seq(Givens)
        <3> HIDE DEF Givens
        <3> QED BY DEF ConsoleTypes, PrintTypes
    <2> QED BY <2>1, PrintFrame DEF ConsoleTypes, PrintTypes
<1>2. at # "init" /\ index' = index /\ prefix' = prefix /\ v_mem_limit[t] = ConsoleCells
    BY PrintFrame, IndexInitialised
<1>3. ShownBy(t, at, k, v, p, h, o, x)
    BY <1>2 DEF ScreenInv
<1>4. h = Given(t, c) /\ char = c
    BY DEF char
<1>5. out' = out => G = h
    BY <1>2, Zenon DEF Given, Prompt, char
<1>6. ASSUME NEW n \in Int, cursor' = [cursor EXCEPT ![index] = n] PROVE cursor'[index] = n
    BY <1>1, <1>6
<1>7. at \in {"test", "cells", "move"} /\ c \notin {"\n", "BS"} => c \in Plain
    <2>1. c \in Char \cup {"show"}
        BY <1>1
    <2> QED BY <1>4, <2>1 DEF PrintTypes, Plain
<1> HIDE DEF t, k, v, p, o, x, h, G, c
<1>8. CASE print
    <2>1. /\ at = "print" /\ c # "show" /\ p_vmem' = k /\ at' = "test" /\ out' = out /\ cursor' = cursor /\ video' = v
          /\ text' = [text EXCEPT ![index] = IF InPrompt THEN @ ELSE Append(@, h)]
        BY <1>4, <1>8 DEF print, k, v, h, c
    <2>2. text'[index] = IF InPrompt THEN x ELSE Append(x, h)
        BY <1>1, <2>1 DEF x, t
    <2>3. ShownBy(t, "test", k, v, k, h, o, IF \E i \in DOMAIN o : o[i] = "show" THEN x ELSE Append(x, h))
        <3>1. ShownBy(t, "print", k, v, p, h, o, x)
            BY <1>3, <2>1
        <3>2. Head(o) # "show"
            BY <2>1 DEF o, c
        <3> QED BY <1>1, <1>4, <3>1, <3>2, DrawPrint DEF c, o
    <2>4. ShownBy(t, "test", k, v, k, h, o, text'[index])
        BY <2>2, <2>3, Zenon DEF InPrompt, o
    <2>5. ~erase
        BY <2>1 DEF erase
    <2> QED BY <1>5, <2>1, <2>4, <2>5, Zenon DEF t, k, o, G
<1>9. CASE print_newline
    <2>1. /\ at = "test" /\ c = "\n" /\ p_vmem' = p /\ video' = v /\ text' = text
          /\ IF LineRoom(t, k)
             THEN /\ cursor' = [cursor EXCEPT ![index] = next_line(t, k)]
                  /\ out' = Marked(Prompt(t), Tail(o)) /\ at' = "print"
             ELSE at' = "show" /\ cursor' = cursor /\ out' = o
        BY <1>4, <1>9 DEF print_newline, p, v, c, t, k, o, Marked
    <2>2. ShownBy(t, "test", k, v, p, Given(t, "\n"), o, x)
        BY <1>3, <1>4, <2>1
    <2>3. Head(o) = "\n"
        BY <2>1 DEF o, c
    <2>4. IF LineRoom(t, k)
          THEN ShownBy(t, "print", next_line(t, k), v, p, G, Marked(Prompt(t), Tail(o)), x)
          ELSE ShownBy(t, "show", k, v, p, G, o, x)
        BY <1>1, <1>2, <2>2, <2>3, DrawNewline
    <2>5. CASE LineRoom(t, k)
        <3>1. next_line(t, k) \in Int
            BY <1>1, NextLineInt
        <3>2. cursor'[index] = next_line(t, k)
            BY <1>6, <2>1, <2>5, <3>1
        <3>3. ShownBy(t, at', cursor'[index], video', p_vmem', G, out', text'[index])
            BY <2>1, <2>4, <2>5, <3>2, Zenon DEF x
        <3> QED BY <2>1, <3>3, Zenon DEF erase, t, G
    <2>6. CASE ~LineRoom(t, k)
        <3>1. ShownBy(t, at', cursor'[index], video', p_vmem', G, out', text'[index])
            BY <2>1, <2>4, <2>6, Zenon DEF x, k
        <3> QED BY <2>1, <3>1, Zenon DEF erase, t, G
    <2> QED BY <2>5, <2>6
<1>10. CASE print_backspace
    <2>1. /\ at = "test" /\ c = "BS" /\ p_vmem' = p /\ video' = v /\ text' = text /\ out' = out
          /\ IF k > v_mem_addr(t)
             THEN cursor' = [cursor EXCEPT ![index] = k - 1] /\ at' = "erase"
             ELSE at' = "show" /\ cursor' = cursor
        BY <1>4, <1>10 DEF print_backspace, goto, p, v, c, t, k
    <2>2. ShownBy(t, "test", k, v, p, Given(t, "BS"), o, x)
        BY <1>3, <1>4, <2>1
    <2>3. Head(o) = "BS" /\ G = Given(t, "BS")
        BY <1>4, <1>5, <2>1 DEF o, c
    <2>4. IF k > v_mem_addr(t)
          THEN ShownBy(t, "erase", k - 1, v, p, G, o, x)
          ELSE ShownBy(t, "show", k, v, p, G, o, x)
        BY <1>1, <2>2, <2>3, DrawBackspace
    <2>5. CASE k > v_mem_addr(t)
        <3>1. k - 1 \in Int
            BY <1>1
        <3>2. cursor'[index] = k - 1
            BY <1>6, <2>1, <2>5, <3>1
        <3>3. ShownBy(t, at', cursor'[index], video', p_vmem', G, out', text'[index])
            BY <2>1, <2>4, <2>5, <3>2, Zenon DEF x, o
        <3> QED BY <2>1, <3>3, Zenon DEF erase, t, G
    <2>6. CASE ~(k > v_mem_addr(t))
        <3>1. ShownBy(t, at', cursor'[index], video', p_vmem', G, out', text'[index])
            BY <2>1, <2>4, <2>6, Zenon DEF x, k, o
        <3> QED BY <2>1, <3>1, Zenon DEF erase, t, G
    <2> QED BY <2>5, <2>6
<1>11. CASE erase
    <2>1. /\ at = "erase" /\ video' = Blanked(v, p) /\ at' = "show" /\ p_vmem' = p /\ text' = text
          /\ out' = out /\ cursor' = cursor
        BY <1>11 DEF erase, goto, p, v, Blanked
    <2>2. c = "BS"
        BY <1>4, <2>1 DEF PrintTypes
    <2>3. ShownBy(t, "erase", k, v, p, Given(t, "BS"), o, x)
        BY <1>3, <1>4, <2>1, <2>2
    <2>4. Head(o) = "BS"
        BY <2>2 DEF o, c
    <2>5. v_mem_addr(t) <= k
        <3>1. v_mem_limit[t] # 0
            BY <1>2, Sizes
        <3> QED BY <1>1, <3>1 DEF CursorInv, t, k
    <2>6. ShownBy(t, "show", k, Blanked(v, p), p, G, o, x) /\ p - 1 = k /\ k < v_mem_addr(t) + ConsoleCells
        <3>1. t \in Tty /\ k \in Int /\ v \in [Cells -> Char] /\ p \in Int
              /\ o \in Seq(Char \cup {"show"}) /\ o # <<>>
            BY <1>1
        <3>2. /\ \A g : ShownBy(t, "show", k, Blanked(v, p), p, g, o, x)
              /\ p - 1 = k /\ k < v_mem_addr(t) + ConsoleCells
            BY <2>3, <2>4, <2>5, <3>1, DrawErase
        <3> QED BY <3>2
    <2>7. p - 1 \in Region(t)
        BY <1>1, <2>5, <2>6, InRegion
    <2>8. ShownBy(t, at', cursor'[index], video', p_vmem', G, out', text'[index])
        BY <2>1, <2>6, Zenon DEF x, k, o
    <2> QED BY <2>7, <2>8, Zenon DEF t, p, G
<1>12. CASE print_char
    <2>1. /\ at = "test" /\ c \notin {"\n", "BS"} /\ p_vmem' = p /\ video' = v /\ text' = text
          /\ out' = out /\ cursor' = cursor
          /\ at' = IF Room(t, k) THEN "cells" ELSE "show"
        BY <1>4, <1>12 DEF print_char, goto, p, v, c, t, k, consoleVars
    <2>2. Head(o) \in Plain /\ ShownBy(t, "test", k, v, p, Given(t, Head(o)), o, x) /\ G = Given(t, Head(o))
        BY <1>3, <1>4, <1>5, <1>7, <2>1 DEF o, c
    <2>3. IF Room(t, k) THEN ShownBy(t, "cells", k, v, p, G, o, x) ELSE ShownBy(t, "show", k, v, p, G, o, x)
        BY <1>1, <1>2, <2>2, DrawChar
    <2>4. ShownBy(t, at', cursor'[index], video', p_vmem', G, out', text'[index])
        BY <2>1, <2>3, Zenon DEF x, k, o
    <2> QED BY <2>1, <2>4, Zenon DEF erase, t, G
<1>13. CASE cells
    <2>1. /\ at = "cells" /\ video' = [v EXCEPT ![p] = c] /\ at' = "move" /\ p_vmem' = p /\ text' = text
          /\ out' = out /\ cursor' = cursor
        BY <1>4, <1>13 DEF cells, goto, p, v
    <2>2. Head(o) \in Plain /\ Head(o) = c /\ ShownBy(t, "cells", k, v, p, Given(t, Head(o)), o, x)
        <3>1. c \notin {"\n", "BS"}
            BY <1>4, <2>1 DEF PrintTypes
        <3> QED BY <1>3, <1>4, <1>7, <2>1, <3>1 DEF o, c
    <2>3. p < v_mem_addr(t) + ConsoleCells
        BY <2>1 DEF CursorInv, p, t
    <2>4. ShownBy(t, "move", k, [v EXCEPT ![p] = c], p, G, o, x)
        BY <1>1, <2>2, <2>3, DrawCells
    <2>5. ShownBy(t, at', cursor'[index], video', p_vmem', G, out', text'[index])
        BY <2>1, <2>4, Zenon DEF x, k, o
    <2> QED BY <2>1, <2>5, Zenon DEF erase, t, G
<1>14. CASE move
    <2>1. /\ at = "move" /\ video' = v /\ at' = "show" /\ p_vmem' = p /\ text' = text
          /\ out' = out /\ cursor' = [cursor EXCEPT ![index] = k + 1]
        BY <1>14 DEF move, goto, p, v, k
    <2>2. ShownBy(t, "show", k + 1, v, p, G, o, x)
        BY <1>3, <2>1, DrawMove
    <2>3. k + 1 \in Int
        BY <1>1
    <2>4. cursor'[index] = k + 1
        BY <1>6, <2>1, <2>3
    <2>5. ShownBy(t, at', cursor'[index], video', p_vmem', G, out', text'[index])
        BY <2>1, <2>2, <2>4, Zenon DEF x, o
    <2> QED BY <2>1, <2>5, Zenon DEF erase, t, G
<1>15. CASE show
    <2>1. /\ at \in {"show", "print"} /\ (at = "print" => c = "show")
          /\ video' = v /\ at' = "print" /\ p_vmem' = p /\ text' = text /\ out' = Tail(o) /\ cursor' = cursor
        BY <1>4, <1>15 DEF show, consoleVars, p, v, o
    <2>2. at = "print" => Head(o) = "show"
        BY <2>1 DEF o, c
    <2>3. ShownBy(t, "print", k, v, p, G, Tail(o), x)
        BY <1>1, <1>3, <2>1, <2>2, DrawShow
    <2>4. ShownBy(t, at', cursor'[index], video', p_vmem', G, out', text'[index])
        BY <2>1, <2>3, Zenon DEF x, k
    <2>5. ~erase
        BY <2>1 DEF erase
    <2> QED BY <2>4, <2>5, Zenon DEF t, G
<1> QED BY <1>8, <1>9, <1>10, <1>11, <1>12, <1>13, <1>14, <1>15 DEF print_step

LEMMA MatchesFrame ==
    ASSUME NEW t \in Tty, NEW v, NEW w, \A i \in 0 .. ConsoleCells - 1 : w[v_mem_addr(t) + i] = v[v_mem_addr(t) + i]
    PROVE  \A k, l : Matches(t, k, v, l) => Matches(t, k, w, l)
BY Zenon DEF Matches

\* the cells of one console are not in the region of another
LEMMA OtherCells ==
    ASSUME NEW t \in Tty, NEW u \in Tty, t # u, NEW i \in 0 .. ConsoleCells - 1
    PROVE  /\ v_mem_addr(t) + i \in Cells /\ v_mem_addr(t) + i \notin Region(u)
           /\ v_mem_addr(t) + i \in Int
<1>1. i \in 0 .. ConsoleCells /\ v_mem_addr(t) \in Nat /\ ConsoleCells \in Nat
    BY Sizes, Addresses
<1>2. v_mem_addr(t) + i \in Cells /\ v_mem_addr(t) + i \in Int
    BY <1>1, RegionCells
<1>3. v_mem_addr(t) <= v_mem_addr(t) + i /\ v_mem_addr(t) + i < v_mem_addr(t) + ConsoleCells
    BY <1>1
<1>4. v_mem_addr(t) + i \in Region(t)
    BY <1>2, <1>3, InRegion
<1> QED BY <1>2, <1>4, RegionsApart

LEMMA PrintElsewhere ==
    ASSUME ScreenInv, CursorInv, ConsoleTypes, PrintTypes, PrefixTypes, OrderInv, print_step, ~torn,
           NEW t \in Tty \ {index}, NEW i \in 0 .. ConsoleCells - 1
    PROVE  video'[v_mem_addr(t) + i] = video[v_mem_addr(t) + i]
<1> DEFINE c == v_mem_addr(t) + i
<1>1. index \in Tty /\ t \in Tty /\ t # index /\ video \in [Cells -> Char] /\ p_vmem \in Int
    BY DEF ConsoleTypes, PrintTypes
<1>2. c \in Cells /\ c \notin Region(index)
    BY <1>1, OtherCells
<1> HIDE DEF c
<1>3. CASE erase
    <2>1. p_vmem - 1 \in Region(index)
        BY <1>3, ShownStep
    <2>2. video' = Blanked(video, p_vmem)
        BY <1>3 DEF erase, Blanked
    <2>3. Blanked(video, p_vmem)[c] = video[c]
        BY <1>1, <1>2, <2>1 DEF Blanked
    <2> QED BY <2>2, <2>3 DEF c
<1>4. CASE cells
    <2>1. video' = [video EXCEPT ![p_vmem] = char] /\ at = "cells"
        BY <1>4 DEF cells
    <2>2. p_vmem \in Region(index)
        BY <1>1, <2>1, InRegion DEF CursorInv
    <2>3. video'[c] = video[c]
        BY <1>1, <1>2, <2>1, <2>2
    <2> QED BY <2>3 DEF c
<1>5. CASE video' = video
    BY <1>5
<1> QED BY <1>3, <1>4, <1>5
    DEF print_step, print, print_newline, print_backspace, print_char, move, show, consoleVars

LEMMA RestStep ==
    ASSUME ScreenInv, PrintTypes, ShowTypes, LineTypes, ConsoleTypes, [Next]_vars
    PROVE  at' = "rest" => out' = <<>>
<1>1. CASE print_step
    BY <1>1, PrintFrame
<1>2. CASE init
    BY <1>2 DEF init, prints
<1>3. CASE printed
    BY <1>3 DEF printed
<1>4. CASE type
    <2>1. PICK c \in Char : at = "rest" /\ tty_do_write(current_console, c)
        BY <1>4, KeyTyped
    <2>2. (at' = at /\ out' = out) \/ at' = "print"
        BY <2>1 DEF tty_do_write, tty_command, root, cd, ls, other_command, prints
    <2> QED BY <2>1, <2>2 DEF ScreenInv
<1>5. CASE at' = at /\ out' = out
    BY <1>5 DEF ScreenInv
<1> QED BY <1>1, <1>2, <1>3, <1>4, <1>5, Frames

\* what the terminal prints is done
LEMMA AllShown ==
    ASSUME ScreenInv, ~torn, ConsoleTypes, PrintTypes, at \in {"print", "rest", "show"},
           ~InPrompt
    PROVE  Matches(index, cursor[index], video, Layout(index))
<1>1. ShownBy(index, at, cursor[index], video, p_vmem, Given(index, char), out, text[index])
    BY DEF ScreenInv
<1>2. PICK d \in Screens, q \in Seq(Plain) :
          Drawn(index, at, cursor[index], video, p_vmem, Given(index, char), d)
          /\ ToPrint(at, out, q) /\ LayoutOf(index, text[index]) = AdvanceAll(d, q)
    BY <1>1, Zenon DEF ShownBy
<1>3. Matches(index, cursor[index], video, d)
    BY <1>2, Zenon DEF Drawn
<1>4. q = <<>>
    <2>1. PICK r \in Seq(Char) :
              LET left == IF at \in {"print", "rest"} THEN out ELSE Tail(out) IN
              (q = <<>> /\ left = r) \/ left = Marked(q, r)
        BY <1>2, Zenon DEF ToPrint
    <2>2. \A i \in DOMAIN out : out[i] # "show"
        BY DEF InPrompt
    <2>3. \E i \in DOMAIN Marked(q, r) : Marked(q, r)[i] = "show"
        BY MarkedParts
    <2>4. CASE at \in {"print", "rest"}
        BY <2>1, <2>2, <2>3, <2>4
    <2>5. CASE at = "show"
        <3>1. out \in Seq(Char \cup {"show"}) /\ out # <<>>
            BY <2>5 DEF PrintTypes
        <3>2. \A i \in DOMAIN Tail(out) : i + 1 \in DOMAIN out /\ Tail(out)[i] = out[i + 1]
            BY <3>1
        <3>3. \A i \in DOMAIN Tail(out) : Tail(out)[i] # "show"
            BY <2>2, <3>2
        <3> QED BY <2>1, <2>3, <2>5, <3>3
    <2> QED BY <2>4, <2>5
<1>5. LayoutOf(index, text[index]) = d
    BY <1>2, <1>4, AdvanceNone
<1> QED BY <1>3, <1>5 DEF Layout

LEMMA LayoutScreen ==
    ASSUME NEW t \in Tty, NEW x \in Seq(Givens)
    PROVE  LayoutOf(t, x) \in Screens
<1> DEFINE n == Len(x)
<1>1. n \in 0 .. n
    OBVIOUS
<1>2. PICK f \in [0 .. n -> Screens] : f[n] = LayoutOf(t, x)
    BY LayoutAlong
<1> HIDE DEF n
<1> QED BY <1>1, <1>2

\* a screen that shows its text, between two characters
LEMMA Settled ==
    ASSUME NEW t \in Tty, NEW k, NEW v, NEW x \in Seq(Givens), Matches(t, k, v, LayoutOf(t, x)),
           NEW place \in {"print", "rest", "show"}, NEW o, NEW r \in Seq(Char),
           place \in {"print", "rest"} => o = r, place = "show" => Tail(o) = r
    PROVE  \A p, g : ShownBy(t, place, k, v, p, g, o, x)
<1> DEFINE d == LayoutOf(t, x)
<1>1. d \in Screens
    BY LayoutScreen
<1>2. d = AdvanceAll(d, <<>>)
    BY <1>1, AdvanceNone
<1> HIDE DEF d
<1>3. ASSUME NEW p, NEW g PROVE Drawn(t, place, k, v, p, g, d)
    BY Zenon DEF Drawn, d
<1>4. ToPrint(place, o, <<>>) /\ <<>> \in Seq(Plain)
    BY NothingToPrint
<1> QED BY <1>1, <1>2, <1>3, <1>4, Zenon DEF ShownBy, d

LEMMA NoPrompt ==
    ASSUME NEW o \in Seq(Char \cup {"show"}), \A i \in DOMAIN o : o[i] # "show"
    PROVE  o \in Seq(Char) /\ (o # <<>> => Tail(o) \in Seq(Char))
<1>1. \A i \in 1 .. Len(o) : o[i] \in Char /\ Len(o) \in Nat /\ DOMAIN o = 1 .. Len(o)
    OBVIOUS
<1>2. o \in Seq(Char)
    <2>1. o = [i \in 1 .. Len(o) |-> o[i]] /\ Len(o) \in Nat
        OBVIOUS
    <2> QED BY <1>1, <2>1, IsASeq
<1> QED BY <1>2

\* a write between two prints
LEMMA ScreenWriteStep ==
    ASSUME ScreenInv, CursorInv, ConsoleTypes, PrintTypes, PrefixTypes, OrderInv, write, ~torn'
    PROVE  /\ \A t \in Tty : v_mem_limit[t] = 0 =>
                 text'[t] = <<>> /\ \A i \in 0 .. ConsoleCells - 1 : video'[v_mem_addr(t) + i] = " "
           /\ \A t \in Tty \ {index} : v_mem_limit[t] # 0 => Matches(t, cursor'[t], video', LayoutOf(t, text'[t]))
           /\ at # "init" => \A p, g : ShownBy(index, at, cursor'[index], video', p, g, out, text'[index])
<1>1. /\ ~torn /\ ~InPrint /\ v_mem_limit[0] # 0 /\ 0 \in Tty /\ index \in Tty /\ text' \in [Tty -> Seq(Givens)]
    <2>1. PICK w \in Texts : LET s == Box(cursor[0], video, text[0])
                                 r == PrintedAll(s, w) IN
              /\ r \in Boxes /\ text' = [text EXCEPT ![0] = r.text]
              /\ torn' = (torn \/ InPrint \/ v_mem_limit[0] = 0)
        BY WriteIs, Zenon
    <2> DEFINE y == PrintedAll(Box(cursor[0], video, text[0]), w).text
               S == Seq(Givens)
    <2>2. y \in S /\ text \in [Tty -> S] /\ text' = [text EXCEPT ![0] = y]
        BY <2>1, BoxParts DEF ConsoleTypes
    <2> HIDE DEF y, S
    <2>3. text' \in [Tty -> S]
        BY <2>2
    <2> QED BY <2>1, <2>3, Sizes DEF PrintTypes, S
<1>2. /\ \A t \in Tty \ {0} : cursor'[t] = cursor[t] /\ text'[t] = text[t]
      /\ \A i \in Cells : i < v_mem_addr(0) \/ i >= v_mem_addr(0) + ConsoleCells => video'[i] = video[i]
      /\ Matches(0, cursor[0], video, Layout(0)) => Matches(0, cursor'[0], video', LayoutOf(0, text'[0]))
    BY <1>1, WriteKeeps, SMTT(30)
<1>3. ASSUME NEW t \in Tty \ {0}, NEW i \in 0 .. ConsoleCells - 1
      PROVE  video'[v_mem_addr(t) + i] = video[v_mem_addr(t) + i]
    <2> DEFINE c == v_mem_addr(t) + i
    <2>1. c \in Cells /\ c \in Int /\ c \notin Region(0)
        BY <1>1, OtherCells
    <2> HIDE DEF c
    <2>2. v_mem_addr(0) \in Int /\ ConsoleCells \in Int
        BY FirstAddress, Sizes
    <2>3. c < v_mem_addr(0) \/ c >= v_mem_addr(0) + ConsoleCells
        BY <1>1, <2>1, <2>2, InRegion
    <2> QED BY <1>2, <2>1, <2>3 DEF c
<1>4. ASSUME NEW t \in Tty, Matches(t, cursor[t], video, Layout(t))
      PROVE  Matches(t, cursor'[t], video', LayoutOf(t, text'[t]))
    <2>1. CASE t = 0
        BY <1>2, <1>4, <2>1
    <2>2. CASE t # 0
        <3>1. Matches(t, cursor[t], video', Layout(t))
            BY <1>3, <1>4, <2>2, MatchesFrame
        <3>2. cursor'[t] = cursor[t] /\ text'[t] = text[t]
            BY <1>2, <2>2
        <3> QED BY <3>1, <3>2, Zenon DEF Layout
    <2> QED BY <2>1, <2>2
<1>5. ASSUME NEW t \in Tty, v_mem_limit[t] = 0
      PROVE  text'[t] = <<>> /\ \A i \in 0 .. ConsoleCells - 1 : video'[v_mem_addr(t) + i] = " "
    <2>1. t # 0
        BY <1>1, <1>5
    <2>2. text[t] = <<>> /\ \A i \in 0 .. ConsoleCells - 1 : video[v_mem_addr(t) + i] = " "
        BY <1>1, <1>5 DEF ScreenInv
    <2>3. text'[t] = text[t]
        BY <1>2, <2>1
    <2>4. t \in Tty \ {0}
        BY <2>1
    <2> QED BY <1>3, <2>2, <2>3, <2>4, Zenon
<1>6. ASSUME NEW t \in Tty \ {index}, v_mem_limit[t] # 0
      PROVE  Matches(t, cursor'[t], video', LayoutOf(t, text'[t]))
    BY <1>1, <1>4, <1>6 DEF ScreenInv
<1>7. ASSUME at # "init"
      PROVE  \A p, g : ShownBy(index, at, cursor'[index], video', p, g, out, text'[index])
    <2>1. at \in {"print", "rest", "show"} /\ ~InPrompt
        BY <1>1, <1>7 DEF InPrint, PrintTypes
    <2>2. Matches(index, cursor'[index], video', LayoutOf(index, text'[index]))
        BY <1>1, <1>4, <2>1, AllShown
    <2>3. out \in Seq(Char \cup {"show"}) /\ (at = "show" => out # <<>>)
        BY DEF PrintTypes
    <2>4. out \in Seq(Char) /\ (at = "show" => Tail(out) \in Seq(Char))
        BY <2>1, <2>3, NoPrompt DEF InPrompt
    <2>5. text'[index] \in Seq(Givens)
        <3> HIDE DEF Givens
        <3> QED BY <1>1
    <2>6. CASE at = "show"
        BY <1>1, <2>2, <2>4, <2>5, <2>6, Settled
    <2>7. CASE at \in {"print", "rest"}
        BY <1>1, <2>2, <2>4, <2>5, <2>7, Settled
    <2> QED BY <2>1, <2>6, <2>7
<1> QED BY <1>5, <1>6, <1>7

LEMMA TornStep ==
    ASSUME [Next]_vars
    PROVE  write \/ torn' = torn
BY DEF Next, task_tty, print_step, init, printed, type, select_console, vars

LEMMA FirstCursor ==
    ASSUME NEW t \in Tty, NEW b \in Screens, Place(b) = IF t = 0 THEN disp_pos ELSE 0
    PROVE  (IF t = 0 THEN disp_pos ELSE v_mem_addr(t)) = v_mem_addr(t) + Place(b)
<1>1. v_mem_addr(t) \in Nat /\ v_mem_addr(0) = 0 /\ disp_pos \in Int
    BY Addresses, FirstAddress, SizesAssumption
<1> DEFINE p == Place(b)
           a == v_mem_addr(t)
<1>2. a \in Nat /\ (t = 0 => a = 0) /\ p = IF t = 0 THEN disp_pos ELSE 0
    BY <1>1
<1> HIDE DEF p, a
<1>3. (IF t = 0 THEN disp_pos ELSE a) = a + p
    BY <1>1, <1>2
<1> QED BY <1>3 DEF a, p

\* the console that a terminal gets when it is initialised is blank
LEMMA BlankShown ==
    ASSUME NEW t \in Tty, NEW v, \A i \in 0 .. ConsoleCells - 1 : v[v_mem_addr(t) + i] = " "
    PROVE  Matches(t, IF t = 0 THEN disp_pos ELSE v_mem_addr(t), v, LayoutOf(t, <<>>))
<1>1. /\ Place(Blank(t)) = (IF t = 0 THEN disp_pos ELSE 0) /\ LayoutOf(t, <<>>) = Blank(t)
      /\ \A i \in 0 .. ConsoleCells - 1 : Blank(t).shown[i] = " "
    BY BlankScreen, LayoutEmpty
<1>2. (IF t = 0 THEN disp_pos ELSE v_mem_addr(t)) = v_mem_addr(t) + Place(Blank(t))
    BY <1>1, BlankScreen, FirstCursor
<1>3. \A i \in 0 .. ConsoleCells - 1 : v[v_mem_addr(t) + i] = Blank(t).shown[i]
    BY <1>1, Zenon
<1> QED BY <1>1, <1>2, <1>3, Zenon DEF Matches

LEMMA ScreenStep ==
    ASSUME ScreenInv, CursorInv, LineTypes, PrefixTypes, DirectoryTypes, ConsoleTypes, PrintTypes, ShowTypes,
           OrderInv, [Next]_vars
    PROVE  ScreenInv'
<1>1. at' = "rest" => out' = <<>>
    BY RestStep
<1>2. SUFFICES ASSUME ~torn'
               PROVE  /\ \A t \in Tty : v_mem_limit'[t] = 0 =>
                            text'[t] = <<>> /\ \A i \in 0 .. ConsoleCells - 1 : video'[v_mem_addr(t) + i] = " "
                      /\ \A t \in Tty \ {index'} : v_mem_limit'[t] # 0 =>
                            Matches(t, cursor'[t], video', LayoutOf(t, text'[t]))
                      /\ at' # "init" =>
                            ShownBy(index', at', cursor'[index'], video', p_vmem', Given(index, char)', out', text'[index'])
    BY <1>1 DEF ScreenInv, Layout
<1>3. ~torn /\ index \in Tty
    <2>1. torn' => torn' = torn \/ write
        BY TornStep
    <2>2. write => (torn => torn')
        BY DEF write
    <2> QED BY <1>2, <2>2, TornStep DEF PrintTypes
<1>4. /\ \A t \in Tty : v_mem_limit[t] = 0 =>
             text[t] = <<>> /\ \A i \in 0 .. ConsoleCells - 1 : video[v_mem_addr(t) + i] = " "
      /\ \A t \in Tty \ {index} : v_mem_limit[t] # 0 => Matches(t, cursor[t], video, LayoutOf(t, text[t]))
      /\ at # "init" =>
             ShownBy(index, at, cursor[index], video, p_vmem, Given(index, char), out, text[index])
    BY <1>3 DEF ScreenInv, Layout
<1>5. \A t \in Tty : text[t] \in Seq(Givens)
    <2> HIDE DEF Givens
    <2> QED BY DEF ConsoleTypes
<1>6. CASE print_step
    <2>1. /\ index' = index /\ v_mem_limit' = v_mem_limit
          /\ \A t \in Tty \ {index} : cursor'[t] = cursor[t] /\ text'[t] = text[t]
        BY <1>6, PrintFrame
    <2>2. ShownBy(index, at', cursor'[index], video', p_vmem', Given(index, char)', out', text'[index])
        BY <1>3, <1>6, ShownStep
    <2>3. ASSUME NEW t \in Tty \ {index}
          PROVE  \A i \in 0 .. ConsoleCells - 1 : video'[v_mem_addr(t) + i] = video[v_mem_addr(t) + i]
        BY <1>3, <1>6, PrintElsewhere
    <2>4. ASSUME NEW t \in Tty, v_mem_limit'[t] = 0
          PROVE  text'[t] = <<>> /\ \A i \in 0 .. ConsoleCells - 1 : video'[v_mem_addr(t) + i] = " "
        <3>1. v_mem_limit[index] = ConsoleCells /\ ConsoleCells # 0
            BY <1>6, PrintFrame, IndexInitialised, Sizes
        <3>2. t \in Tty \ {index} /\ v_mem_limit[t] = 0
            BY <2>1, <2>4, <3>1
        <3>3. text'[t] = <<>> /\ \A i \in 0 .. ConsoleCells - 1 : video[v_mem_addr(t) + i] = " "
            BY <1>4, <2>1, <3>2, Zenon
        <3>4. \A i \in 0 .. ConsoleCells - 1 : video'[v_mem_addr(t) + i] = video[v_mem_addr(t) + i]
            BY <2>3, <3>2
        <3> QED BY <3>3, <3>4, Zenon
    <2>5. ASSUME NEW t \in Tty \ {index'}, v_mem_limit'[t] # 0
          PROVE  Matches(t, cursor'[t], video', LayoutOf(t, text'[t]))
        <3>1. t \in Tty \ {index} /\ t \in Tty /\ v_mem_limit[t] # 0
            BY <2>1, <2>5
        <3>2. Matches(t, cursor[t], video', LayoutOf(t, text[t]))
            BY <1>4, <2>3, <3>1, MatchesFrame
        <3> QED BY <2>1, <3>1, <3>2, Zenon
    <2> QED BY <2>1, <2>2, <2>4, <2>5, Zenon
<1>7. CASE write
    <2>1. at' = at /\ out' = out /\ index' = index /\ v_mem_limit' = v_mem_limit
        BY <1>7 DEF write, printVars
    <2>2. /\ \A t \in Tty : v_mem_limit[t] = 0 =>
                 text'[t] = <<>> /\ \A i \in 0 .. ConsoleCells - 1 : video'[v_mem_addr(t) + i] = " "
          /\ \A t \in Tty \ {index} : v_mem_limit[t] # 0 => Matches(t, cursor'[t], video', LayoutOf(t, text'[t]))
          /\ at # "init" => \A p, g : ShownBy(index, at, cursor'[index], video', p, g, out, text'[index])
        BY <1>2, <1>7, ScreenWriteStep
    <2> QED BY <2>1, <2>2, Zenon
<1>8. CASE init
    <2>1. /\ at = "init" /\ at' = "print" /\ index' = index /\ video' = video /\ text' = text
          /\ v_mem_limit' = [v_mem_limit EXCEPT ![index] = ConsoleCells]
          /\ cursor' = [cursor EXCEPT ![index] = IF index = 0 THEN disp_pos ELSE v_mem_addr(index)]
          /\ out' = <<digit[index + 1], ">">>
        BY <1>8 DEF init, prints
    <2> DEFINE d == digit[index + 1]
               k == IF index = 0 THEN disp_pos ELSE v_mem_addr(index)
    <2>2. out' \in Seq(Char)
        <3>1. d \in Char /\ ">" \in Char
            BY <1>3, Characters DEF Plain
        <3> HIDE DEF d
        <3>2. <<d, ">">> \in Seq(Char)
            BY <3>1
        <3> QED BY <2>1, <3>2 DEF d
    <2>3. v_mem_limit[index] = 0
        BY <2>1 DEF OrderInv
    <2>4. text[index] = <<>> /\ \A i \in 0 .. ConsoleCells - 1 : video[v_mem_addr(index) + i] = " "
        BY <1>3, <1>4, <2>3
    <2>5. Matches(index, k, video, LayoutOf(index, text[index]))
        BY <1>3, <2>4, BlankShown
    <2>6. \A p, g : ShownBy(index, "print", k, video, p, g, out', text[index])
        BY <1>3, <1>5, <2>2, <2>5, Settled
    <2> HIDE DEF k, d
    <2>7. cursor'[index] = k /\ \A t \in Tty \ {index} : cursor'[t] = cursor[t]
        BY <1>3, <2>1 DEF ConsoleTypes, k
    <2>8. ConsoleCells # 0 /\ v_mem_limit'[index] = ConsoleCells /\ \A t \in Tty \ {index} : v_mem_limit'[t] = v_mem_limit[t]
        BY <1>3, <2>1, Sizes DEF ConsoleTypes
    <2>9. ASSUME NEW t \in Tty, v_mem_limit'[t] = 0 PROVE v_mem_limit[t] = 0
        BY <2>8, <2>9
    <2> QED BY <1>4, <2>1, <2>6, <2>7, <2>8, <2>9, Zenon
<1>9. CASE printed
    <2>1. /\ at = "print" /\ out = <<>> /\ out' = out /\ video' = video /\ text' = text /\ cursor' = cursor
          /\ v_mem_limit' = v_mem_limit
          /\ (at' = "rest" /\ index' = index) \/ at' = "init"
        BY <1>9 DEF printed, consoleVars
    <2>2. Matches(index, cursor[index], video, LayoutOf(index, text[index]))
        BY <1>3, <2>1, AllShown DEF InPrompt, Layout
    <2>3. <<>> \in Seq(Char)
        OBVIOUS
    <2>4. \A p, g : ShownBy(index, "rest", cursor[index], video, p, g, <<>>, text[index])
        BY <1>3, <1>5, <2>2, <2>3, Settled
    <2> QED BY <1>4, <2>1, <2>2, <2>4, Zenon
<1>10. CASE type
    <2>1. at = "rest" /\ index' = current_console /\ index' \in Tty /\ video' = video /\ text' = text /\ cursor' = cursor
          /\ v_mem_limit' = v_mem_limit
        <3>1. \E c \in Char : at = "rest" /\ tty_do_write(current_console, c) /\ UNCHANGED consoleVars
            BY <1>10, KeyTyped
        <3> QED BY <3>1 DEF tty_do_write, consoleVars, ShowTypes
    <2>2. out = <<>> /\ \A t \in Tty : v_mem_limit[t] # 0
        BY <2>1 DEF ScreenInv, OrderInv, Initialised
    <2>3. Matches(index, cursor[index], video, LayoutOf(index, text[index]))
        BY <1>3, <2>1, <2>2, AllShown DEF InPrompt, Layout
    <2>4. \A t \in Tty : Matches(t, cursor[t], video, LayoutOf(t, text[t]))
        BY <1>3, <1>4, <2>2, <2>3
    <2>5. PICK r \in Seq(Char), place \in {"rest", "print"} : at' = place /\ out' = r
        <3>1. (at' = at /\ out' = out) \/ \E s \in Seq(Char) : prints(s)
            BY <1>10, TypePrints
        <3>2. CASE at' = at /\ out' = out
            <4>1. <<>> \in Seq(Char)
                OBVIOUS
            <4> QED BY <2>1, <2>2, <3>2, <4>1, Zenon
        <3>3. CASE \E s \in Seq(Char) : prints(s)
            BY <3>3, Zenon DEF prints
        <3> QED BY <3>1, <3>2, <3>3
    <2>6. \A p, g : ShownBy(index', place, cursor[index'], video, p, g, out', text[index'])
        <3> DEFINE u == index'
                   o == out'
        <3>1. u \in Tty /\ o = r /\ text[u] \in Seq(Givens) /\ Matches(u, cursor[u], video, LayoutOf(u, text[u]))
            BY <1>5, <2>1, <2>4, <2>5
        <3> HIDE DEF u, o
        <3>2. \A p, g : ShownBy(u, place, cursor[u], video, p, g, o, text[u])
            BY <2>5, <3>1, Settled
        <3> QED BY <3>2 DEF u, o
    <2> QED BY <2>1, <2>2, <2>4, <2>5, <2>6, Zenon
<1>11. CASE /\ at' = at /\ index' = index /\ out' = out /\ p_vmem' = p_vmem /\ prefix' = prefix
            /\ cursor' = cursor /\ video' = video /\ text' = text /\ v_mem_limit' = v_mem_limit
    <2>1. Given(index, char)' = Given(index, char)
        BY <1>11, Zenon DEF Given, Prompt, char
    <2> QED BY <1>4, <1>11, <2>1, Zenon
<1> QED BY <1>6, <1>7, <1>8, <1>9, <1>10, <1>11, Frames

(***************************************************************************)
(* The inductive invariant.                                                *)
(***************************************************************************)
IInv == Types /\ OrderInv /\ DirectoryInv /\ CommandInv /\ CursorInv /\ ScreenInv

LEMMA InitTypes == Init => Types /\ DirectoryInv
<1> SUFFICES ASSUME Init PROVE Types /\ DirectoryInv
    OBVIOUS
<1>1. LineTypes
    <2>1. [i \in Command |-> NUL] \in [Command -> Plain]
        BY Characters
    <2>2. 0 \in -TTY_IN_BYTES .. TTY_IN_BYTES
        BY Sizes
    <2>3. <<>> \in Seq(Char \ {"\n"})
        OBVIOUS
    <2> QED BY <2>1, <2>2, <2>3 DEF Init, LineTypes
<1>2. PrefixTypes
    <2>1. prefix = [t \in Tty |-> <<>>]
        BY DEF Init
    <2> QED BY <2>1 DEF PrefixTypes
<1>3. DirectoryTypes /\ DirectoryInv
    <2> DEFINE E == Seq(Entry)
               none == <<<<>>, <<>>>>
    <2>1. <<>> \in E
        OBVIOUS
    <2>2. <<>> \in Seq(E) /\ Len(<<>>) = 0
        OBVIOUS
    <2> HIDE DEF E
    <2>3. none \in [1 .. 2 -> E] /\ none[1] = <<>> /\ none[2] = <<>>
        BY <2>1
    <2> HIDE DEF none
    <2>4. /\ dictionary_buffer = [t \in Tty |-> none] /\ dir = [t \in Tty |-> <<>>]
          /\ longest = [t \in Tty |-> 0]
        BY DEF Init, none
    <2>5. DirectoryTypes
        BY <2>2, <2>3, <2>4 DEF DirectoryTypes, E
    <2>6. Buffered(none, <<>>, 0)
        <3>1. \A i \in 1 .. 2 : none[i] = <<>> /\ ~(i <= 0)
            BY <2>3
        <3>2. Len(<<>>) <= 2 /\ Len(<<>>) <= 0 /\ 0 \in Nat
            OBVIOUS
        <3>3. \A i \in 1 .. 2 : IF i <= Len(<<>>) THEN none[i] = <<>>[i] ELSE i > 0 => none[i] = <<>>
            BY <2>2, <3>1
        <3> QED BY <2>2, <2>3, <3>2, <3>3, Zenon DEF Buffered, E
    <2>7. \A t \in Tty : dictionary_buffer[t] = none /\ dir[t] = <<>> /\ longest[t] = 0
        BY <2>4
    <2> QED BY <2>5, <2>6, <2>7, Zenon DEF DirectoryInv
<1>4. ConsoleTypes
    <2>1. [c \in Cells |-> " "] \in [Cells -> Char]
        BY Blanks
    <2>2. [t \in Tty |-> <<>>] \in [Tty -> Seq(Givens)]
        <3> HIDE DEF Givens
        <3> QED OBVIOUS
    <2> DEFINE S == Seq(Givens)
    <2> HIDE DEF S
    <2>3. v_mem_limit = [t \in Tty |-> 0] /\ cursor = [t \in Tty |-> 0] /\ text = [t \in Tty |-> <<>>]
        BY DEF Init
    <2>4. v_mem_limit \in [Tty -> {0, ConsoleCells}] /\ cursor \in [Tty -> Int]
        BY <2>3
    <2>5. text \in [Tty -> S]
        BY <2>2, <2>3 DEF S
    <2>6. video = [c \in Cells |-> " "]
        BY DEF Init
    <2> QED BY <2>1, <2>4, <2>5, <2>6, Zenon DEF ConsoleTypes, S
<1>5. PrintTypes
    <2>1. <<>> \in Seq(Char \cup {"show"})
        OBVIOUS
    <2>2. at = "init" /\ index = 0 /\ out = <<>> /\ p_vmem = 0
        BY DEF Init
    <2> QED BY <2>1, <2>2, Sizes DEF PrintTypes
<1>6. ShowTypes
    BY Sizes, FirstAddress DEF Init, ShowTypes
<1> QED BY <1>1, <1>2, <1>3, <1>4, <1>5, <1>6 DEF Types

LEMMA InitIInv == Init => IInv
<1> SUFFICES ASSUME Init PROVE IInv
    OBVIOUS
<1>1. /\ at = "init" /\ out = <<>> /\ index = 0
      /\ \A t \in Tty : /\ v_mem_limit[t] = 0 /\ cursor[t] = 0 /\ curr[t] = 0
                        /\ text[t] = <<>> /\ typed[t] = <<>>
    BY DEF Init
<1>2. OrderInv
    BY <1>1, Sizes DEF OrderInv
<1>3. CommandInv
    <2>1. ASSUME NEW t \in Tty
          PROVE  Holds(command[t], 0, <<>>) /\ Edited(<<>>) = <<>>
        <3>1. command[t] = [i \in Command |-> NUL]
            BY DEF Init
        <3>2. \A i \in 0 .. TTY_IN_BYTES - 1 : i \in Command
            BY Sizes DEF Command
        <3>3. \A i \in 0 .. TTY_IN_BYTES - 1 : command[t][i] = NUL
            BY <3>1, <3>2
        <3> QED BY <3>3, EmptyHeld
    <2> QED BY <1>1, <2>1, Zenon DEF CommandInv, Holds
<1>4. CursorInv
    BY <1>1 DEF CursorInv
<1>5. ScreenInv
    <2>1. ASSUME NEW t \in Tty, NEW i \in 0 .. ConsoleCells - 1 PROVE video[v_mem_addr(t) + i] = " "
        <3>1. i \in 0 .. ConsoleCells
            BY Sizes
        <3>2. v_mem_addr(t) + i \in Cells
            BY <3>1, RegionCells
        <3> QED BY <3>2, Zenon DEF Init
    <2> QED BY <1>1, <2>1, Zenon DEF ScreenInv
<1> QED BY <1>2, <1>3, <1>4, <1>5, InitTypes DEF IInv

LEMMA IInvStep == IInv /\ [Next]_vars => IInv'
<1> SUFFICES ASSUME IInv, [Next]_vars PROVE IInv'
    OBVIOUS
<1> USE DEF IInv, Types
<1>1. LineTypes'
    BY LineTypesStep
<1>2. PrefixTypes'
    BY PrefixTypesStep
<1>3. DirectoryInv' /\ DirectoryTypes'
    BY DirectoryInvStep
<1>4. ConsoleTypes'
    BY ConsoleTypesStep
<1>5. PrintTypes'
    BY PrintTypesStep
<1>6. ShowTypes'
    BY ShowTypesStep
<1>7. OrderInv'
    BY OrderStep
<1>8. CommandInv'
    BY CommandStep
<1>9. CursorInv'
    BY CursorStep
<1>10. ScreenInv'
    BY ScreenStep
<1> QED BY <1>1, <1>2, <1>3, <1>4, <1>5, <1>6, <1>7, <1>8, <1>9, <1>10

(***************************************************************************)
(* What the terminals keep at every step; each property of Terminal.tla    *)
(* below follows from it.                                                  *)
(***************************************************************************)
THEOREM TerminalInvariant == Spec => []IInv
BY InitIInv, IInvStep, PTL DEF Spec

(***************************************************************************)
(* CommandIsLine (tty.h:20): as long as Backspace is pressed only where    *)
(* there is something to delete, command holds what is left of the line    *)
(* and zeros, whatever the size of the buffer and of the alphabet, and     *)
(* whatever lines were executed before it.                                 *)
(***************************************************************************)
THEOREM CommandHoldsLine == Spec => []CommandIsLine
<1>1. IInv => CommandIsLine
    BY Zenon DEF IInv, CommandInv, CommandIsLine
<1> QED BY <1>1, TerminalInvariant, PTL

(***************************************************************************)
(* SearchFindsEntry (TTY::search_file): where the buffer holds no more     *)
(* than the directory that was read last, a name that does not fill its    *)
(* entry is found at its first entry of the given type, and only there.    *)
(***************************************************************************)
THEOREM EntryIsFound == Spec => []SearchFindsEntry
<1>1. IInv => SearchFindsEntry
    BY SearchFinds DEF IInv
<1> QED BY <1>1, TerminalInvariant, PTL

(***************************************************************************)
(* CursorNearConsole (TTY::print): the tests of print keep the cursor of a *)
(* console in it, up to one row behind it, although a write of another     *)
(* process can move the cursor between a test and the assignment.          *)
(***************************************************************************)
THEOREM CursorStaysNear == Spec => []CursorNearConsole
<1>1. IInv => CursorNearConsole
    <2> SUFFICES ASSUME IInv, NEW t \in Tty, v_mem_limit[t] # 0
                 PROVE  cursor[t] \in v_mem_addr(t) .. v_mem_addr(t + 1) + SCREEN_WIDTH
        BY DEF CursorNearConsole
    <2>1. v_mem_addr(t) <= cursor[t] /\ cursor[t] <= v_mem_addr(t) + ConsoleCells + 1 /\ cursor[t] \in Int
        BY DEF IInv, CursorInv, Types, ConsoleTypes
    <2>2. /\ v_mem_addr(t) \in Nat /\ v_mem_addr(t + 1) = v_mem_addr(t) + ConsoleCells
          /\ ConsoleCells \in Nat /\ SCREEN_WIDTH \in Nat /\ SCREEN_WIDTH > 0
        BY Addresses, Sizes
    <2> DEFINE a == v_mem_addr(t)
               b == v_mem_addr(t + 1)
               k == cursor[t]
    <2> HIDE DEF a, b, k
    <2>3. /\ a <= k /\ k <= a + ConsoleCells + 1 /\ k \in Int /\ a \in Nat /\ b = a + ConsoleCells
        BY <2>1, <2>2 DEF a, b, k
    <2>4. k \in a .. b + SCREEN_WIDTH
        BY <2>2, <2>3
    <2> QED BY <2>4 DEF a, b, k
<1> QED BY <1>1, TerminalInvariant, PTL

(***************************************************************************)
(* CharsOnOwnConsole (TTY::print): a character that appears on a console   *)
(* was printed on it, by task_tty or by write, however the two interleave. *)
(***************************************************************************)
THEOREM CharactersStayApart == Spec => CharsOnOwnConsole
<1> DEFINE A == Initialised => \A t \in Tty : (\E c \in Region(t) : video'[c] \notin {video[c], " "}) =>
                    (write /\ t = 0) \/ (task_tty /\ t = index)
<1>1. IInv /\ [Next]_vars => A
    BY CharsStep DEF IInv, Types
<1>2. IInv /\ [Next]_vars => [A]_vars
    BY <1>1
<1> QED BY <1>2, TerminalInvariant, PTL DEF Spec, CharsOnOwnConsole

(***************************************************************************)
(* ScreenIsText (TTY::print, write): as long as no write has come into the *)
(* middle of a print, every console shows, row by row, what its terminal   *)
(* was given to print since it was initialised, whoever printed it, and    *)
(* the cursor stands behind it: for any text and any size of the screen.   *)
(***************************************************************************)
THEOREM ScreenShowsText == Spec => []ScreenIsText
<1>1. IInv => ScreenIsText
    <2> SUFFICES ASSUME IInv, ~torn, ~InPrint, at \in {"rest", "print"}, NEW t \in Tty, v_mem_limit[t] # 0
                 PROVE  Matches(t, cursor[t], video, Layout(t))
        BY Zenon DEF ScreenIsText, Matches
    <2>1. ScreenInv /\ ConsoleTypes /\ PrintTypes
        BY DEF IInv, Types
    <2>2. CASE t = index
        BY <2>1, <2>2, AllShown DEF InPrint
    <2>3. CASE t # index
        BY <2>1, <2>3 DEF ScreenInv
    <2> QED BY <2>2, <2>3
<1> QED BY <1>1, TerminalInvariant, PTL
=============================================================================
