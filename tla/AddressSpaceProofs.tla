------------------------ MODULE AddressSpaceProofs ------------------------
(***************************************************************************)
(* Proofs about the address space, for every fan-out, every direct map and *)
(* every machine the bootloader may describe as it promises to.            *)
(*                                                                         *)
(* The tables of a memory form a tree.  The proofs describe it by two      *)
(* functions on its tables, their level and the pages they are on the way  *)
(* to: what a call does to the tree is said in terms of these, and the     *)
(* walk a processor does is derived from them.                             *)
(***************************************************************************)
EXTENDS AddressSpace, Arithmetic, SequenceTheorems
-----------------------------------------------------------------------------
(* Pages and their indexes *)

Pages == 0 .. PageEnd - 1

\* The constants are numbers, and there is more than one entry in a table.
LEMMA FanoutIs ==
    /\ Fanout \in Nat \ {0} /\ HhdmBase \in Nat /\ 0 \in Nat
    /\ Fanout * Fanout \in Nat \ {0}
    /\ Fanout * Fanout * Fanout \in Nat \ {0}
    /\ PageEnd \in Nat \ {0}
<1>1. Fanout \in Nat \ {0} /\ HhdmBase \in Nat  BY AddressSpaceConstants
<1>2. \A a, b \in Nat \ {0} : a * b \in Nat \ {0}  BY SMT
<1>3. Fanout * Fanout \in Nat \ {0}  BY <1>1, <1>2
<1> DEFINE two == Fanout * Fanout
<1> HIDE DEF two
<1>4. two * Fanout \in Nat \ {0}  BY <1>1, <1>2, <1>3 DEF two
<1> DEFINE three == two * Fanout
<1> HIDE DEF three
<1>5. Fanout * three \in Nat \ {0}  BY <1>1, <1>2, <1>4 DEF three
<1>6. PageEnd = Fanout * three
  BY DEF PageEnd, PagesBehind, three, two
<1> QED  BY <1>1, <1>3, <1>4, <1>5, <1>6 DEF two, three

\* What the indexes of a page are: digits of its number.
LEMMA IndexIs ==
    ASSUME NEW v
    PROVE  /\ Index(v, 1) = (v \div (Fanout * Fanout * Fanout)) % Fanout
           /\ Index(v, 2) = (v \div (Fanout * Fanout)) % Fanout
           /\ Index(v, 3) = (v \div Fanout) % Fanout
           /\ Index(v, 4) = (v \div 1) % Fanout
  BY DEF Index, PagesBehind

\* Every index is one of a table.
LEMMA IndexInTable ==
    ASSUME NEW v \in Nat, NEW l \in 1 .. 4
    PROVE  Index(v, l) \in 0 .. Fanout - 1
<1>1. \A n \in Nat, w \in Nat \ {0} : (n \div w) % Fanout \in 0 .. Fanout - 1
  <2> TAKE n \in Nat, w \in Nat \ {0}
  <2>1. n \div w \in Nat  BY DivMod
  <2> QED  BY <2>1, DivMod, FanoutIs
<1>2. CASE l = 1  BY <1>1, <1>2, FanoutIs, IndexIs, Zenon
<1>3. CASE l = 2  BY <1>1, <1>3, FanoutIs, IndexIs, Zenon
<1>4. CASE l = 3  BY <1>1, <1>4, FanoutIs, IndexIs, Zenon
<1>5. CASE l = 4
  <2>1. 1 \in Nat \ {0}  OBVIOUS
  <2> QED  BY <1>1, <1>5, <2>1, IndexIs, Zenon
<1> QED  BY <1>2, <1>3, <1>4, <1>5

\* The four indexes of a page determine it.
LEMMA IndexesDetermine ==
    ASSUME NEW v \in Pages, NEW w \in Pages, \A l \in 1 .. 4 : Index(v, l) = Index(w, l)
    PROVE  v = w
<1> DEFINE two == Fanout * Fanout
           three == Fanout * Fanout * Fanout
<1>1. v \in Nat /\ w \in Nat /\ v < Fanout * three /\ w < Fanout * three
      /\ two \in Nat \ {0} /\ three \in Nat \ {0} /\ Fanout \in Nat \ {0}
  <2>1. PageEnd = Fanout * three  BY DEF PageEnd, PagesBehind
  <2> QED  BY <2>1, FanoutIs DEF Pages
<1>2. ASSUME NEW x \in Nat, x < Fanout * three
      PROVE  /\ x \div 1 = x
             /\ x \div Fanout \in Nat /\ x \div two \in Nat /\ x \div three \in Nat
             /\ x = (x \div Fanout) * Fanout + (x % Fanout)
             /\ x \div Fanout = (x \div two) * Fanout + ((x \div Fanout) % Fanout)
             /\ x \div two = (x \div three) * Fanout + ((x \div two) % Fanout)
             /\ (x \div three) % Fanout = x \div three
  <2>1. (x \div Fanout) \div Fanout = x \div two  BY <1>1, DivDiv
  <2>2. (x \div two) \div Fanout = x \div three
    <3>1. (x \div two) \div Fanout = x \div (Fanout * two)  BY <1>1, DivDiv
    <3>2. Fanout * two = three  BY <1>1, SMT
    <3> QED  BY <3>1, <3>2
  <2>3. x \div three < Fanout
    <3>0. three \in Nat \ {0} /\ Fanout \in Nat  BY <1>1
    <3> HIDE DEF two, three
    <3> QED  BY <1>2, <3>0, DivBelow
  <2>4. x \div Fanout \in Nat /\ x \div two \in Nat /\ x \div three \in Nat
    <3> HIDE DEF two, three
    <3> QED  BY <1>1, <1>2, DivMod
  <2> HIDE DEF two, three
  <2>5. x = (x \div Fanout) * Fanout + (x % Fanout)  BY <1>1, DivMod
  <2>6. x \div Fanout = (x \div two) * Fanout + ((x \div Fanout) % Fanout)
    BY <1>1, <2>1, <2>4, DivMod
  <2>7. x \div two = (x \div three) * Fanout + ((x \div two) % Fanout)
    BY <1>1, <2>2, <2>4, DivMod
  <2>8. (x \div three) % Fanout = x \div three
    <3>1. \A n \in Nat : n < Fanout => n % Fanout = n  BY <1>1, SMT
    <3> QED  BY <2>3, <2>4, <3>1
  <2>9. x \div 1 = x  BY SMT
  <2> QED  BY <2>4, <2>5, <2>6, <2>7, <2>8, <2>9
<1>3. /\ (v \div three) % Fanout = (w \div three) % Fanout
      /\ (v \div two) % Fanout = (w \div two) % Fanout
      /\ (v \div Fanout) % Fanout = (w \div Fanout) % Fanout
      /\ (v \div 1) % Fanout = (w \div 1) % Fanout
  <2>1. 1 \in 1 .. 4 /\ 2 \in 1 .. 4 /\ 3 \in 1 .. 4 /\ 4 \in 1 .. 4  OBVIOUS
  <2> QED  BY <2>1, IndexIs, Zenon
<1> HIDE DEF two, three
<1>4. v \div three = w \div three  BY <1>1, <1>2, <1>3
<1>5. v \div two = w \div two
  <2>1. /\ v \div two = (v \div three) * Fanout + ((v \div two) % Fanout)
        /\ w \div two = (w \div three) * Fanout + ((w \div two) % Fanout)
    BY <1>1, <1>2, Zenon
  <2> QED  BY <1>3, <1>4, <2>1, Zenon
<1>6. v \div Fanout = w \div Fanout
  <2>1. /\ v \div Fanout = (v \div two) * Fanout + ((v \div Fanout) % Fanout)
        /\ w \div Fanout = (w \div two) * Fanout + ((w \div Fanout) % Fanout)
    BY <1>1, <1>2, Zenon
  <2> QED  BY <1>3, <1>5, <2>1, Zenon
<1>7. v % Fanout = w % Fanout  BY <1>1, <1>2, <1>3, Zenon
<1>8. v = (v \div Fanout) * Fanout + (v % Fanout) /\ w = (w \div Fanout) * Fanout + (w % Fanout)
  BY <1>1, <1>2, Zenon
<1> QED  BY <1>6, <1>7, <1>8, Zenon
-----------------------------------------------------------------------------
(* Memories, and what the small steps of a call do to them *)

Slots == 0 .. Fanout - 1
Rows == UNION {[D -> Entry] : D \in SUBSET Slots}
TableMaps == UNION {[D -> Rows] : D \in SUBSET Nat}
Halts == {"no", "panic", "fault"}

Memory == [pool : SUBSET Nat, table : TableMaps, root : Nat, cr3 : Nat, halt : Halts]

\* The tables of memory m.
TablesOf(m) == DOMAIN m.table

\* The rows are the functions from some slots to entries.
LEMMA RowIs ==
    ASSUME NEW r
    PROVE  r \in Rows <=> /\ r = [i \in DOMAIN r |-> r[i]] /\ DOMAIN r \subseteq Slots
                          /\ \A i \in DOMAIN r : r[i] \in Entry
<1>1. ASSUME r \in Rows
      PROVE  /\ r = [i \in DOMAIN r |-> r[i]] /\ DOMAIN r \subseteq Slots
             /\ \A i \in DOMAIN r : r[i] \in Entry
  <2>1. PICK D \in SUBSET Slots : r \in [D -> Entry]  BY <1>1 DEF Rows
  <2> HIDE DEF Entry
  <2> QED  BY <2>1
<1>2. ASSUME r = [i \in DOMAIN r |-> r[i]], DOMAIN r \subseteq Slots,
             \A i \in DOMAIN r : r[i] \in Entry
      PROVE  r \in Rows
  <2>1. r \in [DOMAIN r -> Entry]  BY <1>2
  <2> QED  BY <1>2, <2>1 DEF Rows
<1> QED  BY <1>1, <1>2

\* The table maps are the functions from some frames to rows.
LEMMA TableMapIs ==
    ASSUME NEW T
    PROVE  T \in TableMaps <=> /\ T = [t \in DOMAIN T |-> T[t]] /\ DOMAIN T \subseteq Nat
                               /\ \A t \in DOMAIN T : T[t] \in Rows
<1>1. ASSUME T \in TableMaps
      PROVE  /\ T = [t \in DOMAIN T |-> T[t]] /\ DOMAIN T \subseteq Nat
             /\ \A t \in DOMAIN T : T[t] \in Rows
  <2>1. PICK D \in SUBSET Nat : T \in [D -> Rows]  BY <1>1 DEF TableMaps
  <2> QED  BY <2>1
<1>2. ASSUME T = [t \in DOMAIN T |-> T[t]], DOMAIN T \subseteq Nat,
             \A t \in DOMAIN T : T[t] \in Rows
      PROVE  T \in TableMaps
  <2>1. T \in [DOMAIN T -> Rows]  BY <1>2
  <2> QED  BY <1>2, <2>1 DEF TableMaps
<1> QED  BY <1>1, <1>2

\* The fields of a memory have their types.
LEMMA MemoryIs ==
    ASSUME NEW m \in Memory
    PROVE  /\ m.pool \in SUBSET Nat /\ m.table \in TableMaps /\ m.root \in Nat
           /\ m.cr3 \in Nat /\ m.halt \in Halts
           /\ TablesOf(m) \subseteq Nat
           /\ \A t \in TablesOf(m) : m.table[t] \in Rows
  BY TableMapIs DEF Memory, TablesOf

\* Stop changes nothing but halt.
LEMMA StopIs ==
    ASSUME NEW m \in Memory, NEW why \in Halts, NEW n, n = Stop(m, why)
    PROVE  /\ n \in Memory /\ n.halt = why /\ n.pool = m.pool /\ n.table = m.table
           /\ n.root = m.root /\ n.cr3 = m.cr3 /\ TablesOf(n) = TablesOf(m)
  BY DEF Memory, Stop, TablesOf

\* Take changes nothing but the pool.
LEMMA TakeIs ==
    ASSUME NEW m \in Memory, NEW f, NEW n, n = Take(m, f)
    PROVE  /\ n \in Memory /\ n.table = m.table /\ TablesOf(n) = TablesOf(m)
           /\ n.root = m.root /\ n.cr3 = m.cr3 /\ n.halt = m.halt
           /\ \A x : x \in n.pool <=> x \in m.pool /\ x # f
<1>1. m.pool \ {f} \in SUBSET Nat  BY DEF Memory
<1> QED  BY <1>1 DEF Memory, Take, TablesOf

\* SetRow changes one row of the tables.
LEMMA SetRowIs ==
    ASSUME NEW m \in Memory, NEW t \in Nat, NEW row \in Rows,
           NEW n, n = SetRow(m, t, row)
    PROVE  /\ n \in Memory /\ n.table[t] = row
           /\ \A u : u \in TablesOf(n) <=> u \in TablesOf(m) \/ u = t
           /\ \A u \in TablesOf(m) : u # t => n.table[u] = m.table[u]
           /\ n.pool = m.pool /\ n.root = m.root /\ n.cr3 = m.cr3 /\ n.halt = m.halt
<1> DEFINE T == With(m.table, t, row)
<1>1. /\ DOMAIN T = TablesOf(m) \cup {t} /\ T[t] = row
      /\ \A u \in TablesOf(m) : u # t => T[u] = m.table[u]
      /\ T = [z \in DOMAIN T |-> T[z]]
  <2> DEFINE g == m.table
  <2>1. TablesOf(m) = DOMAIN g  BY DEF TablesOf
  <2> HIDE DEF g
  <2>2. /\ DOMAIN With(g, t, row) = DOMAIN g \cup {t} /\ With(g, t, row)[t] = row
        /\ \A u \in DOMAIN g : u # t => With(g, t, row)[u] = g[u]
        /\ With(g, t, row) = [z \in DOMAIN With(g, t, row) |-> With(g, t, row)[z]]
    BY DEF With
  <2> QED  BY <2>1, <2>2 DEF g
<1> HIDE DEF T
<1>2. T \in TableMaps  BY <1>1, MemoryIs, TableMapIs
<1>3. n = [m EXCEPT !.table = T]  BY DEF SetRow, T
<1>4. /\ n \in Memory /\ n.table = T /\ n.pool = m.pool /\ n.root = m.root
      /\ n.cr3 = m.cr3 /\ n.halt = m.halt
  BY <1>2, <1>3 DEF Memory
<1> QED  BY <1>1, <1>4 DEF TablesOf

\* SetEntry changes one entry of one table.
LEMMA SetEntryIs ==
    ASSUME NEW m \in Memory, NEW t \in TablesOf(m), NEW i \in Slots,
           NEW f \in Nat, NEW flags \in SUBSET {"P", "W", "XD", "PAT"},
           NEW n, n = SetEntry(m, t, i, f, flags)
    PROVE  /\ n \in Memory /\ TablesOf(n) = TablesOf(m)
           /\ \A j : j \in DOMAIN n.table[t] <=> j \in DOMAIN m.table[t] \/ j = i
           /\ n.table[t][i].frame = f /\ n.table[t][i].flags = flags
           /\ \A j \in DOMAIN m.table[t] : j # i => n.table[t][j] = m.table[t][j]
           /\ \A u \in TablesOf(m) : u # t => n.table[u] = m.table[u]
           /\ n.pool = m.pool /\ n.root = m.root /\ n.cr3 = m.cr3 /\ n.halt = m.halt
<1> DEFINE e == [frame |-> f, flags |-> flags]
           row == With(m.table[t], i, e)
<1>1. m.table[t] \in Rows /\ t \in Nat  BY MemoryIs
<1>2. /\ DOMAIN row = DOMAIN m.table[t] \cup {i} /\ row[i] = e
      /\ \A j \in DOMAIN m.table[t] : j # i => row[j] = m.table[t][j]
      /\ row = [z \in DOMAIN row |-> row[z]]
  <2> DEFINE g == m.table[t]
  <2> HIDE DEF g, e
  <2>1. /\ DOMAIN With(g, i, e) = DOMAIN g \cup {i} /\ With(g, i, e)[i] = e
        /\ \A u \in DOMAIN g : u # i => With(g, i, e)[u] = g[u]
        /\ With(g, i, e) = [z \in DOMAIN With(g, i, e) |-> With(g, i, e)[z]]
    BY DEF With
  <2> QED  BY <2>1 DEF g
<1>3. e.frame = f /\ e.flags = flags /\ e \in Entry  BY DEF Entry
<1> HIDE DEF row, e
<1>4. row \in Rows  BY <1>1, <1>2, <1>3, RowIs
<1>5. n = SetRow(m, t, row)  BY DEF SetEntry, row, e
<1>6. /\ n \in Memory /\ n.table[t] = row
      /\ \A u : u \in TablesOf(n) <=> u \in TablesOf(m) \/ u = t
      /\ \A u \in TablesOf(m) : u # t => n.table[u] = m.table[u]
      /\ n.pool = m.pool /\ n.root = m.root /\ n.cr3 = m.cr3 /\ n.halt = m.halt
  BY <1>1, <1>4, <1>5, SetRowIs
<1>7. TablesOf(n) = TablesOf(m)  BY <1>6
<1>8. \A j : j \in DOMAIN row <=> j \in DOMAIN m.table[t] \/ j = i  BY <1>2
<1> QED  BY <1>2, <1>3, <1>6, <1>7, <1>8

\* A row without one of its entries is a row.
LEMMA RowWithout ==
    ASSUME NEW row \in Rows, NEW i, NEW r, r = Restrict(row, DOMAIN row \ {i})
    PROVE  /\ r \in Rows /\ \A j : j \in DOMAIN r <=> j \in DOMAIN row /\ j # i
           /\ \A j \in DOMAIN r : r[j] = row[j]
<1>1. /\ \A j : j \in DOMAIN r <=> j \in DOMAIN row /\ j # i
      /\ \A j \in DOMAIN r : r[j] = row[j]
      /\ r = [j \in DOMAIN r |-> r[j]]
  BY DEF Restrict
<1>2. r \in Rows
  <2>1. DOMAIN r \subseteq Slots /\ \A i2 \in DOMAIN r : r[i2] \in Entry
    BY <1>1, RowIs
  <2> QED  BY <1>1, <2>1, RowIs
<1> QED  BY <1>1, <1>2

\* The empty row, and entries of rows.
LEMMA RowsHave ==
    /\ << >> \in Rows /\ DOMAIN << >> = {}
    /\ \A row \in Rows : DOMAIN row \subseteq Slots
    /\ \A row \in Rows : \A i \in DOMAIN row :
          /\ row[i].frame \in Nat
          /\ row[i].flags \in SUBSET {"P", "W", "XD", "PAT"}
<1>1. << >> = [i \in {} |-> 0]  OBVIOUS
<1>2. DOMAIN << >> = {}  OBVIOUS
<1>3. << >> \in Rows
  <2>1. << >> = [i \in DOMAIN << >> |-> << >>[i]]  BY <1>2
  <2> QED  BY <1>2, <2>1, RowIs
<1>4. \A e \in Entry : e.frame \in Nat /\ e.flags \in SUBSET {"P", "W", "XD", "PAT"}
  BY DEF Entry
<1> QED  BY <1>2, <1>3, <1>4, RowIs
-----------------------------------------------------------------------------
(* The tree of tables: lev is a table's level, home the pages it is on the   *)
(* way to                                                                    *)

Behind(lev, home, t, i) == {v \in home[t] : Index(v, lev[t]) = i}

\* An entry above the last level leads to a table one level down.
Leads(m, lev, home) ==
    \A t \in TablesOf(m) : lev[t] < 4 => \A i \in DOMAIN m.table[t] :
        /\ m.table[t][i].frame \in TablesOf(m)
        /\ lev[m.table[t][i].frame] = lev[t] + 1
        /\ home[m.table[t][i].frame] = Behind(lev, home, t, i)

\* Every table but the root is reached from one a level up.
Hangs(m, lev, home) ==
    \A u \in TablesOf(m) : lev[u] > 1 => \A v \in home[u] :
        \E t \in TablesOf(m) : /\ lev[t] = lev[u] - 1 /\ v \in home[t]
                               /\ Index(v, lev[t]) \in DOMAIN m.table[t]

\* Tables of a level have no page in common.
Apart(m, lev, home) ==
    \A t, u \in TablesOf(m) : \A v \in home[t] :
        v \in home[u] /\ lev[t] = lev[u] => t = u

\* The pages of a table have the indexes on the way to it in common.
Alike(m, lev, home) ==
    \A t \in TablesOf(m) : \A v, w \in home[t] : \A l \in 1 .. 4 :
        l < lev[t] => Index(v, l) = Index(w, l)

IsTree(m, lev, home) ==
    /\ lev \in [TablesOf(m) -> 1 .. 4] /\ home \in [TablesOf(m) -> SUBSET Pages]
    /\ m.root \in TablesOf(m) /\ lev[m.root] = 1 /\ home[m.root] = Pages
    /\ Leads(m, lev, home) /\ Hangs(m, lev, home)
    /\ Apart(m, lev, home) /\ Alike(m, lev, home)

\* The entry on the way to page v in the last table.
HasLeaf(m, lev, home, t, v) ==
    /\ t \in TablesOf(m) /\ lev[t] = 4 /\ v \in home[t]
    /\ Index(v, 4) \in DOMAIN m.table[t]

\* The levels and the pages of the tables.
LEMMA TreeIs ==
    ASSUME NEW m, NEW lev, NEW home, IsTree(m, lev, home), NEW t \in TablesOf(m)
    PROVE  /\ lev[t] \in 1 .. 4 /\ lev[t] \in Nat /\ home[t] \in SUBSET Pages
           /\ \A v \in home[t] : v \in Nat /\ Index(v, lev[t]) \in Slots
<1>1. lev[t] \in 1 .. 4 /\ home[t] \in SUBSET Pages  BY DEF IsTree
<1>2. \A v \in home[t] : v \in Nat  BY <1>1, FanoutIs DEF Pages
<1> QED  BY <1>1, <1>2, IndexInTable DEF Slots

\* One step down from a table on the way to page v.
LEMMA StepDown ==
    ASSUME NEW m, NEW lev, NEW home, IsTree(m, lev, home),
           NEW t \in TablesOf(m), lev[t] < 4, NEW v \in home[t],
           Index(v, lev[t]) \in DOMAIN m.table[t]
    PROVE  LET u == m.table[t][Index(v, lev[t])].frame IN
           /\ u \in TablesOf(m) /\ lev[u] = lev[t] + 1 /\ v \in home[u]
<1> DEFINE i == Index(v, lev[t])
           u == m.table[t][i].frame
<1>1. u \in TablesOf(m) /\ lev[u] = lev[t] + 1 /\ home[u] = Behind(lev, home, t, i)
  BY DEF IsTree, Leads
<1>2. v \in Behind(lev, home, t, i)  BY DEF Behind
<1> QED  BY <1>1, <1>2

\* One step up from a table on the way to page v.
LEMMA StepUp ==
    ASSUME NEW m, NEW lev, NEW home, IsTree(m, lev, home),
           NEW u \in TablesOf(m), lev[u] > 1, NEW v \in home[u]
    PROVE  \E t \in TablesOf(m) :
              /\ lev[t] = lev[u] - 1 /\ v \in home[t]
              /\ Index(v, lev[t]) \in DOMAIN m.table[t]
              /\ m.table[t][Index(v, lev[t])].frame = u
<1>1. PICK t \in TablesOf(m) : /\ lev[t] = lev[u] - 1 /\ v \in home[t]
                               /\ Index(v, lev[t]) \in DOMAIN m.table[t]
  BY DEF IsTree, Hangs
<1>2. lev[t] \in Nat /\ lev[u] \in 1 .. 4  BY TreeIs
<1> DEFINE w == m.table[t][Index(v, lev[t])].frame
<1>3. w \in TablesOf(m) /\ lev[w] = lev[t] + 1 /\ v \in home[w]
  BY <1>1, <1>2, StepDown
<1> HIDE DEF w
<1>4. lev[w] = lev[u]  BY <1>1, <1>2, <1>3
<1>5. w = u  BY <1>3, <1>4 DEF IsTree, Apart
<1> QED  BY <1>1, <1>5 DEF w

\* From a table on the way to v the next one on the way hangs in v's entry.
LEMMA NextOnTheWay ==
    ASSUME NEW m, NEW lev, NEW home, IsTree(m, lev, home),
           NEW t \in TablesOf(m), NEW u \in TablesOf(m), NEW v \in home[t], v \in home[u],
           lev[u] = lev[t] + 1
    PROVE  Index(v, lev[t]) \in DOMAIN m.table[t] /\ m.table[t][Index(v, lev[t])].frame = u
<1>1. lev[t] \in 1 .. 4 /\ lev[u] \in 1 .. 4  BY TreeIs
<1>2. PICK s \in TablesOf(m) :
              /\ lev[s] = lev[u] - 1 /\ v \in home[s]
              /\ Index(v, lev[s]) \in DOMAIN m.table[s]
              /\ m.table[s][Index(v, lev[s])].frame = u
  BY <1>1, StepUp
<1>3. lev[s] = lev[t]  BY <1>1, <1>2
<1>4. s = t  BY <1>2, <1>3 DEF IsTree, Apart
<1> QED  BY <1>2, <1>4

\* Two last tables on the way to a page are the same.
LEMMA OneLastTable ==
    ASSUME NEW m, NEW lev, NEW home, IsTree(m, lev, home),
           NEW t \in TablesOf(m), NEW u \in TablesOf(m), lev[t] = lev[u],
           NEW v \in home[t], v \in home[u]
    PROVE  t = u
  BY DEF IsTree, Apart

\* In a last table every entry is the leaf of one page.
LEMMA OneLeaf ==
    ASSUME NEW m, NEW lev, NEW home, IsTree(m, lev, home),
           NEW t \in TablesOf(m), lev[t] = 4, NEW v \in home[t], NEW w \in home[t],
           Index(v, 4) = Index(w, 4)
    PROVE  v = w
<1>1. v \in Pages /\ w \in Pages  BY TreeIs
<1>2. \A l \in 1 .. 4 : l < 4 => Index(v, l) = Index(w, l)  BY DEF IsTree, Alike
<1>3. \A l \in 1 .. 4 : Index(v, l) = Index(w, l)
  <2> TAKE l \in 1 .. 4
  <2>1. CASE l < 4  BY <1>2, <2>1
  <2>2. CASE l = 4  BY <2>2
  <2> QED  BY <2>1, <2>2
<1> QED  BY <1>1, <1>3, IndexesDetermine

\* A change to the rows of last tables leaves the tree.
LEMMA SameTree ==
    ASSUME NEW m, NEW lev, NEW home, IsTree(m, lev, home), NEW n,
           TablesOf(n) = TablesOf(m), n.root = m.root,
           \A t \in TablesOf(m) : lev[t] < 4 => n.table[t] = m.table[t]
    PROVE  IsTree(n, lev, home)
<1>1. Leads(n, lev, home)  BY DEF IsTree, Leads
<1>2. Hangs(n, lev, home)
  <2> SUFFICES ASSUME NEW u \in TablesOf(m), lev[u] > 1, NEW v \in home[u]
               PROVE  \E t \in TablesOf(m) : /\ lev[t] = lev[u] - 1 /\ v \in home[t]
                                             /\ Index(v, lev[t]) \in DOMAIN n.table[t]
    BY DEF Hangs
  <2>1. PICK t \in TablesOf(m) : /\ lev[t] = lev[u] - 1 /\ v \in home[t]
                                 /\ Index(v, lev[t]) \in DOMAIN m.table[t]
    BY DEF IsTree, Hangs
  <2>2. lev[t] \in Nat /\ lev[u] \in 1 .. 4  BY TreeIs
  <2>3. n.table[t] = m.table[t]  BY <2>1, <2>2
  <2> QED  BY <2>1, <2>3
<1> QED  BY <1>1, <1>2 DEF IsTree, Apart, Alike
\* A new, empty table in a missing entry makes a bigger tree.
LEMMA HungTree ==
    ASSUME NEW m \in Memory, NEW lev, NEW home, IsTree(m, lev, home), NEW n,
           NEW t \in TablesOf(m), lev[t] < 4, NEW v \in home[t],
           Index(v, lev[t]) \notin DOMAIN m.table[t],
           NEW g, g \notin TablesOf(m),
           \A u : u \in TablesOf(n) <=> u \in TablesOf(m) \/ u = g, n.root = m.root,
           \A j : j \notin DOMAIN n.table[g],
           \A j : j \in DOMAIN n.table[t] <=>
                     j \in DOMAIN m.table[t] \/ j = Index(v, lev[t]),
           n.table[t][Index(v, lev[t])].frame = g,
           \A j \in DOMAIN m.table[t] : n.table[t][j] = m.table[t][j],
           \A u \in TablesOf(m) : u # t => n.table[u] = m.table[u],
           NEW lev2 \in [TablesOf(n) -> 1 .. 4], NEW home2 \in [TablesOf(n) -> SUBSET Pages],
           \A u \in TablesOf(m) : lev2[u] = lev[u] /\ home2[u] = home[u],
           lev2[g] = lev[t] + 1, home2[g] = Behind(lev, home, t, Index(v, lev[t]))
    PROVE  IsTree(n, lev2, home2)
<1> DEFINE i == Index(v, lev[t])
           new == Behind(lev, home, t, i)
<1>1. lev[t] \in 1 .. 3 /\ lev[t] + 1 \in 2 .. 4  BY TreeIs
<1>2. /\ lev2[g] = lev[t] + 1 /\ home2[g] = new
      /\ \A u \in TablesOf(m) :
            /\ u # g /\ u \in TablesOf(n)
            /\ lev2[u] = lev[u] /\ home2[u] = home[u] /\ lev[u] \in 1 .. 4
  BY TreeIs
<1>3. new \subseteq home[t] /\ new \in SUBSET Pages
      /\ \A w \in home[t] : w \in new <=> Index(w, lev[t]) = i
  BY TreeIs DEF Behind
<1>4. lev2 \in [TablesOf(n) -> 1 .. 4] /\ home2 \in [TablesOf(n) -> SUBSET Pages]
  OBVIOUS
<1>5. m.root \in TablesOf(n) /\ lev2[n.root] = 1 /\ home2[n.root] = Pages
  BY <1>2 DEF IsTree
<1>6. t # g /\ t \in TablesOf(n)  OBVIOUS
<1> HIDE DEF new, i
<1>7. Leads(n, lev2, home2)
  <2> SUFFICES ASSUME NEW u \in TablesOf(n), lev2[u] < 4, NEW j \in DOMAIN n.table[u]
               PROVE  /\ n.table[u][j].frame \in TablesOf(n)
                      /\ lev2[n.table[u][j].frame] = lev2[u] + 1
                      /\ home2[n.table[u][j].frame] = Behind(lev2, home2, u, j)
    BY DEF Leads
  <2>1. u \in TablesOf(m)  OBVIOUS
  <2>2. Behind(lev2, home2, u, j) = Behind(lev, home, u, j)  BY <1>2, <2>1 DEF Behind
  <2>3. CASE u = t /\ j = i
    <3>1. n.table[u][j].frame = g  BY <2>3 DEF i
    <3>2. Behind(lev2, home2, u, j) = new  BY <2>2, <2>3 DEF new
    <3> QED  BY <1>2, <2>1, <2>3, <3>1, <3>2
  <2>4. CASE ~(u = t /\ j = i)
    <3>1. j \in DOMAIN m.table[u] /\ n.table[u][j] = m.table[u][j]  BY <2>1, <2>4 DEF i
    <3>2. lev[u] < 4  BY <1>2, <2>1
    <3> DEFINE w == m.table[u][j].frame
    <3>3. w \in TablesOf(m) /\ lev[w] = lev[u] + 1 /\ home[w] = Behind(lev, home, u, j)
      BY <2>1, <3>1, <3>2 DEF IsTree, Leads
    <3> HIDE DEF w
    <3>4. w \in TablesOf(n) /\ lev2[w] = lev2[u] + 1 /\ home2[w] = Behind(lev2, home2, u, j)
      BY <1>2, <2>1, <2>2, <3>3
    <3>5. n.table[u][j].frame = w  BY <3>1 DEF w
    <3> QED  BY <3>4, <3>5
  <2> QED  BY <2>3, <2>4
<1>8. Hangs(n, lev2, home2)
  <2> SUFFICES ASSUME NEW u \in TablesOf(n), lev2[u] > 1, NEW w \in home2[u]
               PROVE  \E s \in TablesOf(n) : /\ lev2[s] = lev2[u] - 1 /\ w \in home2[s]
                                             /\ Index(w, lev2[s]) \in DOMAIN n.table[s]
    BY DEF Hangs
  <2>1. CASE u = g
    <3>1. w \in new /\ w \in home[t] /\ Index(w, lev[t]) = i  BY <1>2, <1>3, <2>1
    <3>2. lev2[t] = lev2[u] - 1  BY <1>1, <1>2, <2>1
    <3>3. Index(w, lev2[t]) \in DOMAIN n.table[t]  BY <1>2, <3>1 DEF i
    <3>4. w \in home2[t]  BY <1>2, <3>1
    <3> QED  BY <1>6, <3>2, <3>3, <3>4
  <2>2. CASE u # g
    <3>1. u \in TablesOf(m) /\ lev[u] > 1 /\ w \in home[u]  BY <1>2, <2>2
    <3>2. PICK s \in TablesOf(m) : /\ lev[s] = lev[u] - 1 /\ w \in home[s]
                                   /\ Index(w, lev[s]) \in DOMAIN m.table[s]
      BY <3>1 DEF IsTree, Hangs
    <3>3. DOMAIN m.table[s] \subseteq DOMAIN n.table[s]
      <4>1. CASE s = t  BY <4>1
      <4>2. CASE s # t  BY <4>2
      <4> QED  BY <4>1, <4>2
    <3>4. /\ s \in TablesOf(n) /\ lev2[s] = lev2[u] - 1 /\ w \in home2[s]
          /\ Index(w, lev2[s]) \in DOMAIN n.table[s]
      BY <1>2, <3>1, <3>2, <3>3
    <3> QED  BY <3>4
  <2> QED  BY <2>1, <2>2
<1>9. Apart(n, lev2, home2)
  <2>1. ASSUME NEW u \in TablesOf(m), NEW w \in home[u], w \in new, lev[u] = lev[t] + 1
        PROVE  FALSE
    <3>1. w \in home[t] /\ Index(w, lev[t]) = i  BY <1>3, <2>1
    <3>2. Index(w, lev[t]) \in DOMAIN m.table[t]  BY <2>1, <3>1, NextOnTheWay
    <3> QED  BY <3>1, <3>2 DEF i
  <2> SUFFICES ASSUME NEW u \in TablesOf(n), NEW s \in TablesOf(n), NEW w \in home2[u],
                      w \in home2[s], lev2[u] = lev2[s]
               PROVE  u = s
    BY DEF Apart
  <2>2. CASE u # g /\ s # g
    <3>1. u \in TablesOf(m) /\ s \in TablesOf(m) /\ w \in home[u] /\ w \in home[s]
          /\ lev[u] = lev[s]
      BY <1>2, <2>2
    <3> QED  BY <3>1 DEF IsTree, Apart
  <2>3. CASE u = g /\ s # g
    <3>1. s \in TablesOf(m) /\ w \in new /\ w \in home[s] /\ lev[s] = lev[t] + 1
      BY <1>2, <2>3
    <3> QED  BY <2>1, <3>1
  <2>4. CASE u # g /\ s = g
    <3>1. u \in TablesOf(m) /\ w \in new /\ w \in home[u] /\ lev[u] = lev[t] + 1
      BY <1>2, <2>4
    <3> QED  BY <2>1, <3>1
  <2> QED  BY <2>2, <2>3, <2>4
<1>10. Alike(n, lev2, home2)
  <2> SUFFICES ASSUME NEW u \in TablesOf(n), NEW w \in home2[u], NEW x \in home2[u],
                      NEW l \in 1 .. 4, l < lev2[u]
               PROVE  Index(w, l) = Index(x, l)
    BY DEF Alike
  <2>1. CASE u # g
    <3>1. u \in TablesOf(m) /\ w \in home[u] /\ x \in home[u] /\ l < lev[u]  BY <1>2, <2>1
    <3> QED  BY <3>1 DEF IsTree, Alike
  <2>2. CASE u = g
    <3>1. /\ w \in home[t] /\ x \in home[t] /\ l < lev[t] + 1
          /\ Index(w, lev[t]) = i /\ Index(x, lev[t]) = i
      BY <1>2, <1>3, <2>2
    <3>2. CASE l < lev[t]  BY <3>1, <3>2 DEF IsTree, Alike
    <3>3. CASE l = lev[t]  BY <3>1, <3>3
    <3> QED  BY <1>1, <3>1, <3>2, <3>3
  <2> QED  BY <2>1, <2>2
<1> QED  BY <1>4, <1>5, <1>7, <1>8, <1>9, <1>10 DEF IsTree
-----------------------------------------------------------------------------
(* The walk of the processor *)

\* The table a way has come to.
Reached(m, path) == IF path = << >> THEN m.root ELSE Last(path).frame

\* One step of the walk: the entry is there and the way grows by it, or the way
\* stays as it is.
LEMMA FollowIs ==
    ASSUME NEW m \in Memory, NEW path \in Seq(Entry), NEW v
    PROVE  LET t == Reached(m, path)
               i == Index(v, Len(path) + 1)
           IN  IF t \in TablesOf(m) /\ i \in DOMAIN m.table[t]
               THEN /\ Follow(m, path, v) = Append(path, m.table[t][i])
                    /\ Follow(m, path, v) \in Seq(Entry)
                    /\ Len(Follow(m, path, v)) = Len(path) + 1
                    /\ Reached(m, Follow(m, path, v)) = m.table[t][i].frame
                    /\ Follow(m, path, v)[Len(path) + 1] = m.table[t][i]
                    /\ \A k \in 1 .. Len(path) : Follow(m, path, v)[k] = path[k]
               ELSE Follow(m, path, v) = path
<1> DEFINE t == Reached(m, path)
           i == Index(v, Len(path) + 1)
           e == m.table[t][i]
           next == Append(path, e)
<1>1. Follow(m, path, v) = IF t \in TablesOf(m) /\ i \in DOMAIN m.table[t] THEN next ELSE path
  BY DEF Follow, Reached, Present, TablesOf
<1> HIDE DEF t, i
<1>2. ASSUME t \in TablesOf(m), i \in DOMAIN m.table[t]
      PROVE  /\ next \in Seq(Entry) /\ Len(next) = Len(path) + 1
             /\ Reached(m, next) = e.frame
             /\ next[Len(path) + 1] = e
             /\ \A k \in 1 .. Len(path) : next[k] = path[k]
  <2>1. m.table[t] \in Rows  BY <1>2, MemoryIs
  <2>2. e \in Entry  BY <1>2, <2>1, RowIs
  <2> HIDE DEF e, Entry
  <2>3. Len(path) \in Nat  OBVIOUS
  <2>4. next \in Seq(Entry) /\ Len(next) = Len(path) + 1 /\ next[Len(path) + 1] = e
        /\ \A k \in 1 .. Len(path) : next[k] = path[k]
    BY <2>2, <2>3
  <2>5. next # << >>  BY <2>3, <2>4
  <2>6. Last(next) = next[Len(next)]  BY DEF Last
  <2> HIDE DEF next
  <2>7. Last(next) = e  BY <2>4, <2>6
  <2> QED  BY <2>4, <2>5, <2>7 DEF Reached
<1> HIDE DEF next, e
<1>3. CASE t \in TablesOf(m) /\ i \in DOMAIN m.table[t]
  <2>1. Follow(m, path, v) = next  BY <1>1, <1>3
  <2> QED  BY <1>2, <1>3, <2>1 DEF t, i, next, e
<1>4. CASE ~(t \in TablesOf(m) /\ i \in DOMAIN m.table[t])
  BY <1>1, <1>4 DEF t, i
<1> QED  BY <1>3, <1>4

\* The four steps of the walk, by name.
Walked(m, v, n) ==
    IF n = 0 THEN << >>
    ELSE IF n = 1 THEN Follow(m, << >>, v)
    ELSE IF n = 2 THEN Follow(m, Follow(m, << >>, v), v)
    ELSE IF n = 3 THEN Follow(m, Follow(m, Follow(m, << >>, v), v), v)
    ELSE Chain(m, v)

\* Each of them is a step.
LEMMA WalkedIs ==
    ASSUME NEW m, NEW v
    PROVE  /\ Walked(m, v, 0) = << >> /\ Walked(m, v, 4) = Chain(m, v)
           /\ \A n \in 0 .. 3 : Walked(m, v, n + 1) = Follow(m, Walked(m, v, n), v)
<1>1. Walked(m, v, 0) = << >> /\ Walked(m, v, 4) = Chain(m, v)  BY DEF Walked
<1>2. ASSUME NEW n \in 0 .. 3 PROVE Walked(m, v, n + 1) = Follow(m, Walked(m, v, n), v)
  <2>1. CASE n = 0  BY <2>1 DEF Walked
  <2>2. CASE n = 1  BY <2>2 DEF Walked
  <2>3. CASE n = 2  BY <2>3 DEF Walked
  <2>4. CASE n = 3  BY <2>4 DEF Walked, Chain
  <2> QED  BY <2>1, <2>2, <2>3, <2>4
<1> QED  BY <1>1, <1>2

\* The entry that would come next is there.
GoesOn(m, v, path) ==
    /\ Reached(m, path) \in TablesOf(m)
    /\ Index(v, Len(path) + 1) \in DOMAIN m.table[Reached(m, path)]

\* A walk of n steps has at most n entries.  If it has n it came to a table of the
\* next level, if it has less it can't go on; each of its entries is on the way.
WalkedWell(m, lev, home, v, n) ==
    LET path == Walked(m, v, n) IN
    /\ path \in Seq(Entry) /\ Len(path) \in 0 .. n
    /\ Len(path) = n /\ n < 4 =>
          /\ Reached(m, path) \in TablesOf(m) /\ lev[Reached(m, path)] = n + 1
          /\ v \in home[Reached(m, path)]
    /\ Len(path) < n => ~GoesOn(m, v, path)
    /\ \A k \in 1 .. Len(path) : \E t \in TablesOf(m) :
          /\ lev[t] = k /\ v \in home[t] /\ Index(v, k) \in DOMAIN m.table[t]
          /\ path[k] = m.table[t][Index(v, k)]

\* The walk goes down the tree.
LEMMA WalkIsWell ==
    ASSUME NEW m \in Memory, NEW lev, NEW home, IsTree(m, lev, home), NEW v \in Pages
    PROVE  \A n \in 0 .. 4 : WalkedWell(m, lev, home, v, n)
<1> DEFINE W(n) == WalkedWell(m, lev, home, v, n)
<1>1. W(0)
  <2>1. << >> \in Seq(Entry) /\ Len(<< >>) = 0  OBVIOUS
  <2>2. Reached(m, << >>) = m.root  BY DEF Reached
  <2>3. m.root \in TablesOf(m) /\ lev[m.root] = 1 /\ home[m.root] = Pages  BY DEF IsTree
  <2>4. /\ << >> \in Seq(Entry) /\ Len(<< >>) \in 0 .. 0 /\ ~(Len(<< >>) < 0)
        /\ \A k \in 1 .. Len(<< >>) : FALSE
    BY <2>1
  <2>5. Walked(m, v, 0) = << >>  BY WalkedIs
  <2> DEFINE path == Walked(m, v, 0)
  <2>6. /\ path \in Seq(Entry) /\ Len(path) \in 0 .. 0 /\ ~(Len(path) < 0)
        /\ \A k \in 1 .. Len(path) : FALSE
        /\ Reached(m, path) = m.root
    BY <2>2, <2>4, <2>5
  <2> HIDE DEF path, Entry
  <2>7. v \in home[m.root] /\ lev[m.root] = 0 + 1  BY <2>3
  <2> QED  BY <2>3, <2>6, <2>7 DEF WalkedWell, path
<1>2. ASSUME NEW n \in 0 .. 3, W(n) PROVE W(n + 1)
  <2> DEFINE path == Walked(m, v, n)
             next == Walked(m, v, n + 1)
             t == Reached(m, path)
             i == Index(v, Len(path) + 1)
  <2>1. next = Follow(m, path, v)  BY WalkedIs
  <2>2. /\ path \in Seq(Entry) /\ Len(path) \in 0 .. n
        /\ Len(path) = n => t \in TablesOf(m) /\ lev[t] = n + 1 /\ v \in home[t]
        /\ Len(path) < n => ~(t \in TablesOf(m) /\ i \in DOMAIN m.table[t])
        /\ \A k \in 1 .. Len(path) : \E u \in TablesOf(m) :
              /\ lev[u] = k /\ v \in home[u] /\ Index(v, k) \in DOMAIN m.table[u]
              /\ path[k] = m.table[u][Index(v, k)]
    BY <1>2 DEF WalkedWell, GoesOn
  <2> HIDE DEF path
  <2>3. IF t \in TablesOf(m) /\ i \in DOMAIN m.table[t]
        THEN /\ next \in Seq(Entry) /\ Len(next) = Len(path) + 1
             /\ Reached(m, next) = m.table[t][i].frame
             /\ next[Len(path) + 1] = m.table[t][i]
             /\ \A k \in 1 .. Len(path) : next[k] = path[k]
        ELSE next = path
    BY <2>1, <2>2, FollowIs
  <2>4. n + 1 \in 1 .. 4 /\ (n + 1 < 4 <=> n # 3)  OBVIOUS
  <2> HIDE DEF next, t
  <2>5. CASE t \in TablesOf(m) /\ i \in DOMAIN m.table[t] /\ Len(path) = n
    <3>1. /\ next \in Seq(Entry) /\ Len(next) = n + 1
          /\ Reached(m, next) = m.table[t][Index(v, n + 1)].frame
          /\ next[n + 1] = m.table[t][Index(v, n + 1)]
          /\ \A k \in 1 .. n : next[k] = path[k]
      BY <2>3, <2>5
    <3>2. /\ lev[t] = n + 1 /\ v \in home[t] /\ Index(v, n + 1) \in DOMAIN m.table[t]
      BY <2>2, <2>5
    <3>3. \A k \in 1 .. n + 1 : \E u \in TablesOf(m) :
              /\ lev[u] = k /\ v \in home[u] /\ Index(v, k) \in DOMAIN m.table[u]
              /\ next[k] = m.table[u][Index(v, k)]
      <4> TAKE k \in 1 .. n + 1
      <4>1. CASE k = n + 1  BY <2>5, <3>1, <3>2, <4>1
      <4>2. CASE k # n + 1
        <5>1. k \in 1 .. n  BY <4>2
        <5>2. k \in 1 .. Len(path)  BY <2>5, <5>1
        <5> QED  BY <2>2, <3>1, <5>1, <5>2
      <4> QED  BY <4>1, <4>2
    <3>4. n + 1 < 4 => /\ Reached(m, next) \in TablesOf(m) /\ lev[Reached(m, next)] = n + 2
                       /\ v \in home[Reached(m, next)]
      <4> SUFFICES ASSUME n + 1 < 4
                   PROVE  /\ Reached(m, next) \in TablesOf(m)
                          /\ lev[Reached(m, next)] = n + 2
                          /\ v \in home[Reached(m, next)]
        OBVIOUS
      <4>1. lev[t] < 4 /\ lev[t] = n + 1  BY <3>2
      <4>2. LET u == m.table[t][Index(v, lev[t])].frame IN
            u \in TablesOf(m) /\ lev[u] = lev[t] + 1 /\ v \in home[u]
        BY <2>5, <3>2, <4>1, StepDown
      <4> QED  BY <3>1, <4>1, <4>2
    <3>5. Len(next) \in 0 .. n + 1 /\ (n + 1) + 1 = n + 2  BY <3>1
    <3> QED  BY <3>1, <3>3, <3>4, <3>5 DEF WalkedWell, next
  <2>6. CASE t \in TablesOf(m) /\ i \in DOMAIN m.table[t] /\ Len(path) < n
    BY <2>2, <2>6
  <2>7. CASE ~(t \in TablesOf(m) /\ i \in DOMAIN m.table[t])
    <3>1. next = path  BY <2>3, <2>7
    <3>2. Len(next) \in 0 .. n + 1 /\ Len(next) # n + 1  BY <2>2, <3>1
    <3>3. ~GoesOn(m, v, next)  BY <2>7, <3>1 DEF GoesOn, t
    <3> QED  BY <2>2, <3>1, <3>2, <3>3 DEF WalkedWell, next
  <2>8. Len(path) = n \/ Len(path) < n  BY <2>2
  <2> QED  BY <2>5, <2>6, <2>7, <2>8
<1> HIDE DEF W
<1>3. W(1)
  <2>1. 0 \in 0 .. 3 /\ 0 + 1 = 1  OBVIOUS
  <2> QED  BY <1>1, <1>2, <2>1
<1>4. W(2)
  <2>1. 1 \in 0 .. 3 /\ 1 + 1 = 2  OBVIOUS
  <2> QED  BY <1>2, <1>3, <2>1
<1>5. W(3)
  <2>1. 2 \in 0 .. 3 /\ 2 + 1 = 3  OBVIOUS
  <2> QED  BY <1>2, <1>4, <2>1
<1>6. W(4)
  <2>1. 3 \in 0 .. 3 /\ 3 + 1 = 4  OBVIOUS
  <2> QED  BY <1>2, <1>5, <2>1
<1> SUFFICES ASSUME NEW n \in 0 .. 4 PROVE W(n)  BY DEF W
<1>7. n = 0 \/ n = 1 \/ n = 2 \/ n = 3 \/ n = 4  OBVIOUS
<1> QED  BY <1>1, <1>3, <1>4, <1>5, <1>6, <1>7
\* The tables on the way to a page hang in each other.
LEMMA TablesAbove ==
    ASSUME NEW m, NEW lev, NEW home, IsTree(m, lev, home),
           NEW t \in TablesOf(m), lev[t] = 4, NEW v \in home[t]
    PROVE  \A n \in 1 .. 4 : \E u \in TablesOf(m) : lev[u] = n /\ v \in home[u]
<1> DEFINE Has(n) == \E u \in TablesOf(m) : lev[u] = n /\ v \in home[u]
<1>1. Has(4)  OBVIOUS
<1>2. ASSUME NEW n \in 2 .. 4, Has(n) PROVE Has(n - 1)
  <2>1. PICK u \in TablesOf(m) : lev[u] = n /\ v \in home[u]  BY <1>2
  <2>2. lev[u] > 1  BY <2>1
  <2> QED  BY <2>1, <2>2, StepUp
<1> HIDE DEF Has
<1>3. Has(3)
  <2>1. 4 \in 2 .. 4 /\ 4 - 1 = 3  OBVIOUS
  <2> QED  BY <1>1, <1>2, <2>1
<1>4. Has(2)
  <2>1. 3 \in 2 .. 4 /\ 3 - 1 = 2  OBVIOUS
  <2> QED  BY <1>2, <1>3, <2>1
<1>5. Has(1)
  <2>1. 2 \in 2 .. 4 /\ 2 - 1 = 1  OBVIOUS
  <2> QED  BY <1>2, <1>4, <2>1
<1> SUFFICES ASSUME NEW n \in 1 .. 4 PROVE Has(n)  BY DEF Has
<1>6. n = 1 \/ n = 2 \/ n = 3 \/ n = 4  OBVIOUS
<1> QED  BY <1>1, <1>3, <1>4, <1>5, <1>6

\* From a table on the way to v that isn't the last, v's entry leads on when v has
\* a last table.
LEMMA EntryOnTheWay ==
    ASSUME NEW m, NEW lev, NEW home, IsTree(m, lev, home),
           NEW t \in TablesOf(m), lev[t] = 4, NEW v \in home[t],
           NEW u \in TablesOf(m), lev[u] < 4, v \in home[u]
    PROVE  Index(v, lev[u]) \in DOMAIN m.table[u]
<1>1. lev[u] \in 1 .. 4  BY TreeIs
<1>2. lev[u] + 1 \in 1 .. 4  BY <1>1
<1>3. PICK s \in TablesOf(m) : lev[s] = lev[u] + 1 /\ v \in home[s]  BY <1>2, TablesAbove
<1> QED  BY <1>3, NextOnTheWay

\* A mapped page has a leaf, and its translation and its protection are those of
\* the entries on the way.
LEMMA WalkArrived ==
    ASSUME NEW m \in Memory, NEW lev, NEW home, IsTree(m, lev, home), NEW v \in Pages,
           Mapped(m, v)
    PROVE  /\ \E t \in TablesOf(m) : /\ HasLeaf(m, lev, home, t, v)
                                     /\ Translation(m, v) = m.table[t][Index(v, 4)].frame
           /\ \A k \in 1 .. 4 : \E u \in TablesOf(m) :
                 /\ lev[u] = k /\ v \in home[u] /\ Index(v, k) \in DOMAIN m.table[u]
                 /\ Chain(m, v)[k] = m.table[u][Index(v, k)]
<1> DEFINE path == Chain(m, v)
<1>1. WalkedWell(m, lev, home, v, 4) /\ Walked(m, v, 4) = path
  <2>1. 4 \in 0 .. 4  OBVIOUS
  <2> QED  BY <2>1, WalkIsWell, WalkedIs
<1>2. Len(path) = 4 /\ Translation(m, v) = path[4].frame  BY DEF Mapped, Translation
<1> HIDE DEF path
<1>3. \A k \in 1 .. 4 : \E u \in TablesOf(m) :
         /\ lev[u] = k /\ v \in home[u] /\ Index(v, k) \in DOMAIN m.table[u]
         /\ path[k] = m.table[u][Index(v, k)]
  BY <1>1, <1>2 DEF WalkedWell
<1>4. \E t \in TablesOf(m) : /\ HasLeaf(m, lev, home, t, v)
                             /\ Translation(m, v) = m.table[t][Index(v, 4)].frame
  <2>1. 4 \in 1 .. 4  OBVIOUS
  <2>2. PICK u \in TablesOf(m) : /\ lev[u] = 4 /\ v \in home[u]
                                 /\ Index(v, 4) \in DOMAIN m.table[u]
                                 /\ path[4] = m.table[u][Index(v, 4)]
    BY <1>3, <2>1
  <2> QED  BY <1>2, <2>2 DEF HasLeaf
<1> QED  BY <1>3, <1>4 DEF path

\* A page with a leaf is mapped, to the leaf's frame.
LEMMA WalkArrives ==
    ASSUME NEW m \in Memory, NEW lev, NEW home, IsTree(m, lev, home), NEW v \in Pages,
           NEW t, HasLeaf(m, lev, home, t, v)
    PROVE  Mapped(m, v) /\ Translation(m, v) = m.table[t][Index(v, 4)].frame
<1>1. t \in TablesOf(m) /\ lev[t] = 4 /\ v \in home[t] /\ Index(v, 4) \in DOMAIN m.table[t]
  BY DEF HasLeaf
<1>2. ASSUME NEW n \in 0 .. 3, Len(Walked(m, v, n)) = n
      PROVE  Len(Walked(m, v, n + 1)) = n + 1
  <2> DEFINE path == Walked(m, v, n)
             u == Reached(m, path)
             i == Index(v, Len(path) + 1)
  <2>1. n \in 0 .. 4 /\ n < 4  OBVIOUS
  <2>2. WalkedWell(m, lev, home, v, n)  BY <2>1, WalkIsWell
  <2>3. path \in Seq(Entry) /\ u \in TablesOf(m) /\ lev[u] = n + 1 /\ v \in home[u]
    BY <1>2, <2>1, <2>2 DEF WalkedWell
  <2>4. Index(v, n + 1) \in DOMAIN m.table[u]
    <3>1. CASE n = 3
      <4>1. u = t  BY <1>1, <2>3, <3>1, OneLastTable
      <4> QED  BY <1>1, <3>1, <4>1
    <3>2. CASE n # 3
      <4>1. lev[u] < 4  BY <2>3, <3>2
      <4>2. Index(v, lev[u]) \in DOMAIN m.table[u]  BY <1>1, <2>3, <4>1, EntryOnTheWay
      <4> QED  BY <2>3, <4>2
    <3> QED  BY <3>1, <3>2
  <2>5. Walked(m, v, n + 1) = Follow(m, path, v)  BY WalkedIs
  <2>6. Len(path) = n /\ i \in DOMAIN m.table[u]  BY <1>2, <2>4
  <2> HIDE DEF path
  <2>7. Len(Follow(m, path, v)) = Len(path) + 1  BY <2>3, <2>6, FollowIs
  <2> QED  BY <2>5, <2>6, <2>7
<1>3. Len(Walked(m, v, 0)) = 0  BY WalkedIs
<1>4. Len(Walked(m, v, 4)) = 4
  <2>1. 0 \in 0 .. 3 /\ 1 \in 0 .. 3 /\ 2 \in 0 .. 3 /\ 3 \in 0 .. 3
        /\ 0 + 1 = 1 /\ 1 + 1 = 2 /\ 2 + 1 = 3 /\ 3 + 1 = 4
    OBVIOUS
  <2>2. Len(Walked(m, v, 1)) = 1  BY <1>2, <1>3, <2>1
  <2>3. Len(Walked(m, v, 2)) = 2  BY <1>2, <2>1, <2>2
  <2>4. Len(Walked(m, v, 3)) = 3  BY <1>2, <2>1, <2>3
  <2> QED  BY <1>2, <2>1, <2>4
<1>5. Mapped(m, v)  BY <1>4, WalkedIs DEF Mapped
<1>6. PICK u \in TablesOf(m) : /\ HasLeaf(m, lev, home, u, v)
                               /\ Translation(m, v) = m.table[u][Index(v, 4)].frame
  BY <1>5, WalkArrived
<1>7. u = t  BY <1>1, <1>6, OneLastTable DEF HasLeaf
<1> QED  BY <1>5, <1>6, <1>7
-----------------------------------------------------------------------------
(* What holds of the memory while the machine runs                           *)

Direct == DirectFrames(machine)

\* Page v is one of section s.
InSection(v, s) ==
    /\ s \in DOMAIN machine.sections
    /\ \E k \in 0 .. machine.sections[s].pages - 1 : v = PageOf(machine.sections[s], k)

\* The flags that say how a section is protected.
SameProtection(flags, bits) ==
    /\ "W" \in flags <=> "W" \in bits
    /\ "XD" \in flags <=> "XD" \in bits

\* A page of a section has its section's protection.
ProtectedAs(v, flags) ==
    LaidOut(machine) =>
        \A s : InSection(v, s) => SameProtection(flags, machine.sections[s].flags)

\* The leaf of page v is as it should be: a page of the direct map has its own
\* frame and, but for the first, may be written; a page of a section has the
\* section's frame and protection.
LeafRight(v, f, flags) ==
    /\ \A d \in Direct : v = Hhdm(d) => f = d /\ (d # 0 => "W" \in flags)
    /\ \A s \in DOMAIN machine.sections : \A k \in 0 .. machine.sections[s].pages - 1 :
          v = PageOf(machine.sections[s], k) => f = FrameOf(machine.sections[s], k)
    /\ ProtectedAs(v, flags)

LeavesRight(m, lev, home) ==
    \A t \in TablesOf(m) : lev[t] = 4 => \A v \in home[t] :
        Index(v, 4) \in DOMAIN m.table[t] =>
            LeafRight(v, m.table[t][Index(v, 4)].frame, m.table[t][Index(v, 4)].flags)

\* The directories on the way to v must not keep it from being written.
MustWrite(v) ==
    \/ \E d \in Direct : v = Hhdm(d)
    \/ LaidOut(machine) /\ \E s : InSection(v, s) /\ "W" \in machine.sections[s].flags

\* The directories on the way to such pages allow writes, and none forbids execution.
Writes(m, lev, home) ==
    \A t \in TablesOf(m) : lev[t] < 4 =>
        /\ \A v \in home[t] :
              MustWrite(v) /\ Index(v, lev[t]) \in DOMAIN m.table[t] =>
                "W" \in m.table[t][Index(v, lev[t])].flags
        /\ \A i \in DOMAIN m.table[t] : "XD" \notin m.table[t][i].flags

\* Every usable frame is free, a table or one of A, and only one of these.
Owned(m, A) ==
    /\ m.pool \cap TablesOf(m) = {} /\ m.pool \cap A = {} /\ TablesOf(m) \cap A = {}
    /\ m.pool \cup TablesOf(m) \cup A = machine.usable

\* The frames of B are mapped at their place in the direct map.
Backed(m, lev, home, B) == \A f \in B : \E t : HasLeaf(m, lev, home, t, Hhdm(f))

\* Every page of a section is mapped.
SectionsHave(m, lev, home) ==
    LaidOut(machine) =>
        \A v, s : InSection(v, s) => \E t : HasLeaf(m, lev, home, t, v)

\* Once the tables are loaded, so are those of them the first 4 GiB hold, no page of
\* the first 4 GiB misses a table, and all sections are mapped.
SelfMapped(m, lev, home) ==
    Loaded(m) =>
        /\ \A f \in TablesOf(m) : f < machine.direct =>
              \E t : HasLeaf(m, lev, home, t, Hhdm(f))
        /\ \A f \in 0 .. machine.direct - 1 :
              \E t \in TablesOf(m) : lev[t] = 4 /\ Hhdm(f) \in home[t]
        /\ SectionsHave(m, lev, home)

\* A memory on which the kernel can go on, with A in other hands than the pool's
\* and the tables' and B mapped.
Good(m, lev, home, A, B) ==
    /\ m \in Memory /\ Running(m) /\ m.cr3 \in {0, m.root}
    /\ IsTree(m, lev, home)
    /\ LeavesRight(m, lev, home) /\ Writes(m, lev, home)
    /\ Owned(m, A) /\ Backed(m, lev, home, B) /\ SelfMapped(m, lev, home)

\* The reasons for which the machine may have stopped.
Reason(m) ==
    \/ m.halt = "panic" /\ m.pool = {}
    \/ m.halt = "fault" /\ \E f \in machine.usable : f >= machine.direct

Halted(m) ==
    /\ m \in Memory /\ m.pool \subseteq machine.usable /\ TablesOf(m) \subseteq machine.usable
    /\ m.root \in {0} \cup TablesOf(m) /\ m.cr3 \in {0, m.root}
    /\ Reason(m)

\* What the bootloader and the linker promise, for the machine at hand.
LEMMA MachineIs ==
    ASSUME machine \in Machines
    PROVE  /\ machine.limit \in Nat /\ machine.direct \in Nat \ {0}
           /\ machine.usable \in SUBSET Nat /\ 0 \notin machine.usable
           /\ \A f \in machine.usable : f < machine.limit /\ f \in Direct
           /\ \A f \in 0 .. machine.direct - 1 : f \in Direct
           /\ \A d \in Direct : d \in Nat /\ Hhdm(d) \in Pages
           /\ machine.sections \in Seq(Span)
<1>1. machine \in Machine /\ Promised(machine)  BY AddressSpaceConstants
<1>2. /\ machine.limit \in Nat /\ machine.direct \in Nat \ {0}
      /\ machine.usable \in SUBSET Nat /\ machine.sections \in Seq(Span)
  <2> HIDE DEF Span
  <2> QED  BY <1>1 DEF Machine
<1>3. machine.usable \subseteq 1 .. machine.limit - 1  BY <1>1 DEF Promised
<1>4. 0 \notin machine.usable /\ \A f \in machine.usable : f < machine.limit /\ f \in Direct
  BY <1>2, <1>3 DEF Direct, DirectFrames
<1>5. HhdmBase + machine.limit <= PageEnd /\ HhdmBase + machine.direct <= PageEnd
  BY <1>1 DEF Promised, Hhdm, Fits, FourGiB
<1>6. ASSUME NEW d \in Direct PROVE d \in Nat /\ Hhdm(d) \in Pages
  <2>1. d \in 0 .. machine.direct - 1 \/ d \in 0 .. machine.limit - 1
    BY DEF Direct, DirectFrames
  <2> QED  BY <1>2, <1>5, <2>1, FanoutIs DEF Hhdm, Pages
<1>7. \A f \in 0 .. machine.direct - 1 : f \in Direct  BY DEF Direct, DirectFrames
<1> QED  BY <1>2, <1>4, <1>6, <1>7

\* What the linker and the bootloader promise of a section.
LEMMA SectionIs ==
    ASSUME machine \in Machines, NEW s \in DOMAIN machine.sections,
           NEW r, r = machine.sections[s]
    PROVE  /\ r.virt \in Nat /\ r.phys \in Nat /\ r.pages \in Nat
           /\ r.flags \in SUBSET {"P", "W", "XD", "PAT"}
           /\ Fits(r) /\ (InPlace(r) \/ Elsewhere(machine, r))
           /\ \A t \in DOMAIN machine.sections : Agree(r, machine.sections[t])
<1>1. Promised(machine)  BY AddressSpaceConstants
<1>2. r \in Span
  <2>1. machine.sections \in Seq(Span)  BY MachineIs
  <2> HIDE DEF Span
  <2> QED  BY <2>1
<1>3. r.virt \in Nat /\ r.phys \in Nat /\ r.pages \in Nat /\ r.flags \in SUBSET {"W", "XD", "PAT"}
  BY <1>2 DEF Span
<1>4. /\ Fits(r) /\ (InPlace(r) \/ Elsewhere(machine, r))
      /\ \A t \in DOMAIN machine.sections : Agree(r, machine.sections[t])
  BY <1>1 DEF Promised
<1> QED  BY <1>3, <1>4

\* A page that is both of the direct map and of a section has the same frame in
\* both, and the section is writable.  As the image is laid out it may not be executed
\* either, and no such frame is usable.
LEMMA SectionInPlace ==
    ASSUME machine \in Machines, NEW s \in DOMAIN machine.sections,
           NEW r, r = machine.sections[s], NEW k \in 0 .. r.pages - 1,
           NEW d \in Direct, Index(PageOf(r, k), 1) = Index(Hhdm(d), 1)
    PROVE  /\ "W" \in r.flags
           /\ PageOf(r, k) = Hhdm(d) => FrameOf(r, k) = d
           /\ LaidOut(machine) =>
                 /\ "XD" \in r.flags
                 /\ PageOf(r, k) = Hhdm(d) => d \notin machine.usable \cup {0}
<1>1. /\ r.virt \in Nat /\ r.phys \in Nat /\ r.pages \in Nat
      /\ InPlace(r) \/ Elsewhere(machine, r)
  BY SectionIs
<1>2. ~Elsewhere(machine, r)  BY DEF Elsewhere, Direct
<1>3. InPlace(r)  BY <1>1, <1>2
<1>4. d \in Nat  BY MachineIs
<1>5. "W" \in r.flags /\ (PageOf(r, k) = Hhdm(d) => FrameOf(r, k) = d)
  BY <1>1, <1>3, <1>4, FanoutIs DEF InPlace, PageOf, FrameOf, Hhdm
<1>6. ASSUME LaidOut(machine)
      PROVE  "XD" \in r.flags /\ FrameOf(r, k) \notin machine.usable \cup {0}
  BY <1>3, <1>6 DEF LaidOut
<1> QED  BY <1>5, <1>6

\* A page of the direct map in a section, as the image is laid out.
LEMMA DirectSection ==
    ASSUME machine \in Machines, LaidOut(machine), NEW d \in Direct, NEW s,
           InSection(Hhdm(d), s)
    PROVE  /\ d \notin machine.usable /\ d # 0
           /\ "W" \in machine.sections[s].flags /\ "XD" \in machine.sections[s].flags
<1> PICK r : r = machine.sections[s]  OBVIOUS
<1>1. s \in DOMAIN machine.sections /\ \E k \in 0 .. r.pages - 1 : Hhdm(d) = PageOf(r, k)
  BY DEF InSection
<1>2. PICK k \in 0 .. r.pages - 1 : Hhdm(d) = PageOf(r, k)  BY <1>1
<1> QED  BY <1>1, <1>2, SectionInPlace

\* Stopping a good memory for a good reason.
LEMMA StopHalts ==
    ASSUME NEW m \in Memory, NEW why \in {"panic", "fault"},
           m.pool \subseteq machine.usable, TablesOf(m) \subseteq machine.usable,
           m.root \in {0} \cup TablesOf(m), m.cr3 \in {0, m.root},
           \/ why = "panic" /\ m.pool = {}
           \/ why = "fault" /\ \E f \in machine.usable : f >= machine.direct
    PROVE  Halted(Stop(m, why))
<1>1. why \in Halts  BY DEF Halts
<1> PICK n : n = Stop(m, why)  OBVIOUS
<1>2. /\ n \in Memory /\ n.halt = why /\ n.pool = m.pool /\ TablesOf(n) = TablesOf(m)
      /\ n.root = m.root /\ n.cr3 = m.cr3
  BY <1>1, StopIs
<1>3. Halted(n)  BY <1>2 DEF Halted, Reason
<1> QED  BY <1>3

\* The parts of a good memory.
LEMMA GoodIs ==
    ASSUME machine \in Machines, NEW m, NEW lev, NEW home, NEW A, NEW B,
           Good(m, lev, home, A, B)
    PROVE  /\ m \in Memory /\ Running(m) /\ m.halt = "no" /\ m.cr3 \in {0, m.root}
           /\ IsTree(m, lev, home) /\ m.root \in TablesOf(m) /\ m.root # 0
           /\ m.pool \subseteq machine.usable /\ TablesOf(m) \subseteq machine.usable
           /\ A \subseteq machine.usable
           /\ \A f \in machine.usable : f \in Nat /\ f # 0 /\ f \in Direct /\ Hhdm(f) \in Pages
<1>1. /\ m \in Memory /\ Running(m) /\ m.cr3 \in {0, m.root} /\ IsTree(m, lev, home)
      /\ m.pool \subseteq machine.usable /\ TablesOf(m) \subseteq machine.usable
      /\ A \subseteq machine.usable
  BY DEF Good, Owned
<1>2. m.halt = "no"  BY <1>1 DEF Running
<1>3. m.root \in TablesOf(m)  BY <1>1 DEF IsTree
<1>4. \A f \in machine.usable : f \in Nat /\ f # 0 /\ f \in Direct /\ Hhdm(f) \in Pages
  BY MachineIs
<1> QED  BY <1>1, <1>2, <1>3, <1>4

\* The kernel reaches a table through the direct map, or there is memory the direct
\* map does not cover.
LEMMA TableReachable ==
    ASSUME machine \in Machines, NEW m, NEW lev, NEW home, NEW A, NEW B,
           Good(m, lev, home, A, B), NEW t \in TablesOf(m), ~DirectlyMapped(m, t)
    PROVE  Halted(Stop(m, "fault"))
<1>1. t \in machine.usable /\ t \in Nat /\ Hhdm(t) \in Pages /\ t \in Direct
      /\ m \in Memory /\ IsTree(m, lev, home)
  BY GoodIs
<1>2. Loaded(m) /\ ~(Mapped(m, Hhdm(t)) /\ Translation(m, Hhdm(t)) = t)
  BY DEF DirectlyMapped
<1>3. ~(t < machine.direct)
  <2> SUFFICES ASSUME t < machine.direct PROVE FALSE  OBVIOUS
  <2>1. PICK u : HasLeaf(m, lev, home, u, Hhdm(t))  BY <1>2 DEF Good, SelfMapped
  <2>2. /\ Mapped(m, Hhdm(t))
        /\ Translation(m, Hhdm(t)) = m.table[u][Index(Hhdm(t), 4)].frame
    BY <1>1, <2>1, WalkArrives
  <2>3. LeafRight(Hhdm(t), m.table[u][Index(Hhdm(t), 4)].frame,
                  m.table[u][Index(Hhdm(t), 4)].flags)
    BY <2>1 DEF Good, LeavesRight, HasLeaf
  <2>4. m.table[u][Index(Hhdm(t), 4)].frame = t  BY <1>1, <2>3 DEF LeafRight
  <2> QED  BY <1>2, <2>2, <2>4
<1>4. t >= machine.direct  BY <1>1, <1>3, MachineIs
<1> QED  BY <1>1, <1>4, GoodIs, StopHalts

\* A free frame that is directly mapped has a leaf.
LEMMA ReachableHasLeaf ==
    ASSUME NEW m \in Memory, NEW lev, NEW home, IsTree(m, lev, home),
           NEW f, Hhdm(f) \in Pages, Loaded(m), DirectlyMapped(m, f)
    PROVE  \E t : HasLeaf(m, lev, home, t, Hhdm(f))
<1>1. Mapped(m, Hhdm(f))  BY DEF DirectlyMapped
<1> QED  BY <1>1, WalkArrived
-----------------------------------------------------------------------------
(* Going down to a page's last table *)

\* get_next_table finds the table an entry leads to, or the machine stops.
LEMMA NextTableFound ==
    ASSUME machine \in Machines, NEW m, NEW lev, NEW home, NEW A, NEW B,
           Good(m, lev, home, A, B), NEW t \in TablesOf(m), lev[t] < 4, NEW v \in home[t],
           Index(v, lev[t]) \in DOMAIN m.table[t], NEW flags, NEW allocate,
           NEW w, w = NextTable(m, t, Index(v, lev[t]), flags, allocate)
    PROVE  \/ w.m = m /\ w.at = m.table[t][Index(v, lev[t])].frame
           \/ w.at = 0 /\ Halted(w.m)
<1> DEFINE i == Index(v, lev[t])
           u == m.table[t][i].frame
<1>1. Present(m, t, i) /\ Running(m)  BY DEF Present, Good
<1>2. w = NextTable(m, t, i, flags, allocate)  OBVIOUS
<1> HIDE DEF i
<1>3. CASE DirectlyMapped(m, t)
  <2>1. (IF allocate /\ ~Present(m, t, i) THEN CreateTable(m, t, i, flags) ELSE m) = m
    BY <1>1, Zenon
  <2>2. Arrived(m, t, i) = [m |-> m, at |-> u]  BY <1>1 DEF Arrived
  <2>3. w = [m |-> m, at |-> u]  BY <1>2, <1>3, <2>1, <2>2, Zenon DEF NextTable
  <2> QED  BY <2>3 DEF i
<1>4. CASE ~DirectlyMapped(m, t)
  <2>1. w = [m |-> Stop(m, "fault"), at |-> 0]  BY <1>2, <1>4 DEF NextTable
  <2>2. Halted(Stop(m, "fault"))  BY <1>4, TableReachable
  <2> QED  BY <2>1, <2>2
<1> QED  BY <1>3, <1>4

\* A call that was to find table t, without a change, did so or stopped the machine.
Finds(m, w, t) ==
    \/ w.m = m /\ w.at = t
    \/ w.at = 0 /\ Halted(w.m)

\* virt2pte finds the last table of a page that has one, or the machine stops.
LEMMA Virt2pteFound ==
    ASSUME machine \in Machines, NEW m, NEW lev, NEW home, NEW A, NEW B,
           Good(m, lev, home, A, B), NEW t \in TablesOf(m), lev[t] = 4, NEW v \in home[t],
           NEW flags, NEW allocate, NEW w, w = Virt2pte(m, v, flags, allocate)
    PROVE  Finds(m, w, t)
<1>1. IsTree(m, lev, home) /\ m.root \in TablesOf(m) /\ m.root # 0 /\ v \in Pages
      /\ \A u \in TablesOf(m) : u # 0
  <2>1. IsTree(m, lev, home) /\ m.root \in TablesOf(m) /\ m.root # 0
        /\ TablesOf(m) \subseteq machine.usable
        /\ \A f \in machine.usable : f # 0
    BY GoodIs
  <2>2. v \in Pages  BY <2>1, TreeIs
  <2> QED  BY <2>1, <2>2
<1>2. lev[m.root] = 1 /\ v \in home[m.root]  BY <1>1 DEF IsTree
<1> DEFINE Ends(s) == s.at = 0 /\ Halted(s.m)
           At(s, n) == /\ s.m = m /\ s.at \in TablesOf(m)
                       /\ lev[s.at] = n /\ v \in home[s.at]
           w1 == [m |-> m, at |-> m.root]
           w2 == Down(w1, Index(v, 1), flags, allocate)
           w3 == Down(w2, Index(v, 2), flags, allocate)
           w4 == Down(w3, Index(v, 3), flags, allocate)
<1>3. ASSUME NEW s, NEW n \in 1 .. 3, Ends(s) \/ At(s, n),
             NEW x, x = Down(s, Index(v, n), flags, allocate)
      PROVE  Ends(x) \/ At(x, n + 1)
  <2>1. CASE Ends(s)
    <3>1. x = s  BY <1>3, <2>1 DEF Down
    <3> QED  BY <2>1, <3>1
  <2>2. CASE At(s, n)
    <3> PICK u : u = s.at  OBVIOUS
    <3>1. u \in TablesOf(m) /\ lev[u] = n /\ v \in home[u] /\ u # 0 /\ s.m = m
      BY <1>1, <2>2
    <3>2. x = NextTable(m, u, Index(v, lev[u]), flags, allocate)  BY <1>3, <3>1 DEF Down
    <3>3. lev[u] < 4  BY <3>1
    <3>4. Index(v, lev[u]) \in DOMAIN m.table[u]  BY <1>1, <3>1, <3>3, EntryOnTheWay
    <3> DEFINE y == m.table[u][Index(v, lev[u])].frame
    <3>5. y \in TablesOf(m) /\ lev[y] = lev[u] + 1 /\ v \in home[y]
      BY <1>1, <3>1, <3>3, <3>4, StepDown
    <3>6. (x.m = m /\ x.at = y) \/ Ends(x)  BY <3>1, <3>2, <3>3, <3>4, NextTableFound
    <3> HIDE DEF y
    <3>7. ASSUME x.m = m, x.at = y PROVE At(x, n + 1)  BY <3>1, <3>5, <3>7
    <3> QED  BY <3>6, <3>7
  <2> QED  BY <1>3, <2>1, <2>2
<1>4. At(w1, 1)  BY <1>1, <1>2
<1> HIDE DEF w1, At, Ends
<1>5. Ends(w2) \/ At(w2, 2)
  <2>1. 1 \in 1 .. 3 /\ 1 + 1 = 2  OBVIOUS
  <2> QED  BY <1>3, <1>4, <2>1, Zenon
<1> HIDE DEF w2
<1>6. Ends(w3) \/ At(w3, 3)
  <2>1. 2 \in 1 .. 3 /\ 2 + 1 = 3  OBVIOUS
  <2> QED  BY <1>3, <1>5, <2>1, Zenon
<1> HIDE DEF w3
<1>7. Ends(w4) \/ At(w4, 4)
  <2>1. 3 \in 1 .. 3 /\ 3 + 1 = 4  OBVIOUS
  <2> QED  BY <1>3, <1>6, <2>1, Zenon
<1>8. w = ReadThrough(w4)  BY DEF Virt2pte, w1, w2, w3
<1> HIDE DEF w4
<1>9. ASSUME At(w4, 4) PROVE Finds(m, w, t)
  <2>1. w4.at \in TablesOf(m) /\ lev[w4.at] = 4 /\ v \in home[w4.at] /\ w4.m = m
    BY <1>9 DEF At
  <2>2. w4.at = t  BY <1>1, <2>1, OneLastTable
  <2>3. CASE DirectlyMapped(m, t)  BY <1>8, <2>1, <2>2, <2>3 DEF ReadThrough, Finds
  <2>4. CASE ~DirectlyMapped(m, t)
    <3>1. w = [m |-> Stop(m, "fault"), at |-> 0]
      BY <1>1, <1>8, <2>1, <2>2, <2>4 DEF ReadThrough
    <3>2. Halted(Stop(m, "fault"))  BY <2>4, TableReachable
    <3> QED  BY <3>1, <3>2 DEF Finds
  <2> QED  BY <2>3, <2>4
<1>10. ASSUME Ends(w4) PROVE Finds(m, w, t)  BY <1>8, <1>10 DEF Ends, ReadThrough, Finds
<1> QED  BY <1>7, <1>9, <1>10

\* A directory entry made with these flags on the way to page v doesn't take writes
\* away from pages behind it: where there are any, a mapped page has one already.
KeepsWrites(B, v, flags) ==
    /\ "XD" \notin flags
    /\ \A w, l : MustWrite(w) /\ l \in 1 .. 3 /\ SameWay(v, w, l) =>
          "W" \in flags \/ \E g \in B : SameWay(v, Hhdm(g), l)

\* Where a step down may lead from memory m: to a table of level l on the way to
\* page v in a good memory, or to an end.
Arrives(m, w, A, B, v, l) ==
    \/ w.at = 0 /\ Halted(w.m)
    \/ \E lev, home : /\ Good(w.m, lev, home, A, B)
                      /\ w.at \in TablesOf(w.m) /\ lev[w.at] = l /\ v \in home[w.at]
                      /\ w.m.root = m.root /\ w.m.cr3 = m.cr3

\* A mapped page whose way is that of v down to table t's entry has that entry.
LEMMA SameEntry ==
    ASSUME NEW m, NEW lev, NEW home, IsTree(m, lev, home),
           NEW t \in TablesOf(m), lev[t] < 4, NEW v \in home[t],
           NEW u, NEW w, HasLeaf(m, lev, home, u, w), SameWay(v, w, lev[t])
    PROVE  Index(v, lev[t]) \in DOMAIN m.table[t]
<1>1. u \in TablesOf(m) /\ lev[u] = 4 /\ w \in home[u]  BY DEF HasLeaf
<1>2. lev[t] \in 1 .. 3  BY TreeIs
<1> DEFINE W(n) == \A x \in TablesOf(m) : lev[x] = n /\ n <= lev[t] /\ v \in home[x] => w \in home[x]
<1>3. W(1)
  <2>1. m.root \in TablesOf(m) /\ lev[m.root] = 1 /\ home[m.root] = Pages  BY DEF IsTree
  <2> SUFFICES ASSUME NEW x \in TablesOf(m), lev[x] = 1, v \in home[x] PROVE w \in home[x]
    OBVIOUS
  <2>2. v \in Pages /\ w \in Pages  BY <1>1, TreeIs
  <2>3. x = m.root  BY <2>1, <2>2, OneLastTable
  <2> QED  BY <2>1, <2>2, <2>3
<1>4. ASSUME NEW n \in 1 .. 2, W(n) PROVE W(n + 1)
  <2> SUFFICES ASSUME NEW x \in TablesOf(m), lev[x] = n + 1, n + 1 <= lev[t], v \in home[x]
               PROVE  w \in home[x]
    OBVIOUS
  <2>1. PICK s \in TablesOf(m) : /\ lev[s] = lev[x] - 1 /\ v \in home[s]
                                 /\ Index(v, lev[s]) \in DOMAIN m.table[s]
                                 /\ m.table[s][Index(v, lev[s])].frame = x
    BY StepUp
  <2>2. lev[s] = n /\ n <= lev[t]  BY <1>2, <2>1
  <2>3. w \in home[s]  BY <1>4, <2>1, <2>2
  <2>4. lev[s] \in 1 .. lev[t]  BY <1>2, <2>2
  <2>5. Index(v, lev[s]) = Index(w, lev[s])  BY <2>4 DEF SameWay
  <2>6. lev[s] < 4  BY <1>4, <2>2
  <2>7. home[x] = Behind(lev, home, s, Index(v, lev[s]))
    BY <2>1, <2>6 DEF IsTree, Leads
  <2> QED  BY <2>3, <2>5, <2>7 DEF Behind
<1>5. w \in home[t]
  <2> HIDE DEF W
  <2>1. W(2)
    <3>1. 1 \in 1 .. 2 /\ 1 + 1 = 2  OBVIOUS
    <3> QED  BY <1>3, <1>4, <3>1
  <2>2. W(3)
    <3>1. 2 \in 1 .. 2 /\ 2 + 1 = 3  OBVIOUS
    <3> QED  BY <2>1, <1>4, <3>1
  <2>3. W(lev[t])  BY <1>2, <1>3, <2>1, <2>2
  <2>4. lev[t] <= lev[t]  BY <1>2
  <2> QED  BY <2>3, <2>4 DEF W
<1>6. Index(w, lev[t]) \in DOMAIN m.table[t]  BY <1>1, <1>5, EntryOnTheWay
<1>7. lev[t] \in 1 .. lev[t]  BY <1>2
<1> QED  BY <1>6, <1>7 DEF SameWay

\* create_table in a missing entry on the way to page v, with g the lowest free
\* frame: the memory it makes is good.
LEMMA TableMade ==
    ASSUME machine \in Machines, NEW m, NEW lev, NEW home, NEW A, NEW B,
           Good(m, lev, home, A, B), NEW t \in TablesOf(m), lev[t] < 4, NEW v \in home[t],
           Index(v, lev[t]) \notin DOMAIN m.table[t],
           NEW flags \in SUBSET {"P", "W", "XD", "PAT"}, KeepsWrites(B, v, flags),
           NEW g \in m.pool, DirectlyMapped(m, g), NEW n,
           n = SetEntry(SetRow(Take(m, g), g, << >>), t, Index(v, lev[t]), g, flags)
    PROVE  /\ Arrives(m, [m |-> n, at |-> g], A, B, v, lev[t] + 1)
           /\ Running(n) /\ Index(v, lev[t]) \in DOMAIN n.table[t]
           /\ n.table[t][Index(v, lev[t])].frame = g
<1> DEFINE i == Index(v, lev[t])
<1>1. /\ m \in Memory /\ IsTree(m, lev, home) /\ m.halt = "no" /\ m.cr3 \in {0, m.root}
      /\ m.pool \subseteq machine.usable /\ TablesOf(m) \subseteq machine.usable
      /\ g \in Nat /\ Hhdm(g) \in Pages /\ g # 0 /\ g \in machine.usable
  BY GoodIs
<1>2. g \notin TablesOf(m) /\ g \notin A  BY DEF Good, Owned
<1>3. t \in Nat /\ t # g /\ i \in Slots /\ lev[t] \in 1 .. 3 /\ v \in Pages
  BY <1>1, <1>2, MemoryIs, TreeIs
<1> PICK taken : taken = Take(m, g)  OBVIOUS
<1>4. /\ taken \in Memory /\ taken.table = m.table /\ TablesOf(taken) = TablesOf(m)
      /\ taken.root = m.root /\ taken.cr3 = m.cr3 /\ taken.halt = m.halt
      /\ \A x : x \in taken.pool <=> x \in m.pool /\ x # g
  BY <1>1, TakeIs
<1> PICK none : none = << >>  OBVIOUS
<1>5. none \in Rows /\ \A j : j \notin DOMAIN none  BY RowsHave
<1> PICK fresh : fresh = SetRow(taken, g, none)  OBVIOUS
<1>6. /\ fresh \in Memory /\ fresh.table[g] = none
      /\ \A u : u \in TablesOf(fresh) <=> u \in TablesOf(m) \/ u = g
      /\ \A u \in TablesOf(m) : u # g => fresh.table[u] = m.table[u]
      /\ fresh.pool = taken.pool /\ fresh.root = m.root
      /\ fresh.cr3 = m.cr3 /\ fresh.halt = m.halt
  <2>0. taken \in Memory /\ g \in Nat /\ none \in Rows  BY <1>1, <1>4, <1>5
  <2>1. fresh \in Memory  BY <2>0, SetRowIs
  <2>2. fresh.table[g] = none  BY <2>0, SetRowIs
  <2>3. \A u : u \in TablesOf(fresh) <=> u \in TablesOf(taken) \/ u = g
    BY <2>0, SetRowIs
  <2>4. \A u \in TablesOf(taken) : u # g => fresh.table[u] = taken.table[u]
    BY <2>0, SetRowIs
  <2>5. fresh.pool = taken.pool  BY <2>0, SetRowIs
  <2>6. fresh.root = taken.root  BY <2>0, SetRowIs
  <2>7. fresh.cr3 = taken.cr3  BY <2>0, SetRowIs
  <2>8. fresh.halt = taken.halt  BY <2>0, SetRowIs
  <2> QED  BY <1>4, <2>1, <2>2, <2>3, <2>4, <2>5, <2>6, <2>7, <2>8
<1>7. n = SetEntry(fresh, t, i, g, flags)  OBVIOUS
<1> HIDE DEF i
<1>8. /\ n \in Memory /\ \A u : u \in TablesOf(n) <=> u \in TablesOf(m) \/ u = g
      /\ \A j : j \in DOMAIN n.table[t] <=> j \in DOMAIN m.table[t] \/ j = i
      /\ n.table[t][i].frame = g /\ n.table[t][i].flags = flags
      /\ \A j \in DOMAIN m.table[t] : j # i => n.table[t][j] = m.table[t][j]
      /\ \A j : j \notin DOMAIN n.table[g]
      /\ \A u \in TablesOf(m) : u # t => n.table[u] = m.table[u]
      /\ \A x : x \in n.pool <=> x \in m.pool /\ x # g
      /\ n.root = m.root /\ n.cr3 = m.cr3 /\ n.halt = m.halt
  <2>1. t \in TablesOf(fresh) /\ fresh.table[t] = m.table[t]  BY <1>3, <1>6
  <2>2. /\ n \in Memory /\ TablesOf(n) = TablesOf(fresh)
        /\ \A j : j \in DOMAIN n.table[t] <=> j \in DOMAIN fresh.table[t] \/ j = i
        /\ n.table[t][i].frame = g /\ n.table[t][i].flags = flags
        /\ \A j \in DOMAIN fresh.table[t] : j # i => n.table[t][j] = fresh.table[t][j]
        /\ \A u \in TablesOf(fresh) : u # t => n.table[u] = fresh.table[u]
        /\ n.pool = fresh.pool /\ n.root = fresh.root
        /\ n.cr3 = fresh.cr3 /\ n.halt = fresh.halt
    BY <1>1, <1>3, <1>6, <1>7, <2>1, SetEntryIs
  <2>3. n.table[g] = none  BY <1>3, <1>6, <2>2
  <2>4. \A u \in TablesOf(m) : u # t => n.table[u] = m.table[u]  BY <1>2, <1>6, <2>2
  <2> QED  BY <1>4, <1>5, <1>6, <2>1, <2>2, <2>3, <2>4
<1>9. i \notin DOMAIN m.table[t]  BY DEF i
<1>10. \A j : j \notin DOMAIN n.table[g]  BY <1>8
<1> PICK lev2 : lev2 = [u \in TablesOf(n) |-> IF u = g THEN lev[t] + 1 ELSE lev[u]]
  OBVIOUS
<1> PICK home2 : home2 = [u \in TablesOf(n) |->
                            IF u = g THEN Behind(lev, home, t, i) ELSE home[u]]
  OBVIOUS
<1>12. /\ lev2[g] = lev[t] + 1 /\ home2[g] = Behind(lev, home, t, i)
       /\ \A u \in TablesOf(m) : lev2[u] = lev[u] /\ home2[u] = home[u]
       /\ v \in home2[g]
  <2>1. v \in Behind(lev, home, t, i)  BY DEF Behind, i
  <2> QED  BY <1>2, <1>8, <2>1
<1>11. IsTree(n, lev2, home2)
  <2>1. \A j \in DOMAIN m.table[t] : n.table[t][j] = m.table[t][j]  BY <1>8, <1>9
  <2>2. lev2 \in [TablesOf(n) -> 1 .. 4] /\ home2 \in [TablesOf(n) -> SUBSET Pages]
    <3>1. \A u \in TablesOf(m) : lev[u] \in 1 .. 4 /\ home[u] \in SUBSET Pages
      BY <1>1, TreeIs
    <3>2. Behind(lev, home, t, i) \in SUBSET Pages  BY <3>1 DEF Behind
    <3>3. lev[t] + 1 \in 1 .. 4  BY <1>3
    <3>4. ASSUME NEW u \in TablesOf(n)
          PROVE  /\ (IF u = g THEN lev[t] + 1 ELSE lev[u]) \in 1 .. 4
                 /\ (IF u = g THEN Behind(lev, home, t, i) ELSE home[u]) \in SUBSET Pages
      <4>1. CASE u = g  BY <3>2, <3>3, <4>1
      <4>2. CASE u # g  BY <1>8, <3>1, <4>2
      <4> QED  BY <4>1, <4>2
    <3> QED  BY <3>4
  <2>3. /\ Index(v, lev[t]) \notin DOMAIN m.table[t]
        /\ \A j : j \in DOMAIN n.table[t] <=>
                     j \in DOMAIN m.table[t] \/ j = Index(v, lev[t])
        /\ n.table[t][Index(v, lev[t])].frame = g
    BY <1>8 DEF i
  <2>4. home2[g] = Behind(lev, home, t, Index(v, lev[t]))  BY <1>12 DEF i
  <2>5. lev2[g] = lev[t] + 1 /\ (\A u \in TablesOf(m) : lev2[u] = lev[u] /\ home2[u] = home[u])
    BY <1>12
  <2>6. /\ m \in Memory /\ IsTree(m, lev, home) /\ g \notin TablesOf(m)
        /\ (\A u : u \in TablesOf(n) <=> u \in TablesOf(m) \/ u = g) /\ n.root = m.root
        /\ \A u \in TablesOf(m) : u # t => n.table[u] = m.table[u]
    BY <1>1, <1>2, <1>8
  <2> QED  BY <1>10, <2>1, <2>2, <2>3, <2>4, <2>5, <2>6, HungTree, SMTT(40)
<1>13. \A x, s : HasLeaf(m, lev, home, s, x) => HasLeaf(n, lev2, home2, s, x)
  <2> SUFFICES ASSUME NEW x, NEW s, HasLeaf(m, lev, home, s, x)
               PROVE  HasLeaf(n, lev2, home2, s, x)
    OBVIOUS
  <2>1. s # t /\ s \in TablesOf(m)  BY DEF HasLeaf
  <2> QED  BY <1>8, <1>12, <2>1 DEF HasLeaf
<1>14. LeavesRight(n, lev2, home2)
  <2> SUFFICES ASSUME NEW s \in TablesOf(n), lev2[s] = 4, NEW x \in home2[s],
                      Index(x, 4) \in DOMAIN n.table[s]
               PROVE  LeafRight(x, n.table[s][Index(x, 4)].frame, n.table[s][Index(x, 4)].flags)
    BY DEF LeavesRight
  <2>1. s # g /\ s \in TablesOf(m)  BY <1>8, <1>10
  <2>2. lev[s] = 4 /\ x \in home[s] /\ s # t  BY <1>12, <2>1
  <2>3. n.table[s] = m.table[s]  BY <1>8, <2>1, <2>2
  <2> QED  BY <2>1, <2>2, <2>3 DEF Good, LeavesRight
<1>15. Writes(n, lev2, home2)
  <2>1. ASSUME NEW s \in TablesOf(n), lev2[s] < 4, NEW j \in DOMAIN n.table[s]
        PROVE  /\ s \in TablesOf(m) /\ lev2[s] = lev[s] /\ home2[s] = home[s]
               /\ \/ s = t /\ j = i
                  \/ j \in DOMAIN m.table[s] /\ n.table[s][j] = m.table[s][j]
    <3>1. s # g /\ s \in TablesOf(m)  BY <1>8, <1>10, <2>1
    <3>2. lev2[s] = lev[s] /\ home2[s] = home[s]  BY <1>12, <3>1
    <3>3. CASE s = t  BY <1>8, <2>1, <3>1, <3>2, <3>3
    <3>4. CASE s # t  BY <1>8, <2>1, <3>1, <3>2, <3>4
    <3> QED  BY <3>3, <3>4
  <2>2. ASSUME NEW s \in TablesOf(n), lev2[s] < 4, NEW d \in home2[s], MustWrite(d),
               Index(d, lev2[s]) \in DOMAIN n.table[s]
        PROVE  "W" \in n.table[s][Index(d, lev2[s])].flags
    <3>1. s \in TablesOf(m) /\ lev2[s] = lev[s] /\ home2[s] = home[s]  BY <2>1, <2>2
    <3>2. CASE s = t /\ Index(d, lev[s]) = i
      <4>1. SameWay(v, d, lev[t])
        <5>1. ASSUME NEW k \in 1 .. lev[t] PROVE Index(v, k) = Index(d, k)
          <6>1. CASE k = lev[t]  BY <3>2, <6>1 DEF i
          <6>2. CASE k # lev[t]
            <7>1. k \in 1 .. 4 /\ k < lev[t]  BY <1>3, <6>2
            <7>2. d \in home[t]  BY <2>2, <3>1, <3>2
            <7> QED  BY <1>1, <7>1, <7>2 DEF IsTree, Alike
          <6> QED  BY <6>1, <6>2
        <5> QED  BY <5>1 DEF SameWay
      <4>2. "W" \in flags \/ \E b \in B : SameWay(v, Hhdm(b), lev[t])
        BY <1>3, <2>2, <4>1 DEF KeepsWrites
      <4>3. ASSUME NEW b \in B, SameWay(v, Hhdm(b), lev[t]) PROVE FALSE
        <5>1. PICK u : HasLeaf(m, lev, home, u, Hhdm(b))  BY DEF Good, Backed
        <5>2. Index(v, lev[t]) \in DOMAIN m.table[t]  BY <1>1, <4>3, <5>1, SameEntry
        <5> QED  BY <1>9, <5>2 DEF i
      <4>4. "W" \in flags  BY <4>2, <4>3
      <4> QED  BY <1>8, <3>1, <3>2, <4>4
    <3>3. CASE ~(s = t /\ Index(d, lev[s]) = i)
      <4>1. /\ Index(d, lev[s]) \in DOMAIN m.table[s]
            /\ n.table[s][Index(d, lev[s])] = m.table[s][Index(d, lev[s])]
        BY <2>1, <2>2, <3>1, <3>3
      <4> QED  BY <2>2, <3>1, <4>1 DEF Good, Writes
    <3> QED  BY <3>2, <3>3
  <2>3. ASSUME NEW s \in TablesOf(n), lev2[s] < 4, NEW j \in DOMAIN n.table[s]
        PROVE  "XD" \notin n.table[s][j].flags
    <3>1. CASE s = t /\ j = i  BY <1>8, <3>1 DEF KeepsWrites
    <3>2. CASE ~(s = t /\ j = i)
      <4>1. /\ s \in TablesOf(m) /\ lev[s] < 4 /\ j \in DOMAIN m.table[s]
            /\ n.table[s][j] = m.table[s][j]
        BY <2>1, <2>3, <3>2
      <4> QED  BY <4>1 DEF Good, Writes
    <3> QED  BY <3>1, <3>2
  <2> QED  BY <2>2, <2>3 DEF Writes
<1>16. Owned(n, A)  BY <1>1, <1>2, <1>8 DEF Good, Owned
<1>17. Backed(n, lev2, home2, B)  BY <1>13 DEF Good, Backed
<1>18. SelfMapped(n, lev2, home2)
  <2> SUFFICES ASSUME Loaded(n)
               PROVE  /\ \A f \in TablesOf(n) : f < machine.direct =>
                            \E s : HasLeaf(n, lev2, home2, s, Hhdm(f))
                      /\ \A f \in 0 .. machine.direct - 1 :
                            \E s \in TablesOf(n) : lev2[s] = 4 /\ Hhdm(f) \in home2[s]
                      /\ SectionsHave(n, lev2, home2)
    BY DEF SelfMapped
  <2>1. Loaded(m)  BY <1>8 DEF Loaded
  <2>2. \E s : HasLeaf(m, lev, home, s, Hhdm(g))  BY <1>1, <2>1, ReachableHasLeaf
  <2>3. \A f \in TablesOf(n) : f < machine.direct =>
           \E s : HasLeaf(n, lev2, home2, s, Hhdm(f))
    BY <1>8, <1>13, <2>1, <2>2 DEF Good, SelfMapped
  <2>4. \A f \in 0 .. machine.direct - 1 :
           \E s \in TablesOf(m) : lev[s] = 4 /\ Hhdm(f) \in home[s]
    BY <2>1 DEF Good, SelfMapped
  <2>5. ASSUME NEW f \in 0 .. machine.direct - 1
        PROVE  \E s \in TablesOf(n) : lev2[s] = 4 /\ Hhdm(f) \in home2[s]
    <3>1. PICK s \in TablesOf(m) : lev[s] = 4 /\ Hhdm(f) \in home[s]  BY <2>4
    <3> QED  BY <1>8, <1>12, <3>1
  <2>6. SectionsHave(n, lev2, home2)
    <3>1. SectionsHave(m, lev, home)  BY <2>1 DEF Good, SelfMapped
    <3> QED  BY <1>13, <3>1 DEF SectionsHave
  <2> QED  BY <2>3, <2>5, <2>6
<1>19. Running(n) /\ n.cr3 \in {0, n.root}  BY <1>1, <1>8 DEF Running
<1>20. Good(n, lev2, home2, A, B)
  BY <1>8, <1>11, <1>14, <1>15, <1>16, <1>17, <1>18, <1>19 DEF Good
<1>21. g \in TablesOf(n) /\ lev2[g] = lev[t] + 1 /\ v \in home2[g]
       /\ n.root = m.root /\ n.cr3 = m.cr3
  BY <1>8, <1>12
<1> DEFINE w == [m |-> n, at |-> g]
<1>22. w.m = n /\ w.at = g  OBVIOUS
<1> HIDE DEF w
<1>23. Arrives(m, w, A, B, v, lev[t] + 1)  BY <1>20, <1>21, <1>22 DEF Arrives
<1> QED  BY <1>8, <1>19, <1>23 DEF w, i

\* Page v is one of the direct map of usable memory, as any page is that the kernel
\* maps once its tables are loaded.
Covered(m, v) == Loaded(m) => \E f \in machine.usable : v = Hhdm(f)

\* get_next_table makes the table a missing entry lacks, or the machine stops.
LEMMA NextTableMade ==
    ASSUME machine \in Machines, NEW m, NEW lev, NEW home, NEW A, NEW B,
           Good(m, lev, home, A, B), NEW t \in TablesOf(m), lev[t] < 4, NEW v \in home[t],
           Index(v, lev[t]) \notin DOMAIN m.table[t],
           NEW flags \in SUBSET {"P", "W", "XD", "PAT"}, KeepsWrites(B, v, flags), Covered(m, v)
    PROVE  Arrives(m, NextTable(m, t, Index(v, lev[t]), flags, TRUE), A, B, v, lev[t] + 1)
<1> DEFINE i == Index(v, lev[t])
           w == NextTable(m, t, i, flags, TRUE)
           n == CreateTable(m, t, i, flags)
<1>1. /\ m \in Memory /\ IsTree(m, lev, home) /\ m.halt = "no" /\ m.cr3 \in {0, m.root}
      /\ m.pool \subseteq machine.usable /\ TablesOf(m) \subseteq machine.usable
      /\ m.root \in TablesOf(m) /\ \A f \in machine.usable : f \in Nat
  BY GoodIs
<1>2. i \notin DOMAIN m.table[t]  OBVIOUS
<1> HIDE DEF i
<1>3. CASE ~DirectlyMapped(m, t)
  <2>1. w = [m |-> Stop(m, "fault"), at |-> 0]  BY <1>3 DEF NextTable
  <2>2. Halted(Stop(m, "fault"))  BY <1>3, TableReachable
  <2> HIDE DEF w
  <2>3. w.at = 0 /\ w.m = Stop(m, "fault")  BY <2>1
  <2>4. w.at = 0 /\ Halted(w.m)  BY <2>2, <2>3
  <2> QED  BY <2>4 DEF Arrives, w, i
<1>4. CASE DirectlyMapped(m, t)
  <2>1. w = Arrived(n, t, i)
    <3>1. ~Present(m, t, i)  BY <1>2 DEF Present
    <3>2. (IF TRUE /\ ~Present(m, t, i) THEN n ELSE m) = n  BY <3>1, Zenon
    <3> HIDE DEF n
    <3> QED  BY <1>4, <3>2, Zenon DEF NextTable, n
  <2>2. ASSUME Halted(n) PROVE w.at = 0 /\ Halted(w.m)
    <3>1. n.halt # "no"  BY <2>2 DEF Halted, Reason
    <3>2. w = [m |-> n, at |-> 0]
      <4> HIDE DEF n
      <4> QED  BY <2>1, <3>1 DEF Arrived, Running
    <3> HIDE DEF n, w
    <3>3. w.at = 0 /\ w.m = n  BY <3>2
    <3> QED  BY <2>2, <3>3
  <2>3. CASE m.pool = {}
    <3>1. n = Stop(m, "panic")  BY <2>3 DEF CreateTable
    <3>2. Halted(n)  BY <1>1, <2>3, <3>1, StopHalts
    <3> QED  BY <2>2, <3>2 DEF Arrives, i
  <2>4. CASE m.pool # {}
    <3> DEFINE g == Min(m.pool)
    <3>1. g \in m.pool
      <4>1. m.pool \in SUBSET Nat  BY <1>1
      <4> QED  BY <2>4, <4>1, MinIsLeast
    <3>2. n = IF ~DirectlyMapped(m, g) THEN Stop(Take(m, g), "fault")
              ELSE SetEntry(SetRow(Take(m, g), g, << >>), t, i, g, flags)
      BY <2>4 DEF CreateTable
    <3> HIDE DEF g, n
    <3>3. CASE ~DirectlyMapped(m, g)
      <4>1. Loaded(m)  BY <3>3 DEF DirectlyMapped
      <4>2. PICK f \in machine.usable : v = Hhdm(f)  BY <4>1 DEF Covered
      <4>3. ~(f < machine.direct)
        <5> SUFFICES ASSUME f < machine.direct PROVE FALSE  OBVIOUS
        <5>1. f \in 0 .. machine.direct - 1  BY <1>1, <4>2, MachineIs
        <5>2. PICK s \in TablesOf(m) : lev[s] = 4 /\ v \in home[s]
          BY <4>1, <4>2, <5>1 DEF Good, SelfMapped
        <5>3. Index(v, lev[t]) \in DOMAIN m.table[t]  BY <1>1, <5>2, EntryOnTheWay
        <5> QED  BY <1>2, <5>3 DEF i
      <4>4. \E x \in machine.usable : x >= machine.direct  BY <1>1, <4>2, <4>3, MachineIs
      <4> PICK taken : taken = Take(m, g)  OBVIOUS
      <4>5. /\ taken \in Memory /\ TablesOf(taken) = TablesOf(m)
            /\ taken.root = m.root /\ taken.cr3 = m.cr3
            /\ \A x : x \in taken.pool <=> x \in m.pool /\ x # g
        BY <1>1, TakeIs
      <4>6. Halted(Stop(taken, "fault"))  BY <1>1, <4>4, <4>5, StopHalts
      <4>7. Halted(n)  BY <3>2, <3>3, <4>6
      <4> QED  BY <2>2, <4>7 DEF Arrives, i
    <3>4. CASE DirectlyMapped(m, g)
      <4>1. n = SetEntry(SetRow(Take(m, g), g, << >>), t, Index(v, lev[t]), g, flags)
        BY <3>2, <3>4 DEF i
      <4>2. /\ Arrives(m, [m |-> n, at |-> g], A, B, v, lev[t] + 1)
            /\ Running(n) /\ i \in DOMAIN n.table[t] /\ n.table[t][i].frame = g
        BY <3>1, <3>4, <4>1, TableMade DEF i
      <4>3. w = [m |-> n, at |-> g]  BY <2>1, <4>2 DEF Arrived, Present
      <4> HIDE DEF w
      <4>4. Arrives(m, w, A, B, v, lev[t] + 1)  BY <4>2, <4>3
      <4> QED  BY <4>4 DEF w, i
    <3> QED  BY <3>3, <3>4
  <2> QED  BY <2>3, <2>4
<1> QED  BY <1>3, <1>4

\* get_next_table leads on to the next table of page v, or the machine stops.
LEMMA NextTableArrives ==
    ASSUME machine \in Machines, NEW m, NEW lev, NEW home, NEW A, NEW B,
           Good(m, lev, home, A, B), NEW t \in TablesOf(m), lev[t] < 4, NEW v \in home[t],
           NEW flags \in SUBSET {"P", "W", "XD", "PAT"}, KeepsWrites(B, v, flags), Covered(m, v),
           NEW x, x = NextTable(m, t, Index(v, lev[t]), flags, TRUE)
    PROVE  Arrives(m, x, A, B, v, lev[t] + 1)
<1>1. CASE Index(v, lev[t]) \in DOMAIN m.table[t]
  <2> DEFINE s == m.table[t][Index(v, lev[t])].frame
  <2>1. (x.m = m /\ x.at = s) \/ (x.at = 0 /\ Halted(x.m))  BY <1>1, NextTableFound
  <2>2. s \in TablesOf(m) /\ lev[s] = lev[t] + 1 /\ v \in home[s]
    <3>1. IsTree(m, lev, home)  BY DEF Good
    <3> QED  BY <1>1, <3>1, StepDown
  <2> HIDE DEF s
  <2> QED  BY <2>1, <2>2 DEF Arrives
<1>2. CASE Index(v, lev[t]) \notin DOMAIN m.table[t]  BY <1>2, NextTableMade
<1> QED  BY <1>1, <1>2

\* One table further down on the way to page v.
LEMMA DownMade ==
    ASSUME machine \in Machines, NEW m, NEW A, NEW B, NEW v, NEW n \in 1 .. 3,
           NEW w, Arrives(m, w, A, B, v, n), Covered(m, v),
           NEW flags \in SUBSET {"P", "W", "XD", "PAT"}, KeepsWrites(B, v, flags),
           NEW x, x = Down(w, Index(v, n), flags, TRUE)
    PROVE  Arrives(m, x, A, B, v, n + 1)
<1>1. CASE w.at = 0 /\ Halted(w.m)
  <2>1. x = w  BY <1>1 DEF Down
  <2> QED  BY <1>1, <2>1 DEF Arrives
<1>2. CASE ~(w.at = 0 /\ Halted(w.m))
  <2> PICK p : p = w.m  OBVIOUS
  <2> PICK t : t = w.at  OBVIOUS
  <2>1. PICK lev, home : /\ Good(p, lev, home, A, B) /\ t \in TablesOf(p) /\ lev[t] = n
                         /\ v \in home[t] /\ p.root = m.root /\ p.cr3 = m.cr3
    BY <1>2 DEF Arrives
  <2>2. t # 0  BY <2>1, GoodIs
  <2>3. x = NextTable(p, t, Index(v, lev[t]), flags, TRUE)  BY <2>1, <2>2 DEF Down
  <2>4. lev[t] < 4 /\ lev[t] + 1 = n + 1  BY <2>1
  <2>5. Covered(p, v)  BY <2>1 DEF Covered, Loaded
  <2>6. Arrives(p, x, A, B, v, n + 1)  BY <2>1, <2>3, <2>4, <2>5, NextTableArrives
  <2> QED  BY <2>1, <2>6 DEF Arrives
<1> QED  BY <1>1, <1>2

\* The table that a call has come to is reached through the direct map, or the machine
\* stops.
LEMMA TableReached ==
    ASSUME machine \in Machines, NEW m, NEW A, NEW B, NEW v, NEW l,
           NEW w, Arrives(m, w, A, B, v, l), NEW x, x = ReadThrough(w)
    PROVE  Arrives(m, x, A, B, v, l)
<1>1. CASE w.at = 0 /\ Halted(w.m)
  <2>1. x = w  BY <1>1 DEF ReadThrough
  <2> QED  BY <2>1
<1>2. CASE ~(w.at = 0 /\ Halted(w.m))
  <2> PICK p : p = w.m  OBVIOUS
  <2> PICK t : t = w.at  OBVIOUS
  <2>1. PICK lev, home : Good(p, lev, home, A, B) /\ t \in TablesOf(p)
    BY <1>2 DEF Arrives
  <2>2. CASE DirectlyMapped(p, t)
    <3>1. x = w  BY <2>2 DEF ReadThrough
    <3> QED  BY <3>1
  <2>3. CASE ~DirectlyMapped(p, t)
    <3>1. t # 0  BY <2>1, GoodIs
    <3>2. x = [m |-> Stop(p, "fault"), at |-> 0]  BY <2>3, <3>1 DEF ReadThrough
    <3>3. Halted(Stop(p, "fault"))  BY <2>1, <2>3, TableReachable
    <3>4. x.at = 0 /\ Halted(x.m)  BY <3>2, <3>3
    <3> QED  BY <3>4 DEF Arrives
  <2> QED  BY <2>2, <2>3
<1> QED  BY <1>1, <1>2

\* virt2pte makes the tables on the way to a page that lacks them, or the machine
\* stops.
LEMMA Virt2pteMade ==
    ASSUME machine \in Machines, NEW m, NEW lev, NEW home, NEW A, NEW B,
           Good(m, lev, home, A, B), NEW v \in Pages,
           NEW flags \in SUBSET {"P", "W", "XD", "PAT"}, KeepsWrites(B, v, flags), Covered(m, v)
    PROVE  Arrives(m, Virt2pte(m, v, flags, TRUE), A, B, v, 4)
<1> DEFINE R(w, n) == Arrives(m, w, A, B, v, n)
           w1 == [m |-> m, at |-> m.root]
           w2 == Down(w1, Index(v, 1), flags, TRUE)
           w3 == Down(w2, Index(v, 2), flags, TRUE)
           w4 == Down(w3, Index(v, 3), flags, TRUE)
<1>1. R(w1, 1)
  <2>1. m.root \in TablesOf(m) /\ lev[m.root] = 1 /\ v \in home[m.root]
    BY GoodIs DEF IsTree
  <2>2. w1.m = m /\ w1.at = m.root  OBVIOUS
  <2> HIDE DEF w1
  <2> QED  BY <2>1, <2>2 DEF Arrives
<1>2. \A w : \A n \in 1 .. 3 : R(w, n) => R(Down(w, Index(v, n), flags, TRUE), n + 1)
  BY DownMade
<1> HIDE DEF R, w1
<1>3. R(w2, 2)
  <2>1. 1 \in 1 .. 3 /\ 1 + 1 = 2  OBVIOUS
  <2> QED  BY <1>1, <1>2, <2>1, Zenon
<1> HIDE DEF w2
<1>4. R(w3, 3)
  <2>1. 2 \in 1 .. 3 /\ 2 + 1 = 3  OBVIOUS
  <2> QED  BY <1>2, <1>3, <2>1, Zenon
<1> HIDE DEF w3
<1>5. R(w4, 4)
  <2>1. 3 \in 1 .. 3 /\ 3 + 1 = 4  OBVIOUS
  <2> QED  BY <1>2, <1>4, <2>1, Zenon
<1>6. Virt2pte(m, v, flags, TRUE) = ReadThrough(w4)  BY DEF Virt2pte, w1, w2, w3
<1> HIDE DEF w4
<1>7. Arrives(m, w4, A, B, v, 4)  BY <1>5 DEF R
<1> QED  BY <1>6, <1>7, TableReached
-----------------------------------------------------------------------------
(* Mapping a page *)

\* The flags of entries are flags.
LEMMA FlagsAre ==
    ASSUME NEW flags \in SUBSET {"P", "W", "XD", "PAT"}
    PROVE  /\ PteFlags(flags) \in SUBSET {"P", "W", "XD", "PAT"}
           /\ DirFlags(flags) \in SUBSET {"P", "W", "XD", "PAT"}
           /\ "W" \in flags => "W" \in PteFlags(flags) /\ "W" \in DirFlags(flags)
           /\ SameProtection(PteFlags(flags), flags) /\ "XD" \notin DirFlags(flags)
  BY DEF PteFlags, DirFlags, SameProtection

\* Where a call goes from memory m: to a good memory under the same root, or to an
\* end.
Goes(m, n, A, B) ==
    \/ Halted(n)
    \/ \E lev, home : Good(n, lev, home, A, B) /\ n.root = m.root /\ n.cr3 = m.cr3

\* Writing the right leaf of a page that has a last table.
LEMMA LeafWritten ==
    ASSUME machine \in Machines, NEW m, NEW lev, NEW home, NEW A, NEW B,
           Good(m, lev, home, A, B), NEW t \in TablesOf(m), lev[t] = 4, NEW v \in home[t],
           NEW f \in Nat, NEW flags \in SUBSET {"P", "W", "XD", "PAT"}, LeafRight(v, f, flags),
           NEW C, \A g \in C : g \in B \/ Hhdm(g) = v,
           NEW n, n = SetEntry(m, t, Index(v, 4), f, flags)
    PROVE  Good(n, lev, home, A, C) /\ n.root = m.root /\ n.cr3 = m.cr3
<1> DEFINE i == Index(v, 4)
<1>1. /\ m \in Memory /\ IsTree(m, lev, home) /\ m.halt = "no" /\ m.cr3 \in {0, m.root}
  BY GoodIs
<1>2. i \in Slots  BY <1>1, TreeIs
<1>3. /\ n \in Memory /\ TablesOf(n) = TablesOf(m)
      /\ \A j : j \in DOMAIN n.table[t] <=> j \in DOMAIN m.table[t] \/ j = i
      /\ n.table[t][i].frame = f /\ n.table[t][i].flags = flags
      /\ \A j \in DOMAIN m.table[t] : j # i => n.table[t][j] = m.table[t][j]
      /\ \A u \in TablesOf(m) : u # t => n.table[u] = m.table[u]
      /\ n.pool = m.pool /\ n.root = m.root /\ n.cr3 = m.cr3 /\ n.halt = m.halt
  <2>1. n = SetEntry(m, t, i, f, flags)  OBVIOUS
  <2> HIDE DEF i
  <2> QED  BY <1>1, <1>2, <2>1, SetEntryIs
<1>4. \A u \in TablesOf(m) : lev[u] < 4 => n.table[u] = m.table[u]  BY <1>3
<1>5. IsTree(n, lev, home)  BY <1>1, <1>3, <1>4, SameTree
<1>6. \A x, s : HasLeaf(m, lev, home, s, x) => HasLeaf(n, lev, home, s, x)
  <2> SUFFICES ASSUME NEW x, NEW s, HasLeaf(m, lev, home, s, x)
               PROVE  HasLeaf(n, lev, home, s, x)
    OBVIOUS
  <2>1. CASE s = t  BY <1>3, <2>1 DEF HasLeaf
  <2>2. CASE s # t  BY <1>3, <2>2 DEF HasLeaf
  <2> QED  BY <2>1, <2>2
<1>7. HasLeaf(n, lev, home, t, v)  BY <1>3 DEF HasLeaf
<1>8. LeavesRight(n, lev, home)
  <2> SUFFICES ASSUME NEW s \in TablesOf(m), lev[s] = 4, NEW x \in home[s],
                      Index(x, 4) \in DOMAIN n.table[s]
               PROVE  LeafRight(x, n.table[s][Index(x, 4)].frame, n.table[s][Index(x, 4)].flags)
    BY <1>3 DEF LeavesRight
  <2>1. CASE s = t /\ Index(x, 4) = i
    <3>1. x = v  BY <1>1, <2>1, OneLeaf
    <3> QED  BY <1>3, <2>1, <3>1
  <2>2. CASE ~(s = t /\ Index(x, 4) = i)
    <3>1. Index(x, 4) \in DOMAIN m.table[s] /\ n.table[s][Index(x, 4)] = m.table[s][Index(x, 4)]
      <4>1. CASE s = t  BY <1>3, <2>2, <4>1
      <4>2. CASE s # t  BY <1>3, <4>2
      <4> QED  BY <4>1, <4>2
    <3> QED  BY <3>1 DEF Good, LeavesRight
  <2> QED  BY <2>1, <2>2
<1>9. Writes(n, lev, home)  BY <1>3, <1>4 DEF Good, Writes
<1>10. Owned(n, A)  BY <1>3 DEF Good, Owned
<1>11. Backed(n, lev, home, C)
  <2> SUFFICES ASSUME NEW g \in C PROVE \E s : HasLeaf(n, lev, home, s, Hhdm(g))
    BY DEF Backed
  <2>1. CASE g \in B
    <3>1. PICK s : HasLeaf(m, lev, home, s, Hhdm(g))  BY <2>1 DEF Good, Backed
    <3> QED  BY <1>6, <3>1
  <2>2. CASE Hhdm(g) = v  BY <1>7, <2>2
  <2> QED  BY <2>1, <2>2
<1>12. SelfMapped(n, lev, home)
  <2> SUFFICES ASSUME Loaded(n)
               PROVE  /\ \A g \in TablesOf(m) : g < machine.direct =>
                            \E s : HasLeaf(n, lev, home, s, Hhdm(g))
                      /\ \A g \in 0 .. machine.direct - 1 :
                            \E s \in TablesOf(m) : lev[s] = 4 /\ Hhdm(g) \in home[s]
                      /\ SectionsHave(n, lev, home)
    BY <1>3 DEF SelfMapped
  <2>1. Loaded(m)  BY <1>3 DEF Loaded
  <2>2. SectionsHave(n, lev, home)  BY <1>6, <2>1 DEF Good, SelfMapped, SectionsHave
  <2> QED  BY <1>6, <2>1, <2>2 DEF Good, SelfMapped
<1>13. Running(n) /\ n.cr3 \in {0, n.root}  BY <1>1, <1>3 DEF Running
<1> QED
  BY <1>3, <1>5, <1>8, <1>9, <1>10, <1>11, <1>12, <1>13 DEF Good

\* Page v belongs to frame f: it is one of the direct map or of a section.
Asked(v, f, flags) ==
    /\ LeafRight(v, f, flags)
    /\ \/ \E d \in Direct : v = Hhdm(d)
       \/ \E s \in DOMAIN machine.sections : \E k \in 0 .. machine.sections[s].pages - 1 :
             v = PageOf(machine.sections[s], k)

\* Such a page has one right frame.
LEMMA OneFrame ==
    ASSUME NEW v, NEW f, NEW flags, Asked(v, f, flags), NEW g, NEW bits, LeafRight(v, g, bits)
    PROVE  f = g
  BY DEF Asked, LeafRight

\* A page's last table is reached when there is one.
LEMMA LastTableFound ==
    ASSUME machine \in Machines, NEW m, NEW lev, NEW home, NEW A, NEW B,
           Good(m, lev, home, A, B), NEW t \in TablesOf(m), lev[t] = 4, NEW v \in home[t],
           NEW flags, NEW w, w = Virt2pte(m, v, flags, TRUE)
    PROVE  Arrives(m, w, A, B, v, 4)
<1>1. Finds(m, w, t)  BY Virt2pteFound
<1> QED  BY <1>1 DEF Arrives, Finds

\* The last table of a page is found, or made if it may be.
LEMMA LastTableReached ==
    ASSUME machine \in Machines, NEW m, NEW lev, NEW home, NEW A, NEW B,
           Good(m, lev, home, A, B), NEW v \in Pages,
           NEW flags \in SUBSET {"P", "W", "XD", "PAT"},
           \/ KeepsWrites(B, v, flags) /\ Covered(m, v)
           \/ \E t \in TablesOf(m) : lev[t] = 4 /\ v \in home[t],
           NEW w, w = Virt2pte(m, v, flags, TRUE)
    PROVE  Arrives(m, w, A, B, v, 4)
<1>1. CASE KeepsWrites(B, v, flags) /\ Covered(m, v)  BY <1>1, Virt2pteMade
<1>2. CASE \E t \in TablesOf(m) : lev[t] = 4 /\ v \in home[t]
  BY <1>2, LastTableFound
<1> QED  BY <1>1, <1>2

\* The entry map writes is right, and no frame is released for it: a page has no
\* other frame than the one it is mapped to.
LEMMA LeafMapped ==
    ASSUME machine \in Machines, NEW m, NEW lev, NEW home, NEW A, NEW B,
           Good(m, lev, home, A, B), NEW t \in TablesOf(m), lev[t] = 4, NEW v \in home[t],
           NEW f \in Nat, NEW flags \in SUBSET {"P", "W", "XD", "PAT"},
           Asked(v, f, PteFlags(flags)),
           NEW C, \A g \in C : g \in B \/ Hhdm(g) = v,
           NEW w, w.m = m, w.at = t, NEW n, n = Remap(w, Index(v, 4), f, flags)
    PROVE  Goes(m, n, A, C)
<1> DEFINE i == Index(v, 4)
<1>1. Running(m)  BY DEF Good
<1>2. ASSUME Present(m, t, i) PROVE m.table[t][i].frame = f
  <2>1. LeafRight(v, m.table[t][i].frame, m.table[t][i].flags)
    BY <1>2 DEF Good, LeavesRight, Present
  <2> QED  BY <2>1, OneFrame
<1>3. n = Remap(w, i, f, flags)  OBVIOUS
<1> HIDE DEF i
<1>4. n = Install(m, t, i, f, flags)
  <2> DEFINE old == m.table[t][i].frame
             q == IF Present(m, t, i) /\ old # f THEN ReleaseFrame(m, old) ELSE m
  <2>1. q = m  BY <1>2
  <2>2. n = Install(q, t, i, f, flags)  BY <1>1, <1>3 DEF Remap
  <2> QED  BY <2>1, <2>2
<1>5. n = SetEntry(m, t, Index(v, 4), f, PteFlags(flags))  BY <1>1, <1>4 DEF Install, i
<1>6. PteFlags(flags) \in SUBSET {"P", "W", "XD", "PAT"} /\ LeafRight(v, f, PteFlags(flags))
  BY FlagsAre DEF Asked
<1>7. Good(n, lev, home, A, C) /\ n.root = m.root /\ n.cr3 = m.cr3
  BY <1>5, <1>6, LeafWritten
<1> QED  BY <1>7 DEF Goes

\* map of one page.
LEMMA PageMapped ==
    ASSUME machine \in Machines, NEW m, NEW lev, NEW home, NEW A, NEW B,
           Good(m, lev, home, A, B), NEW v \in Pages, NEW f \in Nat,
           NEW flags \in SUBSET {"P", "W", "XD", "PAT"}, Asked(v, f, PteFlags(flags)),
           \/ KeepsWrites(B, v, DirFlags(flags)) /\ Covered(m, v)
           \/ \E t \in TablesOf(m) : lev[t] = 4 /\ v \in home[t],
           NEW C, \A g \in C : g \in B \/ Hhdm(g) = v,
           NEW n, n = MapPage(m, v, f, flags)
    PROVE  Goes(m, n, A, C)
<1> PICK w : w = Virt2pte(m, v, DirFlags(flags), TRUE)  OBVIOUS
<1>1. n = Remap(w, Index(v, 4), f, flags)  BY DEF MapPage
<1>2. Arrives(m, w, A, B, v, 4)
  <2>1. DirFlags(flags) \in SUBSET {"P", "W", "XD", "PAT"}  BY FlagsAre
  <2> QED  BY <2>1, LastTableReached
<1>3. CASE w.at = 0 /\ Halted(w.m)
  <2>1. ~Running(w.m)  BY <1>3 DEF Halted, Reason, Running
  <2>2. n = w.m  BY <1>1, <2>1 DEF Remap
  <2> QED  BY <1>3, <2>2 DEF Goes
<1>4. CASE ~(w.at = 0 /\ Halted(w.m))
  <2> PICK p : p = w.m  OBVIOUS
  <2> PICK t : t = w.at  OBVIOUS
  <2>1. PICK lv, hm : /\ Good(p, lv, hm, A, B) /\ t \in TablesOf(p) /\ lv[t] = 4
                      /\ v \in hm[t] /\ p.root = m.root /\ p.cr3 = m.cr3
    BY <1>2, <1>4 DEF Arrives
  <2>2. Goes(p, n, A, C)  BY <1>1, <2>1, LeafMapped
  <2> QED  BY <2>1, <2>2 DEF Goes
<1> QED  BY <1>3, <1>4
-----------------------------------------------------------------------------
(* Unmapping a page *)

\* The memory with frame f free again.
Freed(m, n, f) ==
    /\ n \in Memory /\ n.table = m.table /\ TablesOf(n) = TablesOf(m)
    /\ n.root = m.root /\ n.cr3 = m.cr3 /\ n.halt = m.halt
    /\ \A x : x \in n.pool <=> x \in m.pool \/ x = f

\* Releasing a frame that is in use puts it back into the pool.
LEMMA FrameReleased ==
    ASSUME NEW m \in Memory, NEW f \in Nat, f < machine.limit, f \notin m.pool,
           NEW n, n = ReleaseFrame(m, f)
    PROVE  Freed(m, n, f)
<1>1. n = [m EXCEPT !.pool = m.pool \cup {f}]  BY DEF ReleaseFrame
<1>2. m.pool \cup {f} \in SUBSET Nat  BY DEF Memory
<1> QED  BY <1>1, <1>2 DEF Freed, Memory, TablesOf

\* The memory without an entry of table t, with frame f free again.
Without(m, n, t, i, f) ==
    /\ n \in Memory /\ TablesOf(n) = TablesOf(m)
    /\ \A j : j \in DOMAIN n.table[t] <=> j \in DOMAIN m.table[t] /\ j # i
    /\ \A j \in DOMAIN n.table[t] : n.table[t][j] = m.table[t][j]
    /\ \A u \in TablesOf(m) : u # t => n.table[u] = m.table[u]
    /\ n.root = m.root /\ n.cr3 = m.cr3 /\ n.halt = m.halt
    /\ \A x : x \in n.pool <=> x \in m.pool \/ x = f

\* unmap takes a present entry away and releases its frame.
LEMMA EntryCleared ==
    ASSUME NEW m \in Memory, NEW t \in TablesOf(m), NEW i \in DOMAIN m.table[t],
           NEW f \in Nat, m.table[t][i].frame = f, t # 0, f < machine.limit, f \notin m.pool,
           NEW w, w.m = m, w.at = t, NEW n, n = Unlink(w, i)
    PROVE  Without(m, n, t, i, f)
<1> PICK row : row = m.table[t]  OBVIOUS
<1>1. row \in Rows /\ t \in Nat /\ i \in DOMAIN row  BY MemoryIs
<1> PICK rest : rest = Restrict(row, DOMAIN row \ {i})  OBVIOUS
<1>2. /\ rest \in Rows /\ \A j : j \in DOMAIN rest <=> j \in DOMAIN row /\ j # i
      /\ \A j \in DOMAIN rest : rest[j] = row[j]
  BY <1>1, RowWithout
<1> PICK q : q = SetRow(m, t, rest)  OBVIOUS
<1>3. n = ReleaseFrame(q, f)
  <2>1. row[i].frame = f  OBVIOUS
  <2>2. Present(m, t, i)  BY DEF Present
  <2> QED  BY <2>1, <2>2 DEF Unlink
<1>4. q \in Memory /\ rest \in Rows /\ t \in Nat  BY <1>1, <1>2, SetRowIs
<1>5. q.table[t] = rest  BY <1>1, <1>2, SetRowIs
<1>6. \A u : u \in TablesOf(q) <=> u \in TablesOf(m) \/ u = t  BY <1>1, <1>2, SetRowIs
<1>7. \A u \in TablesOf(m) : u # t => q.table[u] = m.table[u]  BY <1>1, <1>2, SetRowIs
<1>8. q.pool = m.pool  BY <1>1, <1>2, SetRowIs
<1>9. q.root = m.root /\ q.cr3 = m.cr3 /\ q.halt = m.halt
  <2>1. q.root = m.root  BY <1>1, <1>2, SetRowIs
  <2>2. q.cr3 = m.cr3  BY <1>1, <1>2, SetRowIs
  <2>3. q.halt = m.halt  BY <1>1, <1>2, SetRowIs
  <2> QED  BY <2>1, <2>2, <2>3
<1>10. TablesOf(q) = TablesOf(m)  BY <1>6
<1>11. Freed(q, n, f)
  BY <1>3, <1>4, <1>8, FrameReleased
<1>12. row = m.table[t]  OBVIOUS
<1>13. /\ n \in Memory /\ n.table = q.table /\ TablesOf(n) = TablesOf(q)
       /\ n.root = q.root /\ n.cr3 = q.cr3 /\ n.halt = q.halt
       /\ \A x : x \in n.pool <=> x \in q.pool \/ x = f
  BY <1>11 DEF Freed
<1>14. \A u \in TablesOf(m) : u # t => n.table[u] = m.table[u]  BY <1>7, <1>13
<1>15. \A x : x \in n.pool <=> x \in m.pool \/ x = f  BY <1>8, <1>13
<1>16. n.table[t] = rest  BY <1>5, <1>13
<1>17. \A j : j \in DOMAIN n.table[t] <=> j \in DOMAIN m.table[t] /\ j # i
  BY <1>2, <1>12, <1>16
<1>18. \A j \in DOMAIN n.table[t] : n.table[t][j] = m.table[t][j]  BY <1>2, <1>12, <1>16
<1>19. /\ n \in Memory /\ TablesOf(n) = TablesOf(m)
       /\ n.root = m.root /\ n.cr3 = m.cr3 /\ n.halt = m.halt
  BY <1>9, <1>10, <1>13
<1> QED  BY <1>14, <1>15, <1>17, <1>18, <1>19 DEF Without

\* Without the leaf of a frame that goes back into the pool the memory is good.
LEMMA LeafCleared ==
    ASSUME machine \in Machines, NEW m, NEW lev, NEW home, NEW A, NEW B,
           Good(m, lev, home, A, B), NEW f \in A, NEW t, HasLeaf(m, lev, home, t, Hhdm(f)),
           NEW n, Without(m, n, t, Index(Hhdm(f), 4), f),
           NEW A2, \A x : x \in A2 <=> x \in A /\ x # f,
           NEW B2, \A x \in B2 : x \in B /\ x # f /\ x \in Nat
    PROVE  Goes(m, n, A2, B2)
<1> DEFINE v == Hhdm(f)
           i == Index(v, 4)
<1>1. /\ m \in Memory /\ IsTree(m, lev, home) /\ m.halt = "no" /\ m.cr3 \in {0, m.root}
      /\ f \in machine.usable /\ f \in Nat /\ A \subseteq machine.usable
      /\ TablesOf(m) \subseteq machine.usable /\ \A x \in machine.usable : x \in Nat
  BY GoodIs
<1>2. /\ n \in Memory /\ TablesOf(n) = TablesOf(m)
      /\ \A j : j \in DOMAIN n.table[t] <=> j \in DOMAIN m.table[t] /\ j # i
      /\ \A j \in DOMAIN n.table[t] : n.table[t][j] = m.table[t][j]
      /\ \A u \in TablesOf(m) : u # t => n.table[u] = m.table[u]
      /\ n.root = m.root /\ n.cr3 = m.cr3 /\ n.halt = m.halt
      /\ \A x : x \in n.pool <=> x \in m.pool \/ x = f
  BY DEF Without
<1>3. t \in TablesOf(m) /\ lev[t] = 4 /\ v \in home[t]  BY DEF HasLeaf
<1>4. \A u \in TablesOf(m) : lev[u] < 4 => n.table[u] = m.table[u]  BY <1>2, <1>3
<1>5. IsTree(n, lev, home)  BY <1>1, <1>2, <1>4, SameTree
<1>6. f \notin TablesOf(m) /\ f \notin m.pool  BY DEF Good, Owned
<1>15. ASSUME NEW x, x # v, NEW s, HasLeaf(m, lev, home, s, x)
       PROVE  HasLeaf(n, lev, home, s, x)
  <2>1. CASE s = t
    <3>1. x \in home[t]  BY <1>15, <2>1 DEF HasLeaf
    <3>2. Index(x, 4) # i  BY <1>1, <1>3, <1>15, <3>1, OneLeaf
    <3> QED  BY <1>2, <1>15, <2>1, <3>2 DEF HasLeaf
  <2>2. CASE s # t
    <3>1. s \in TablesOf(m)  BY <1>15 DEF HasLeaf
    <3>2. n.table[s] = m.table[s]  BY <1>2, <2>2, <3>1
    <3> QED  BY <1>2, <1>15, <3>2 DEF HasLeaf
  <2> QED  BY <2>1, <2>2
<1>7. ASSUME NEW g \in Nat, g # f, NEW s, HasLeaf(m, lev, home, s, Hhdm(g))
      PROVE  HasLeaf(n, lev, home, s, Hhdm(g))
  <2>1. Hhdm(g) # v  BY <1>1, <1>7, FanoutIs DEF Hhdm
  <2> QED  BY <1>7, <1>15, <2>1
<1>8. LeavesRight(n, lev, home)
  <2> SUFFICES ASSUME NEW s \in TablesOf(m), lev[s] = 4, NEW x \in home[s],
                      Index(x, 4) \in DOMAIN n.table[s]
               PROVE  LeafRight(x, n.table[s][Index(x, 4)].frame, n.table[s][Index(x, 4)].flags)
    BY <1>2 DEF LeavesRight
  <2>1. Index(x, 4) \in DOMAIN m.table[s] /\ n.table[s][Index(x, 4)] = m.table[s][Index(x, 4)]
    <3>1. CASE s = t  BY <1>2, <3>1
    <3>2. CASE s # t  BY <1>2, <3>2
    <3> QED  BY <3>1, <3>2
  <2> QED  BY <2>1 DEF Good, LeavesRight
<1>9. Writes(n, lev, home)  BY <1>2, <1>4 DEF Good, Writes
<1>10. Owned(n, A2)
  <2>1. /\ \A x : ~(x \in m.pool /\ x \in TablesOf(m)) /\ ~(x \in m.pool /\ x \in A)
               /\ ~(x \in TablesOf(m) /\ x \in A)
        /\ \A x : x \in machine.usable <=> x \in m.pool \/ x \in TablesOf(m) \/ x \in A
    BY DEF Good, Owned
  <2>2. /\ \A x : ~(x \in n.pool /\ x \in TablesOf(n)) /\ ~(x \in n.pool /\ x \in A2)
               /\ ~(x \in TablesOf(n) /\ x \in A2)
        /\ \A x : x \in machine.usable <=> x \in n.pool \/ x \in TablesOf(n) \/ x \in A2
    BY <1>2, <1>6, <2>1
  <2>3. n.pool \cap TablesOf(n) = {} /\ n.pool \cap A2 = {} /\ TablesOf(n) \cap A2 = {}
    BY <2>2
  <2>4. n.pool \cup TablesOf(n) \cup A2 = machine.usable  BY <2>2
  <2> QED  BY <2>3, <2>4 DEF Owned
<1>11. Backed(n, lev, home, B2)
  <2> SUFFICES ASSUME NEW g \in B2 PROVE \E s : HasLeaf(n, lev, home, s, Hhdm(g))
    BY DEF Backed
  <2>1. g \in B /\ g # f  OBVIOUS
  <2>2. PICK s : HasLeaf(m, lev, home, s, Hhdm(g))  BY <2>1 DEF Good, Backed
  <2>3. g \in Nat  BY <2>1
  <2> QED  BY <1>7, <2>1, <2>2, <2>3
<1>12. SelfMapped(n, lev, home)
  <2> SUFFICES ASSUME Loaded(n)
               PROVE  /\ \A g \in TablesOf(m) : g < machine.direct =>
                            \E s : HasLeaf(n, lev, home, s, Hhdm(g))
                      /\ \A g \in 0 .. machine.direct - 1 :
                            \E s \in TablesOf(m) : lev[s] = 4 /\ Hhdm(g) \in home[s]
                      /\ SectionsHave(n, lev, home)
    BY <1>2 DEF SelfMapped
  <2>1. Loaded(m)  BY <1>2 DEF Loaded
  <2>2. ASSUME NEW g \in TablesOf(m), g < machine.direct
        PROVE  \E s : HasLeaf(n, lev, home, s, Hhdm(g))
    <3>1. PICK s : HasLeaf(m, lev, home, s, Hhdm(g))  BY <2>1, <2>2 DEF Good, SelfMapped
    <3>2. g # f /\ g \in Nat  BY <1>1, <1>6
    <3> QED  BY <1>7, <3>1, <3>2
  <2>3. SectionsHave(n, lev, home)
    <3> SUFFICES ASSUME LaidOut(machine), NEW x, NEW s, InSection(x, s)
                 PROVE  \E u : HasLeaf(n, lev, home, u, x)
      BY DEF SectionsHave
    <3>1. PICK u : HasLeaf(m, lev, home, u, x)  BY <2>1 DEF Good, SelfMapped, SectionsHave
    <3>2. x # v
      <4> SUFFICES ASSUME x = v PROVE FALSE  OBVIOUS
      <4>1. f \in Direct  BY <1>1, MachineIs
      <4> QED  BY <1>1, <4>1, DirectSection
    <3> QED  BY <1>15, <3>1, <3>2
  <2> QED  BY <2>1, <2>2, <2>3 DEF Good, SelfMapped
<1>13. Running(n) /\ n.cr3 \in {0, n.root}  BY <1>1, <1>2 DEF Running
<1>14. Good(n, lev, home, A2, B2)
  BY <1>2, <1>5, <1>8, <1>9, <1>10, <1>11, <1>12, <1>13 DEF Good
<1> QED  BY <1>2, <1>14 DEF Goes

\* unmap of the page of a frame that is mapped: the frame is free again.
LEMMA PageUnmapped ==
    ASSUME machine \in Machines, NEW m, NEW lev, NEW home, NEW A, NEW B,
           Good(m, lev, home, A, B), NEW f \in A, f \in B,
           NEW n, n = UnmapPage(m, Hhdm(f)),
           NEW A2, \A x : x \in A2 <=> x \in A /\ x # f,
           NEW B2, \A x \in B2 : x \in B /\ x # f /\ x \in Nat
    PROVE  Goes(m, n, A2, B2)
<1> PICK v : v = Hhdm(f)  OBVIOUS
<1> PICK w : w = Virt2pte(m, v, {}, FALSE)  OBVIOUS
<1> PICK t : HasLeaf(m, lev, home, t, v)  BY DEF Good, Backed
<1>1. /\ m \in Memory /\ IsTree(m, lev, home) /\ f \in machine.usable /\ f \in Nat
      /\ f \in Direct /\ TablesOf(m) \subseteq machine.usable
      /\ \A x \in machine.usable : x # 0
  BY GoodIs
<1>2. t \in TablesOf(m) /\ lev[t] = 4 /\ v \in home[t] /\ Index(v, 4) \in DOMAIN m.table[t]
  BY DEF HasLeaf
<1>3. Finds(m, w, t)  BY <1>2, Virt2pteFound
<1>4. n = Unlink(w, Index(v, 4))  BY DEF UnmapPage
<1>5. CASE w.at = 0 /\ Halted(w.m)
  <2>1. n = w.m  BY <1>4, <1>5 DEF Unlink
  <2> QED  BY <1>5, <2>1 DEF Goes
<1>6. CASE w.m = m /\ w.at = t
  <2>1. LeafRight(v, m.table[t][Index(v, 4)].frame, m.table[t][Index(v, 4)].flags)
    BY <1>2 DEF Good, LeavesRight
  <2>2. m.table[t][Index(v, 4)].frame = f  BY <1>1, <2>1 DEF LeafRight
  <2>3. f < machine.limit  BY <1>1, MachineIs
  <2>4. f \notin m.pool /\ t # 0  BY <1>1, <1>2 DEF Good, Owned
  <2>5. Without(m, n, t, Index(v, 4), f)
    BY <1>1, <1>2, <1>4, <1>6, <2>2, <2>3, <2>4, EntryCleared
  <2> QED  BY <2>5, LeafCleared
<1> QED  BY <1>3, <1>5, <1>6 DEF Finds

\* One step of unmap of a range.
LEMMA NthUnmapped ==
    ASSUME machine \in Machines, NEW m, NEW p, NEW A, Goes(m, p, A, A), NEW f \in A, f \in Nat,
           NEW n, n = UnmapNth(p, Hhdm(f)),
           NEW A2, \A x : x \in A2 <=> x \in A /\ x # f
    PROVE  Goes(m, n, A2, A2)
<1>1. CASE Halted(p)
  <2>1. ~Running(p)  BY <1>1 DEF Halted, Reason, Running
  <2>2. n = p  BY <2>1 DEF UnmapNth
  <2> QED  BY <1>1, <2>2 DEF Goes
<1>2. CASE ~Halted(p)
  <2>1. PICK lev, home : Good(p, lev, home, A, A) /\ p.root = m.root /\ p.cr3 = m.cr3
    BY <1>2 DEF Goes
  <2>2. n = UnmapPage(p, Hhdm(f))  BY <2>1 DEF UnmapNth, Good
  <2>3. \A x \in A : x \in Nat  BY <2>1, GoodIs
  <2>4. \A x \in A2 : x \in A /\ x # f /\ x \in Nat  BY <2>3
  <2>5. Goes(p, n, A2, A2)  BY <2>1, <2>2, <2>4, PageUnmapped
  <2> QED  BY <2>1, <2>5 DEF Goes
<1> QED  BY <1>1, <1>2

\* The pages of the range go one after the other.
LEMMA UnmapRunIs ==
    ASSUME NEW m, NEW first, NEW count \in Nat
    PROVE  \E after : /\ after[0] = m /\ UnmapRun(m, first, count) = after[count]
                      /\ \A k \in 1 .. count : after[k] = UnmapNth(after[k - 1], first + k - 1)
<1> DEFINE Makes(n, g) == g = [k \in 0 .. n |->
                                  IF k = 0 THEN m ELSE UnmapNth(g[k - 1], first + k - 1)]
           Can == {n \in 0 .. count : \E g : Makes(n, g)}
           after == CHOOSE g : Makes(count, g)
<1>1. 0 \in Can
  <2>1. Makes(0, [k \in 0 .. 0 |-> m])  OBVIOUS
  <2> HIDE DEF Makes
  <2> QED  BY <2>1
<1>2. \A n \in 0 .. count - 1 : n \in Can => n + 1 \in Can
  <2> SUFFICES ASSUME NEW n \in 0 .. count - 1, NEW g, Makes(n, g)
               PROVE  n + 1 \in Can
    OBVIOUS
  <2> PICK last : last = UnmapNth(g[n], first + (n + 1) - 1)  OBVIOUS
  <2> PICK h : h = [k \in 0 .. n + 1 |-> IF k = n + 1 THEN last ELSE g[k]]  OBVIOUS
  <2>1. \A k \in 0 .. n + 1 :
           h[k] = IF k = 0 THEN m ELSE UnmapNth(h[k - 1], first + k - 1)
    <3> TAKE k \in 0 .. n + 1
    <3>1. CASE k = n + 1
      <4>1. h[k - 1] = g[n] /\ k # 0 /\ h[k] = last  BY <3>1
      <4> QED  BY <3>1, <4>1
    <3>2. CASE k # n + 1
      <4>1. k \in 0 .. n /\ h[k] = g[k]  BY <3>2
      <4>2. g[k] = IF k = 0 THEN m ELSE UnmapNth(g[k - 1], first + k - 1)  BY <4>1
      <4>3. k # 0 => h[k - 1] = g[k - 1]  BY <4>1
      <4> QED  BY <4>1, <4>2, <4>3
    <3> QED  BY <3>1, <3>2
  <2>2. Makes(n + 1, h)  BY <2>1
  <2> HIDE DEF Makes
  <2> QED  BY <2>2
<1> HIDE DEF Can
<1>3. 0 .. count \subseteq Can  BY <1>1, <1>2, InductionUpTo
<1>4. Makes(count, after)
  <2>1. \E g : Makes(count, g)  BY <1>3 DEF Can
  <2> HIDE DEF Makes
  <2> QED  BY <2>1
<1>5. UnmapRun(m, first, count) = after[count]  BY DEF UnmapRun
<1> HIDE DEF after
<1>6. after[0] = m /\ \A k \in 1 .. count : after[k] = UnmapNth(after[k - 1], first + k - 1)
  BY <1>4
<1> QED  BY <1>5, <1>6

\* The frames of a range are free again.
LEMMA RunUnmapped ==
    ASSUME machine \in Machines, NEW m, NEW lev, NEW home, NEW A,
           Good(m, lev, home, A, A), NEW f \in Nat, NEW count \in Nat,
           \A j \in 0 .. count - 1 : f + j \in A,
           NEW n, n = UnmapRun(m, Hhdm(f), count),
           NEW A2, \A x : x \in A2 <=> x \in A /\ ~(x \in f .. f + count - 1)
    PROVE  Goes(m, n, A2, A2)
<1> DEFINE Rest(k) == {x \in A : ~(x \in f .. f + k - 1)}
<1>1. PICK after : /\ after[0] = m /\ n = after[count]
                   /\ \A k \in 1 .. count : after[k] = UnmapNth(after[k - 1], Hhdm(f) + k - 1)
  BY UnmapRunIs
<1> DEFINE Done == {k \in 0 .. count : Goes(m, after[k], Rest(k), Rest(k))}
<1>2. Rest(0) = A  OBVIOUS
<1>3. 0 \in Done
  <2>1. Goes(m, m, A, A)  BY DEF Goes
  <2> HIDE DEF Rest
  <2> QED  BY <1>1, <1>2, <2>1
<1>4. \A k \in 0 .. count - 1 : k \in Done => k + 1 \in Done
  <2> SUFFICES ASSUME NEW k \in 0 .. count - 1, Goes(m, after[k], Rest(k), Rest(k))
               PROVE  Goes(m, after[k + 1], Rest(k + 1), Rest(k + 1))
    <3> HIDE DEF Rest
    <3> QED  OBVIOUS
  <2>1. Hhdm(f) + (k + 1) - 1 = Hhdm(f + k)  BY FanoutIs DEF Hhdm
  <2>2. after[k + 1] = UnmapNth(after[k], Hhdm(f + k))
    <3>1. k + 1 \in 1 .. count /\ (k + 1) - 1 = k  OBVIOUS
    <3> QED  BY <1>1, <2>1, <3>1
  <2>3. f + k \in Rest(k) /\ f + k \in Nat  OBVIOUS
  <2>4. \A x \in A : x \in Nat  BY GoodIs
  <2>5. \A x : x \in Rest(k + 1) <=> x \in Rest(k) /\ x # f + k  BY <2>4
  <2> HIDE DEF Rest
  <2> QED  BY <2>2, <2>3, <2>5, NthUnmapped
<1>5. count \in Done
  <2> HIDE DEF Done
  <2>1. 0 .. count \subseteq Done  BY <1>3, <1>4, InductionUpTo
  <2> QED  BY <2>1
<1>6. Rest(count) = A2  OBVIOUS
<1> HIDE DEF Rest
<1> QED  BY <1>1, <1>5, <1>6
-----------------------------------------------------------------------------
(* What init_kernel maps *)

\* A page of the direct map belongs to its frame.
LEMMA DirectPageIs ==
    ASSUME machine \in Machines, NEW d \in Direct, NEW flags, d # 0 => "W" \in flags,
           d \in machine.usable \/ d = 0 \/ {"W", "XD"} \subseteq flags
    PROVE  Asked(Hhdm(d), d, flags)
<1>1. \A e \in Direct : e \in Nat  BY MachineIs
<1>2. \A e \in Direct : Hhdm(d) = Hhdm(e) => d = e  BY <1>1, FanoutIs DEF Hhdm
<1>3. ASSUME NEW s \in DOMAIN machine.sections, NEW k \in 0 .. machine.sections[s].pages - 1,
             Hhdm(d) = PageOf(machine.sections[s], k)
      PROVE  d = FrameOf(machine.sections[s], k)
  BY <1>3, SectionInPlace
<1>5. ProtectedAs(Hhdm(d), flags)
  <2> SUFFICES ASSUME LaidOut(machine), NEW s, InSection(Hhdm(d), s)
               PROVE  SameProtection(flags, machine.sections[s].flags)
    BY DEF ProtectedAs
  <2>1. /\ d \notin machine.usable /\ d # 0
        /\ "W" \in machine.sections[s].flags /\ "XD" \in machine.sections[s].flags
    BY DirectSection
  <2> QED  BY <2>1 DEF SameProtection
<1>4. LeafRight(Hhdm(d), d, flags)  BY <1>2, <1>3, <1>5 DEF LeafRight
<1> QED  BY <1>4 DEF Asked

\* A run of pages that init_kernel may map when B is.
Mappable(B, r) ==
    /\ r.pages \in Nat /\ r.flags \in SUBSET {"P", "W", "XD", "PAT"}
    /\ \A k \in 0 .. r.pages - 1 :
          /\ PageOf(r, k) \in Pages /\ FrameOf(r, k) \in Nat
          /\ Asked(PageOf(r, k), FrameOf(r, k), PteFlags(r.flags))
          /\ KeepsWrites(B, PageOf(r, k), DirFlags(r.flags))

\* The places of a section's pages in the direct map, whether or not it reaches there.
OffsetsOf(r) == {g \in Int : \E k \in 0 .. r.pages - 1 : Hhdm(g) = PageOf(r, k)}

\* The sections before s are among B.
Before(s, B) == \A q \in 1 .. s - 1 : OffsetsOf(machine.sections[q]) \subseteq B

\* A page of a section that comes earlier is among B.
LEMMA EarlierPage ==
    ASSUME machine \in Machines, NEW s \in DOMAIN machine.sections, NEW B, Before(s, B),
           NEW q \in 1 .. s - 1, NEW j \in 0 .. machine.sections[q].pages - 1
    PROVE  \E g \in B : Hhdm(g) = PageOf(machine.sections[q], j)
<1>1. machine.sections \in Seq(Span)  BY MachineIs
<1>2. s \in Nat /\ DOMAIN machine.sections = 1 .. Len(machine.sections)
      /\ Len(machine.sections) \in Nat
  <2> HIDE DEF Span
  <2> QED  BY <1>1
<1>3. q \in DOMAIN machine.sections  BY <1>2
<1> PICK r : r = machine.sections[q]  OBVIOUS
<1>4. r.virt \in Nat /\ r.pages \in Nat  BY <1>3, SectionIs
<1> PICK g : g = PageOf(r, j) - HhdmBase  OBVIOUS
<1>5. g \in Int /\ Hhdm(g) = PageOf(r, j)  BY <1>4, FanoutIs DEF PageOf, Hhdm
<1>6. g \in OffsetsOf(r)  BY <1>5 DEF OffsetsOf
<1> QED  BY <1>5, <1>6 DEF Before

\* A section that is mapped after the ones before it takes writes away from no page.
LEMMA SectionKeepsWrites ==
    ASSUME machine \in Machines, NEW s \in DOMAIN machine.sections,
           NEW r, r = machine.sections[s], NEW B, Before(s, B), NEW k \in 0 .. r.pages - 1
    PROVE  KeepsWrites(B, PageOf(r, k), DirFlags(r.flags))
<1>1. r.flags \in SUBSET {"P", "W", "XD", "PAT"}  BY SectionIs
<1>2. "XD" \notin DirFlags(r.flags) /\ ("W" \in r.flags => "W" \in DirFlags(r.flags))
  BY <1>1, FlagsAre
<1> SUFFICES ASSUME NEW w, NEW l, MustWrite(w), l \in 1 .. 3, SameWay(PageOf(r, k), w, l),
                    "W" \notin r.flags
             PROVE  \E g \in B : SameWay(PageOf(r, k), Hhdm(g), l)
  BY <1>2 DEF KeepsWrites
<1>3. ASSUME NEW d \in Direct, w = Hhdm(d) PROVE FALSE
  <2>1. 1 \in 1 .. l  OBVIOUS
  <2>2. Index(PageOf(r, k), 1) = Index(Hhdm(d), 1)  BY <1>3, <2>1 DEF SameWay
  <2> QED  BY <2>2, SectionInPlace
<1>4. PICK t : LaidOut(machine) /\ InSection(w, t) /\ "W" \in machine.sections[t].flags
  BY <1>3 DEF MustWrite
<1>5. t \in DOMAIN machine.sections  BY <1>4 DEF InSection
<1>6. PICK j \in 0 .. machine.sections[t].pages - 1 : w = PageOf(machine.sections[t], j)
  BY <1>4 DEF InSection
<1>7. GoesAfterAnother(machine, s, k, PageOf(machine.sections[t], j))
  BY <1>4, <1>5, <1>6 DEF LaidOut
<1>8. PICK q \in 1 .. s - 1 : \E i \in 0 .. machine.sections[q].pages - 1 :
         SameWay(PageOf(r, k), PageOf(machine.sections[q], i), l)
  BY <1>6, <1>7 DEF GoesAfterAnother
<1>9. PICK i \in 0 .. machine.sections[q].pages - 1 :
         SameWay(PageOf(r, k), PageOf(machine.sections[q], i), l)
  BY <1>8
<1>10. PICK g \in B : Hhdm(g) = PageOf(machine.sections[q], i)  BY EarlierPage
<1> QED  BY <1>9, <1>10

\* A section may be mapped after the ones before it.
LEMMA SectionMappable ==
    ASSUME machine \in Machines, NEW s \in DOMAIN machine.sections,
           NEW r, r = machine.sections[s], NEW B, Before(s, B)
    PROVE  Mappable(B, r)
<1>1. /\ r.virt \in Nat /\ r.phys \in Nat /\ r.pages \in Nat
      /\ r.flags \in SUBSET {"P", "W", "XD", "PAT"} /\ Fits(r)
      /\ \A t \in DOMAIN machine.sections : Agree(r, machine.sections[t])
  BY SectionIs
<1>2. "W" \in r.flags => "W" \in PteFlags(r.flags)
  BY <1>1, FlagsAre
<1> SUFFICES ASSUME NEW k \in 0 .. r.pages - 1
             PROVE  /\ PageOf(r, k) \in Pages /\ FrameOf(r, k) \in Nat
                    /\ Asked(PageOf(r, k), FrameOf(r, k), PteFlags(r.flags))
                    /\ KeepsWrites(B, PageOf(r, k), DirFlags(r.flags))
  BY <1>1 DEF Mappable
<1>3. PageOf(r, k) \in Pages /\ FrameOf(r, k) \in Nat
  BY <1>1, FanoutIs DEF Fits, Pages, PageOf, FrameOf
<1>4. KeepsWrites(B, PageOf(r, k), DirFlags(r.flags))  BY SectionKeepsWrites
<1>5. \A d \in Direct : PageOf(r, k) = Hhdm(d) =>
         FrameOf(r, k) = d /\ (d # 0 => "W" \in PteFlags(r.flags))
  BY <1>2, SectionInPlace
<1>6. ASSUME NEW t \in DOMAIN machine.sections, NEW l \in 0 .. machine.sections[t].pages - 1,
             PageOf(r, k) = PageOf(machine.sections[t], l)
      PROVE  FrameOf(r, k) = FrameOf(machine.sections[t], l)
  BY <1>1, <1>6 DEF Agree
<1>9. ProtectedAs(PageOf(r, k), PteFlags(r.flags))
  <2> SUFFICES ASSUME LaidOut(machine), NEW t, InSection(PageOf(r, k), t)
               PROVE  SameProtection(PteFlags(r.flags), machine.sections[t].flags)
    BY DEF ProtectedAs
  <2>1. t \in DOMAIN machine.sections  BY DEF InSection
  <2>2. PICK l \in 0 .. machine.sections[t].pages - 1 :
           PageOf(r, k) = PageOf(machine.sections[t], l)
    BY DEF InSection
  <2>3. SameProtection(r.flags, machine.sections[t].flags)
    BY <2>1, <2>2 DEF LaidOut, SameProtection
  <2>4. SameProtection(PteFlags(r.flags), r.flags)  BY <1>1, FlagsAre
  <2> QED  BY <2>3, <2>4 DEF SameProtection
<1>7. LeafRight(PageOf(r, k), FrameOf(r, k), PteFlags(r.flags))
  BY <1>5, <1>6, <1>9 DEF LeafRight
<1>8. Asked(PageOf(r, k), FrameOf(r, k), PteFlags(r.flags))  BY <1>7 DEF Asked
<1> QED  BY <1>3, <1>4, <1>8

\* The first 4 GiB may be mapped.
LEMMA FourGiBMappable ==
    ASSUME machine \in Machines, NEW B
    PROVE  /\ Mappable(B, FourGiB(machine)) /\ FourGiB(machine).pages = machine.direct
           /\ \A k \in 0 .. machine.direct - 1 : PageOf(FourGiB(machine), k) = Hhdm(k)
<1> PICK r : r = FourGiB(machine)  OBVIOUS
<1>1. machine.direct \in Nat \ {0}  BY MachineIs
<1>2. /\ r.virt = HhdmBase /\ r.phys = 0 /\ r.pages = machine.direct /\ r.flags = {"W", "XD"}
  BY DEF FourGiB
<1>3. \A k \in 0 .. machine.direct - 1 : PageOf(r, k) = Hhdm(k) /\ FrameOf(r, k) = k
  BY <1>1, <1>2 DEF PageOf, FrameOf, Hhdm
<1>4. r.flags \in SUBSET {"P", "W", "XD", "PAT"} /\ "W" \in r.flags /\ "XD" \in r.flags
  BY <1>2
<1>5. /\ "W" \in PteFlags(r.flags) /\ "XD" \in PteFlags(r.flags)
      /\ "W" \in DirFlags(r.flags) /\ "XD" \notin DirFlags(r.flags)
  BY <1>4, FlagsAre DEF SameProtection
<1>6. ASSUME NEW k \in 0 .. machine.direct - 1
      PROVE  /\ PageOf(r, k) \in Pages /\ FrameOf(r, k) \in Nat
             /\ Asked(PageOf(r, k), FrameOf(r, k), PteFlags(r.flags))
             /\ KeepsWrites(B, PageOf(r, k), DirFlags(r.flags))
  <2>1. k \in Direct /\ k \in Nat /\ Hhdm(k) \in Pages  BY MachineIs
  <2>2. Asked(Hhdm(k), k, PteFlags(r.flags))  BY <1>5, <2>1, DirectPageIs
  <2>3. KeepsWrites(B, Hhdm(k), DirFlags(r.flags))  BY <1>5 DEF KeepsWrites
  <2> QED  BY <1>3, <2>1, <2>2, <2>3
<1>7. Mappable(B, r)  BY <1>1, <1>2, <1>4, <1>6 DEF Mappable
<1> QED  BY <1>2, <1>3, <1>7

\* One step of map of a range before the tables are loaded.
LEMMA NthMapped ==
    ASSUME machine \in Machines, NEW m, m.cr3 = 0, NEW p, NEW A, NEW B, Goes(m, p, A, B),
           NEW D, D \subseteq B, NEW r, Mappable(D, r), NEW k \in 0 .. r.pages - 1,
           NEW n, n = MapNth(p, r, k),
           NEW C, \A g \in C : g \in B \/ Hhdm(g) = PageOf(r, k)
    PROVE  Goes(m, n, A, C)
<1>1. CASE Halted(p)
  <2>1. ~Running(p)  BY <1>1 DEF Halted, Reason, Running
  <2>2. n = p  BY <2>1 DEF MapNth
  <2> QED  BY <1>1, <2>2 DEF Goes
<1>2. CASE ~Halted(p)
  <2>1. PICK lev, home : Good(p, lev, home, A, B) /\ p.root = m.root /\ p.cr3 = m.cr3
    BY <1>2 DEF Goes
  <2>2. n = MapPage(p, PageOf(r, k), FrameOf(r, k), r.flags)  BY <2>1 DEF MapNth, Good
  <2>3. /\ PageOf(r, k) \in Pages /\ FrameOf(r, k) \in Nat
        /\ r.flags \in SUBSET {"P", "W", "XD", "PAT"}
        /\ Asked(PageOf(r, k), FrameOf(r, k), PteFlags(r.flags))
        /\ KeepsWrites(D, PageOf(r, k), DirFlags(r.flags))
    BY DEF Mappable
  <2>6. KeepsWrites(B, PageOf(r, k), DirFlags(r.flags))  BY <2>3 DEF KeepsWrites
  <2>4. Covered(p, PageOf(r, k))  BY <2>1 DEF Covered, Loaded
  <2>5. Goes(p, n, A, C)  BY <2>1, <2>2, <2>3, <2>4, <2>6, PageMapped
  <2> QED  BY <2>1, <2>5 DEF Goes
<1> QED  BY <1>1, <1>2

\* The pages of a range are mapped one after the other.
LEMMA MapRangeIs ==
    ASSUME NEW m, NEW r, NEW count \in Nat, r.pages = count
    PROVE  \E after : /\ after[0] = m /\ MapRange(m, r) = after[count]
                      /\ \A k \in 1 .. count : after[k] = MapNth(after[k - 1], r, k - 1)
<1> DEFINE Makes(n, g) == g = [k \in 0 .. n |->
                                  IF k = 0 THEN m ELSE MapNth(g[k - 1], r, k - 1)]
           Can == {n \in 0 .. count : \E g : Makes(n, g)}
           after == CHOOSE g : Makes(count, g)
<1>1. 0 \in Can
  <2>1. Makes(0, [k \in 0 .. 0 |-> m])  OBVIOUS
  <2> HIDE DEF Makes
  <2> QED  BY <2>1
<1>2. \A n \in 0 .. count - 1 : n \in Can => n + 1 \in Can
  <2> SUFFICES ASSUME NEW n \in 0 .. count - 1, NEW g, Makes(n, g)
               PROVE  n + 1 \in Can
    OBVIOUS
  <2> PICK last : last = MapNth(g[n], r, n)  OBVIOUS
  <2> PICK h : h = [k \in 0 .. n + 1 |-> IF k = n + 1 THEN last ELSE g[k]]  OBVIOUS
  <2>1. \A k \in 0 .. n + 1 : h[k] = IF k = 0 THEN m ELSE MapNth(h[k - 1], r, k - 1)
    <3> TAKE k \in 0 .. n + 1
    <3>1. CASE k = n + 1
      <4>1. h[k - 1] = g[n] /\ k # 0 /\ h[k] = last /\ k - 1 = n  BY <3>1
      <4> QED  BY <4>1
    <3>2. CASE k # n + 1
      <4>1. k \in 0 .. n /\ h[k] = g[k]  BY <3>2
      <4>2. g[k] = IF k = 0 THEN m ELSE MapNth(g[k - 1], r, k - 1)  BY <4>1
      <4>3. k # 0 => h[k - 1] = g[k - 1]  BY <4>1
      <4> QED  BY <4>1, <4>2, <4>3
    <3> QED  BY <3>1, <3>2
  <2>2. Makes(n + 1, h)  BY <2>1
  <2> HIDE DEF Makes
  <2> QED  BY <2>2
<1> HIDE DEF Can
<1>3. 0 .. count \subseteq Can  BY <1>1, <1>2, InductionUpTo
<1>4. Makes(count, after)
  <2>1. \E g : Makes(count, g)  BY <1>3 DEF Can
  <2> HIDE DEF Makes
  <2> QED  BY <2>1
<1>5. MapRange(m, r) = after[count]  BY DEF MapRange
<1> HIDE DEF after
<1>6. after[0] = m /\ \A k \in 1 .. count : after[k] = MapNth(after[k - 1], r, k - 1)
  BY <1>4
<1> QED  BY <1>5, <1>6

\* map of a range before the tables are loaded.
LEMMA RangeMapped ==
    ASSUME machine \in Machines, NEW m, m.cr3 = 0, NEW p, NEW A, NEW B, Goes(m, p, A, B),
           NEW r, Mappable(B, r), NEW n, n = MapRange(p, r),
           NEW C, \A g \in C : g \in B \/ \E k \in 0 .. r.pages - 1 : Hhdm(g) = PageOf(r, k)
    PROVE  Goes(m, n, A, C)
<1> PICK count : count = r.pages  OBVIOUS
<1>1. count \in Nat  BY DEF Mappable
<1> DEFINE Now(k) == {g \in B \cup C : g \in B \/ \E l \in 0 .. k - 1 : Hhdm(g) = PageOf(r, l)}
<1>2. PICK after : /\ after[0] = p /\ n = after[count]
                   /\ \A k \in 1 .. count : after[k] = MapNth(after[k - 1], r, k - 1)
  BY <1>1, MapRangeIs
<1> DEFINE Done == {k \in 0 .. count : Goes(m, after[k], A, Now(k))}
<1>3. 0 \in Done
  <2>1. Now(0) = B  OBVIOUS
  <2> HIDE DEF Now
  <2> QED  BY <1>1, <1>2, <2>1
<1>4. \A k \in 0 .. count - 1 : k \in Done => k + 1 \in Done
  <2> SUFFICES ASSUME NEW k \in 0 .. count - 1, Goes(m, after[k], A, Now(k))
               PROVE  Goes(m, after[k + 1], A, Now(k + 1))
    <3> HIDE DEF Now
    <3> QED  BY <1>1
  <2>1. after[k + 1] = MapNth(after[k], r, k)
    <3>1. k + 1 \in 1 .. count /\ (k + 1) - 1 = k  BY <1>1
    <3> QED  BY <1>2, <3>1
  <2>2. \A g \in Now(k + 1) : g \in Now(k) \/ Hhdm(g) = PageOf(r, k)
    <3> TAKE g \in Now(k + 1)
    <3>1. CASE g \in B  BY <3>1
    <3>2. CASE g \notin B
      <4>1. PICK l \in 0 .. (k + 1) - 1 : Hhdm(g) = PageOf(r, l)  BY <3>2
      <4>2. l = k \/ l \in 0 .. k - 1  OBVIOUS
      <4> QED  BY <4>1, <4>2
    <3> QED  BY <3>1, <3>2
  <2>3. k \in 0 .. r.pages - 1 /\ B \subseteq Now(k)  OBVIOUS
  <2> HIDE DEF Now
  <2> QED  BY <2>1, <2>2, <2>3, NthMapped
<1>5. count \in Done
  <2> HIDE DEF Done
  <2>1. 0 .. count \subseteq Done  BY <1>1, <1>3, <1>4, InductionUpTo
  <2> QED  BY <1>1, <2>1
<1>6. \A g \in C : g \in Now(count)  OBVIOUS
<1>7. Goes(m, n, A, Now(count))  BY <1>2, <1>5
<1> HIDE DEF Now
<1> QED  BY <1>6, <1>7 DEF Goes, Good, Backed

\* The first page of the direct map is mapped again, without W, when its last table
\* is there.
LEMMA FirstPageMapped ==
    ASSUME machine \in Machines, NEW m, m.cr3 = 0, NEW p, NEW A, NEW B, Goes(m, p, A, B),
           0 \in B, NEW n, n = MapRange(p, FirstPage)
    PROVE  Goes(m, n, A, B)
<1> PICK r : r = FirstPage  OBVIOUS
<1>1. r.pages = 1 /\ PageOf(r, 0) = Hhdm(0) /\ FrameOf(r, 0) = 0 /\ r.flags = {"XD"}
  BY FanoutIs DEF FirstPage, PageOf, FrameOf, Hhdm
<1>2. n = MapNth(p, r, 0)
  <2>1. PICK after : /\ after[0] = p /\ n = after[1]
                     /\ \A k \in 1 .. 1 : after[k] = MapNth(after[k - 1], r, k - 1)
    BY <1>1, MapRangeIs
  <2>2. 1 \in 1 .. 1 /\ 1 - 1 = 0  OBVIOUS
  <2> QED  BY <2>1, <2>2
<1>3. CASE Halted(p)
  <2>1. ~Running(p)  BY <1>3 DEF Halted, Reason, Running
  <2>2. n = p  BY <1>2, <2>1 DEF MapNth
  <2> QED  BY <1>3, <2>2 DEF Goes
<1>4. CASE ~Halted(p)
  <2>1. PICK lev, home : Good(p, lev, home, A, B) /\ p.root = m.root /\ p.cr3 = m.cr3
    BY <1>4 DEF Goes
  <2>2. n = MapPage(p, Hhdm(0), 0, r.flags)  BY <1>1, <1>2, <2>1 DEF MapNth, Good
  <2>3. 0 \in Direct /\ Hhdm(0) \in Pages /\ 0 \in Nat
    <3>1. 0 \in 0 .. machine.direct - 1  BY MachineIs
    <3> QED  BY <3>1, MachineIs
  <2>4. r.flags \in SUBSET {"P", "W", "XD", "PAT"}  BY <1>1
  <2>5. Asked(Hhdm(0), 0, PteFlags(r.flags))  BY <2>3, DirectPageIs
  <2>6. \E t \in TablesOf(p) : lev[t] = 4 /\ Hhdm(0) \in home[t]
    BY <2>1 DEF Good, Backed, HasLeaf
  <2>7. \A g \in B : g \in B \/ Hhdm(g) = Hhdm(0)  OBVIOUS
  <2>8. Goes(p, n, A, B)  BY <2>1, <2>2, <2>3, <2>4, <2>5, <2>6, <2>7, PageMapped
  <2> QED  BY <2>1, <2>8 DEF Goes
<1> QED  BY <1>3, <1>4

\* The spans are mapped one after the other.
LEMMA MapSpansIs ==
    ASSUME NEW m, NEW spans, NEW count \in Nat, Len(spans) = count
    PROVE  \E after : /\ after[0] = m /\ MapSpans(m, spans) = after[count]
                      /\ \A k \in 1 .. count : after[k] = MapRange(after[k - 1], spans[k])
<1> DEFINE Makes(n, g) == g = [k \in 0 .. n |->
                                  IF k = 0 THEN m ELSE MapRange(g[k - 1], spans[k])]
           Can == {n \in 0 .. count : \E g : Makes(n, g)}
           after == CHOOSE g : Makes(count, g)
<1>1. 0 \in Can
  <2>1. Makes(0, [k \in 0 .. 0 |-> m])  OBVIOUS
  <2> HIDE DEF Makes
  <2> QED  BY <2>1
<1>2. \A n \in 0 .. count - 1 : n \in Can => n + 1 \in Can
  <2> SUFFICES ASSUME NEW n \in 0 .. count - 1, NEW g, Makes(n, g)
               PROVE  n + 1 \in Can
    OBVIOUS
  <2> PICK last : last = MapRange(g[n], spans[n + 1])  OBVIOUS
  <2> PICK h : h = [k \in 0 .. n + 1 |-> IF k = n + 1 THEN last ELSE g[k]]  OBVIOUS
  <2>1. \A k \in 0 .. n + 1 : h[k] = IF k = 0 THEN m ELSE MapRange(h[k - 1], spans[k])
    <3> TAKE k \in 0 .. n + 1
    <3>1. CASE k = n + 1
      <4>1. h[k - 1] = g[n] /\ k # 0 /\ h[k] = last  BY <3>1
      <4> QED  BY <3>1, <4>1
    <3>2. CASE k # n + 1
      <4>1. k \in 0 .. n /\ h[k] = g[k]  BY <3>2
      <4>2. g[k] = IF k = 0 THEN m ELSE MapRange(g[k - 1], spans[k])  BY <4>1
      <4>3. k # 0 => h[k - 1] = g[k - 1]  BY <4>1
      <4> QED  BY <4>1, <4>2, <4>3
    <3> QED  BY <3>1, <3>2
  <2>2. Makes(n + 1, h)  BY <2>1
  <2> HIDE DEF Makes
  <2> QED  BY <2>2
<1> HIDE DEF Can
<1>3. 0 .. count \subseteq Can  BY <1>1, <1>2, InductionUpTo
<1>4. Makes(count, after)
  <2>1. \E g : Makes(count, g)  BY <1>3 DEF Can
  <2> HIDE DEF Makes
  <2> QED  BY <2>1
<1>5. MapSpans(m, spans) = after[count]  BY DEF MapSpans
<1> HIDE DEF after
<1>6. after[0] = m /\ \A k \in 1 .. count : after[k] = MapRange(after[k - 1], spans[k])
  BY <1>4
<1> QED  BY <1>5, <1>6

\* The places of all pages init_kernel maps.
Placed ==
    {g \in Int : \/ g \in 0 .. machine.direct - 1
                \/ \E s \in DOMAIN machine.sections : g \in OffsetsOf(machine.sections[s])}

\* All of the kernel's spans.
LEMMA SpansMapped ==
    ASSUME machine \in Machines, NEW m, m.cr3 = 0, NEW A, NEW none, Goes(m, m, A, none),
           NEW n, n = MapSpans(m, Spans(machine))
    PROVE  Goes(m, n, A, Placed)
<1> DEFINE B == 0 .. machine.direct - 1
<1> PICK spans : spans = Spans(machine)  OBVIOUS
<1> PICK ours : ours = machine.sections  OBVIOUS
<1>1. ours \in Seq(Span) /\ machine.direct \in Nat \ {0}  BY MachineIs
<1>2. /\ Len(spans) = Len(ours) + 2 /\ Len(ours) \in Nat
      /\ spans[1] = FourGiB(machine) /\ spans[2] = FirstPage
      /\ \A k \in 3 .. Len(ours) + 2 : spans[k] = ours[k - 2] /\ k - 2 \in DOMAIN ours
  <2> DEFINE a == FourGiB(machine)
             b == FirstPage
             two == <<a, b>>
  <2>1. spans = two \o ours  BY DEF Spans
  <2> HIDE DEF a, b
  <2>2. Len(ours) \in Nat /\ ours \in Seq(Span) /\ DOMAIN ours = 1 .. Len(ours)  BY <1>1
  <2> DEFINE S == {a, b} \cup Span
  <2>3. two \in Seq(S) /\ Len(two) = 2 /\ two[1] = a /\ two[2] = b  OBVIOUS
  <2> HIDE DEF Span
  <2>4. ours \in Seq(S)
    <3>1. Span \subseteq S  OBVIOUS
    <3> HIDE DEF S
    <3> QED  BY <1>1, <3>1, SeqMonotonic
  <2> HIDE DEF two, S
  <2>5. /\ Len(two \o ours) = Len(two) + Len(ours)
        /\ \A k \in 1 .. Len(two) + Len(ours) :
              (two \o ours)[k] = IF k <= Len(two) THEN two[k] ELSE ours[k - Len(two)]
    BY <2>3, <2>4, ConcatProperties
  <2>6. Len(spans) = Len(ours) + 2  BY <2>1, <2>2, <2>3, <2>5
  <2>7. \A k \in 1 .. Len(ours) + 2 : spans[k] = IF k <= 2 THEN two[k] ELSE ours[k - 2]
    BY <2>1, <2>2, <2>3, <2>5
  <2>8. spans[1] = two[1] /\ spans[2] = two[2]  BY <2>2, <2>7
  <2>9. \A k \in 3 .. Len(ours) + 2 : spans[k] = ours[k - 2] /\ k - 2 \in DOMAIN ours
    BY <2>2, <2>7
  <2> QED  BY <2>2, <2>3, <2>6, <2>8, <2>9 DEF a, b
<1> PICK count : count = Len(ours) + 2  OBVIOUS
<1>3. count \in Nat /\ Len(spans) = count /\ count >= 2  BY <1>2
<1>4. PICK after : /\ after[0] = m /\ n = after[count]
                   /\ \A k \in 1 .. count : after[k] = MapRange(after[k - 1], spans[k])
  BY <1>3, MapSpansIs
<1> DEFINE Now(k) == IF k = 0 THEN none
                     ELSE {g \in Placed : g \in B \/ \E s \in 1 .. k - 2 : g \in OffsetsOf(ours[s])}
           Done == {k \in 0 .. count : Goes(m, after[k], A, Now(k))}
<1> HIDE DEF B
<1>9. B \subseteq Placed  BY <1>1 DEF Placed, B
<1>5. 0 \in Done
  <2>1. Now(0) = none  OBVIOUS
  <2> HIDE DEF Now
  <2> QED  BY <1>3, <1>4, <2>1
<1>6. \A k \in 0 .. count - 1 : k \in Done => k + 1 \in Done
  <2> SUFFICES ASSUME NEW k \in 0 .. count - 1, Goes(m, after[k], A, Now(k))
               PROVE  Goes(m, after[k + 1], A, Now(k + 1))
    <3> HIDE DEF Now
    <3> QED  BY <1>3
  <2>1. after[k + 1] = MapRange(after[k], spans[k + 1])
    <3>1. k + 1 \in 1 .. count /\ (k + 1) - 1 = k  BY <1>3
    <3> QED  BY <1>4, <3>1
  <2>3. CASE k = 0
    <3> PICK r : r = FourGiB(machine)  OBVIOUS
    <3>1. /\ Mappable(none, r) /\ r.pages = machine.direct
          /\ \A j \in 0 .. machine.direct - 1 : PageOf(r, j) = Hhdm(j)
      BY FourGiBMappable
    <3>2. \A g \in Now(1) : \E j \in 0 .. r.pages - 1 : Hhdm(g) = PageOf(r, j)
      BY <3>1 DEF B
    <3>3. after[k + 1] = MapRange(after[k], r)  BY <1>2, <2>1, <2>3
    <3>4. Now(k) = none /\ Now(k + 1) = Now(1)  BY <2>3
    <3> HIDE DEF Now
    <3>5. Goes(m, after[k + 1], A, Now(1))  BY <3>1, <3>2, <3>3, <3>4, RangeMapped
    <3> QED  BY <3>4, <3>5
  <2>4. CASE k = 1
    <3>1. after[k + 1] = MapRange(after[k], FirstPage)  BY <1>2, <2>1, <2>4
    <3>2. 0 \in B  BY <1>1 DEF B
    <3>3. 0 \in Now(k)  BY <1>9, <2>4, <3>2
    <3>4. Now(k + 1) = Now(k)
      <4>1. \A s : ~(s \in 1 .. k - 2) /\ ~(s \in 1 .. (k + 1) - 2)  BY <2>4
      <4> QED  BY <2>4, <4>1
    <3> HIDE DEF Now
    <3> QED  BY <3>1, <3>3, <3>4, FirstPageMapped
  <2>5. CASE k >= 2
    <3>1. k + 1 \in 3 .. Len(ours) + 2 /\ (k + 1) - 2 = k - 1  BY <1>2, <2>5
    <3> PICK r : r = ours[k - 1]  OBVIOUS
    <3>2. after[k + 1] = MapRange(after[k], r) /\ k - 1 \in DOMAIN ours  BY <1>2, <2>1, <3>1
    <3>6. Before(k - 1, Now(k))
      <4>1. ASSUME NEW q \in 1 .. (k - 1) - 1, NEW g \in OffsetsOf(ours[q])
            PROVE  g \in Now(k)
        <5>1. q \in 1 .. k - 2 /\ k # 0 /\ q \in DOMAIN ours
          <6>1. DOMAIN ours = 1 .. Len(ours)
            <7> HIDE DEF Span
            <7> QED  BY <1>1
          <6> QED  BY <1>2, <2>5, <3>1, <6>1
        <5>2. g \in Placed  BY <4>1, <5>1 DEF Placed, OffsetsOf
        <5> QED  BY <4>1, <5>1, <5>2
      <4> HIDE DEF Now
      <4> QED  BY <4>1 DEF Before
    <3>3. Mappable(Now(k), r)
      <4> HIDE DEF Now
      <4> QED  BY <3>2, <3>6, SectionMappable
    <3>4. \A g \in Now(k + 1) : g \in Now(k) \/ \E j \in 0 .. r.pages - 1 : Hhdm(g) = PageOf(r, j)
      <4> TAKE g \in Now(k + 1)
      <4>1. CASE g \in Placed /\ g \in B  BY <2>5, <4>1
      <4>2. CASE g \in Placed /\ \E s \in 1 .. (k + 1) - 2 : g \in OffsetsOf(ours[s])
        <5>1. PICK s \in 1 .. (k + 1) - 2 : g \in OffsetsOf(ours[s])  BY <4>2
        <5>2. CASE s = k - 1  BY <5>1, <5>2 DEF OffsetsOf
        <5>3. CASE s # k - 1
          <6>1. s \in 1 .. k - 2 /\ k # 0  BY <2>5, <5>3
          <6> QED  BY <4>2, <5>1, <6>1
        <5> QED  BY <5>2, <5>3
      <4> QED  BY <2>5, <4>1, <4>2
    <3> HIDE DEF Now
    <3>5. Goes(m, after[k + 1], A, Now(k + 1))  BY <3>2, <3>3, <3>4, RangeMapped
    <3> QED  BY <3>5
  <2>6. k = 0 \/ k = 1 \/ k >= 2  OBVIOUS
  <2> QED  BY <2>3, <2>4, <2>5, <2>6
<1>7. count \in Done
  <2> HIDE DEF Done
  <2>1. 0 .. count \subseteq Done  BY <1>3, <1>5, <1>6, InductionUpTo
  <2> QED  BY <1>3, <2>1
<1>8. \A g \in Placed : g \in Now(count)
  <2>1. DOMAIN ours = 1 .. Len(ours) /\ count - 2 = Len(ours) /\ count # 0
    <3> HIDE DEF Span
    <3> QED  BY <1>1, <1>2
  <2> TAKE g \in Placed
  <2>2. g \in B \/ \E s \in DOMAIN ours : g \in OffsetsOf(ours[s])  BY DEF Placed, B
  <2> QED  BY <2>1, <2>2
<1>10. Goes(m, n, A, Now(count))  BY <1>4, <1>7
<1> HIDE DEF Now
<1> QED  BY <1>8, <1>10 DEF Goes, Good, Backed

\* The memory the bootloader leaves: all usable frames free, no tables.
Pristine(m) ==
    /\ m \in Memory /\ m.halt = "no" /\ m.cr3 = 0 /\ m.root = 0
    /\ TablesOf(m) = {} /\ m.pool = machine.usable

\* The PML4 alone is a good tree.
LEMMA RootedIsGood ==
    ASSUME machine \in Machines, NEW m, Pristine(m), NEW f \in m.pool,
           NEW n, n = Rooted(m, f), NEW none, \A x : x \notin none
    PROVE  Goes(n, n, none, none) /\ n.cr3 = 0 /\ n.root # 0
<1>1. /\ m \in Memory /\ m.halt = "no" /\ m.cr3 = 0 /\ TablesOf(m) = {}
      /\ m.pool = machine.usable
  BY DEF Pristine
<1>2. f \in Nat /\ f # 0 /\ f \in machine.usable
  BY <1>1, MachineIs
<1> PICK taken : taken = Take(m, f)  OBVIOUS
<1>3. /\ taken \in Memory /\ taken.table = m.table /\ TablesOf(taken) = TablesOf(m)
      /\ taken.root = m.root /\ taken.cr3 = m.cr3 /\ taken.halt = m.halt
      /\ \A x : x \in taken.pool <=> x \in m.pool /\ x # f
  BY <1>1, TakeIs
<1> PICK row : row = << >>  OBVIOUS
<1>4. row \in Rows /\ \A j : j \notin DOMAIN row  BY RowsHave
<1> PICK fresh : fresh = SetRow(taken, f, row)  OBVIOUS
<1>5. taken \in Memory /\ row \in Rows /\ f \in Nat  BY <1>2, <1>3, <1>4
<1>6. fresh \in Memory  BY <1>5, SetRowIs
<1>7. fresh.table[f] = row  BY <1>5, SetRowIs
<1>8. \A u : u \in TablesOf(fresh) <=> u \in TablesOf(taken) \/ u = f  BY <1>5, SetRowIs
<1>9. fresh.pool = taken.pool  BY <1>5, SetRowIs
<1>10. fresh.cr3 = taken.cr3 /\ fresh.halt = taken.halt
  <2>1. fresh.cr3 = taken.cr3  BY <1>5, SetRowIs
  <2>2. fresh.halt = taken.halt  BY <1>5, SetRowIs
  <2> QED  BY <2>1, <2>2
<1>11. n = [fresh EXCEPT !.root = f]  BY DEF Rooted
<1>12. /\ n \in Memory /\ n.root = f /\ n.table = fresh.table /\ n.pool = fresh.pool
       /\ n.cr3 = fresh.cr3 /\ n.halt = fresh.halt
  BY <1>2, <1>6, <1>11 DEF Memory
<1>13. /\ \A u : u \in TablesOf(n) <=> u = f
       /\ \A j : j \notin DOMAIN n.table[f]
       /\ n.cr3 = 0 /\ n.halt = "no"
       /\ \A x : x \in n.pool <=> x \in machine.usable /\ x # f
  <2>1. TablesOf(n) = TablesOf(fresh)  BY <1>12 DEF TablesOf
  <2> QED  BY <1>1, <1>3, <1>4, <1>7, <1>8, <1>9, <1>10, <1>12, <2>1
<1> PICK lev : lev = [u \in TablesOf(n) |-> 1]  OBVIOUS
<1> PICK home : home = [u \in TablesOf(n) |-> Pages]  OBVIOUS
<1>14. IsTree(n, lev, home)
  <2>1. lev \in [TablesOf(n) -> 1 .. 4] /\ home \in [TablesOf(n) -> SUBSET Pages]  OBVIOUS
  <2>2. n.root \in TablesOf(n) /\ lev[n.root] = 1 /\ home[n.root] = Pages
    BY <1>12, <1>13
  <2>3. Leads(n, lev, home)  BY <1>13 DEF Leads
  <2>4. Hangs(n, lev, home)
    <3>1. \A u \in TablesOf(n) : ~(lev[u] > 1)  OBVIOUS
    <3> QED  BY <3>1 DEF Hangs
  <2>5. Apart(n, lev, home)  BY <1>13 DEF Apart
  <2>6. Alike(n, lev, home)
    <3>1. \A u \in TablesOf(n) : \A l \in 1 .. 4 : ~(l < lev[u])  OBVIOUS
    <3> QED  BY <3>1 DEF Alike
  <2> QED  BY <2>1, <2>2, <2>3, <2>4, <2>5, <2>6 DEF IsTree
<1>15. LeavesRight(n, lev, home) /\ Writes(n, lev, home)
  BY <1>13 DEF LeavesRight, Writes
<1>16. Owned(n, none)
  <2>1. /\ n.pool \cap TablesOf(n) = {} /\ n.pool \cap none = {} /\ TablesOf(n) \cap none = {}
    BY <1>13
  <2>2. \A x : x \in machine.usable <=> x \in n.pool \/ x \in TablesOf(n) \/ x \in none
    BY <1>2, <1>13
  <2>3. n.pool \cup TablesOf(n) \cup none = machine.usable  BY <2>2
  <2> QED  BY <2>1, <2>3 DEF Owned
<1>17. Backed(n, lev, home, none)  BY DEF Backed
<1>18. SelfMapped(n, lev, home)  BY <1>13 DEF SelfMapped, Loaded
<1>19. Running(n) /\ n.cr3 \in {0, n.root}  BY <1>13 DEF Running
<1>20. Good(n, lev, home, none, none)
  BY <1>12, <1>14, <1>15, <1>16, <1>17, <1>18, <1>19 DEF Good
<1> QED  BY <1>2, <1>12, <1>13, <1>20 DEF Goes

\* load: what was mapped through the bootloader's tables the new ones map too.
LEMMA LoadIsGood ==
    ASSUME machine \in Machines, NEW m, NEW lev, NEW home, NEW A,
           Good(m, lev, home, A, Placed),
           NEW n, n = Load(m), NEW none, \A x : x \notin none
    PROVE  Good(n, lev, home, A, none) /\ Loaded(n)
<1>1. /\ m \in Memory /\ IsTree(m, lev, home) /\ m.halt = "no" /\ Running(m)
      /\ m.root \in TablesOf(m) /\ m.root # 0
      /\ TablesOf(m) \subseteq machine.usable /\ \A x \in machine.usable : x \in Nat
  BY GoodIs
<1>2. n = [m EXCEPT !.cr3 = m.root]  BY <1>1 DEF Load
<1>3. /\ n \in Memory /\ n.table = m.table /\ TablesOf(n) = TablesOf(m) /\ n.root = m.root
      /\ n.pool = m.pool /\ n.cr3 = m.root /\ n.halt = "no"
  BY <1>1, <1>2 DEF Memory, TablesOf
<1>4. IsTree(n, lev, home)  BY <1>1, <1>3, SameTree
<1>5. LeavesRight(n, lev, home) /\ Writes(n, lev, home)
  BY <1>3 DEF Good, LeavesRight, Writes
<1>6. Owned(n, A)  BY <1>3 DEF Good, Owned
<1>7. Backed(n, lev, home, none)  BY DEF Backed
<1>11. \A g \in Placed : \E s : HasLeaf(n, lev, home, s, Hhdm(g))
  BY <1>3 DEF Good, Backed, HasLeaf
<1>8. \A g \in 0 .. machine.direct - 1 : \E s : HasLeaf(n, lev, home, s, Hhdm(g))
  BY <1>11 DEF Placed
<1>9. SelfMapped(n, lev, home)
  <2>1. ASSUME NEW g \in TablesOf(n), g < machine.direct
        PROVE  \E s : HasLeaf(n, lev, home, s, Hhdm(g))
    <3>1. g \in 0 .. machine.direct - 1  BY <1>1, <1>3, <2>1, MachineIs
    <3> QED  BY <1>8, <3>1
  <2>2. \A g \in 0 .. machine.direct - 1 :
           \E s \in TablesOf(n) : lev[s] = 4 /\ Hhdm(g) \in home[s]
    BY <1>8 DEF HasLeaf
  <2>3. SectionsHave(n, lev, home)
    <3> SUFFICES ASSUME NEW v, NEW s, InSection(v, s)
                 PROVE  \E t : HasLeaf(n, lev, home, t, v)
      BY DEF SectionsHave
    <3> PICK r : r = machine.sections[s]  OBVIOUS
    <3>1. s \in DOMAIN machine.sections  BY DEF InSection
    <3>2. PICK k \in 0 .. r.pages - 1 : v = PageOf(r, k)  BY DEF InSection
    <3>3. r.virt \in Nat /\ r.pages \in Nat  BY <3>1, SectionIs
    <3> PICK g : g = v - HhdmBase  OBVIOUS
    <3>4. g \in Int /\ Hhdm(g) = v  BY <3>2, <3>3, FanoutIs DEF PageOf, Hhdm
    <3>5. g \in OffsetsOf(r)  BY <3>2, <3>4 DEF OffsetsOf
    <3>6. g \in Placed  BY <3>1, <3>4, <3>5 DEF Placed
    <3> QED  BY <1>11, <3>4, <3>6
  <2> QED  BY <2>1, <2>2, <2>3 DEF SelfMapped
<1>10. Running(n) /\ n.cr3 \in {0, n.root} /\ Loaded(n)  BY <1>1, <1>3 DEF Running, Loaded
<1> QED
  BY <1>3, <1>4, <1>5, <1>6, <1>7, <1>9, <1>10 DEF Good

\* init_kernel, up to load.
LEMMA KernelInitialised ==
    ASSUME machine \in Machines, NEW m, Pristine(m), NEW none, \A x : x \notin none,
           NEW n, n = IF m.pool = {} THEN Stop(m, "panic")
                      ELSE Load(MapSpans(Rooted(m, Min(m.pool)), Spans(machine)))
    PROVE  \/ Halted(n)
           \/ Loaded(n) /\ \E lev, home : Good(n, lev, home, none, none)
<1>1. m \in Memory /\ m.pool = machine.usable /\ m.pool \in SUBSET Nat
      /\ TablesOf(m) = {} /\ m.root = 0 /\ m.cr3 = 0
  BY MachineIs DEF Pristine
<1>2. CASE m.pool = {}
  <2>1. Halted(Stop(m, "panic"))  BY <1>1, <1>2, StopHalts
  <2> QED  BY <1>2, <2>1
<1>3. CASE m.pool # {}
  <2> PICK f : f = Min(m.pool)  OBVIOUS
  <2>1. f \in m.pool  BY <1>1, <1>3, MinIsLeast
  <2> PICK p : p = Rooted(m, f)  OBVIOUS
  <2>2. Goes(p, p, none, none) /\ p.cr3 = 0 /\ p.root # 0  BY <2>1, RootedIsGood
  <2> PICK q : q = MapSpans(p, Spans(machine))  OBVIOUS
  <2>3. Goes(p, q, none, Placed)  BY <2>2, SpansMapped
  <2>4. n = Load(q)  BY <1>3
  <2>5. CASE Halted(q)
    <3>1. ~Running(q)  BY <2>5 DEF Halted, Reason, Running
    <3>2. n = q  BY <2>4, <3>1 DEF Load
    <3> QED  BY <2>5, <3>2
  <2>6. CASE ~Halted(q)
    <3>1. PICK lev, home : Good(q, lev, home, none, Placed)
      BY <2>3, <2>6 DEF Goes
    <3>2. Good(n, lev, home, none, none) /\ Loaded(n)  BY <2>4, <3>1, LoadIsGood
    <3> QED  BY <3>2
  <2> QED  BY <2>5, <2>6
<1> QED  BY <1>2, <1>3
-----------------------------------------------------------------------------
(* Allocating pages *)

\* A frame taken from the pool is in the caller's hands.
LEMMA TakenIsGood ==
    ASSUME machine \in Machines, NEW m, NEW lev, NEW home, NEW A, NEW B,
           Good(m, lev, home, A, B), NEW g \in m.pool, NEW n, n = Take(m, g),
           NEW A2, \A x : x \in A2 <=> x \in A \/ x = g
    PROVE  Good(n, lev, home, A2, B) /\ n.root = m.root /\ n.cr3 = m.cr3
<1>1. m \in Memory /\ IsTree(m, lev, home) /\ m.halt = "no" /\ m.cr3 \in {0, m.root}
  BY GoodIs
<1>2. /\ n \in Memory /\ n.table = m.table /\ TablesOf(n) = TablesOf(m)
      /\ n.root = m.root /\ n.cr3 = m.cr3 /\ n.halt = m.halt
      /\ \A x : x \in n.pool <=> x \in m.pool /\ x # g
  BY <1>1, TakeIs
<1>3. IsTree(n, lev, home)  BY <1>1, <1>2, SameTree
<1>4. LeavesRight(n, lev, home) /\ Writes(n, lev, home)
  BY <1>2 DEF Good, LeavesRight, Writes
<1>5. Owned(n, A2)
  <2>1. /\ \A x : ~(x \in m.pool /\ x \in TablesOf(m)) /\ ~(x \in m.pool /\ x \in A)
               /\ ~(x \in TablesOf(m) /\ x \in A)
        /\ \A x : x \in machine.usable <=> x \in m.pool \/ x \in TablesOf(m) \/ x \in A
    BY DEF Good, Owned
  <2>2. /\ \A x : ~(x \in n.pool /\ x \in TablesOf(n)) /\ ~(x \in n.pool /\ x \in A2)
               /\ ~(x \in TablesOf(n) /\ x \in A2)
        /\ \A x : x \in machine.usable <=> x \in n.pool \/ x \in TablesOf(n) \/ x \in A2
    BY <1>2, <2>1
  <2>3. n.pool \cap TablesOf(n) = {} /\ n.pool \cap A2 = {} /\ TablesOf(n) \cap A2 = {}
    BY <2>2
  <2>4. n.pool \cup TablesOf(n) \cup A2 = machine.usable  BY <2>2
  <2> QED  BY <2>3, <2>4 DEF Owned
<1>6. Backed(n, lev, home, B)  BY <1>2 DEF Good, Backed, HasLeaf
<1>7. SelfMapped(n, lev, home)  BY <1>2 DEF Good, SelfMapped, SectionsHave, HasLeaf, Loaded
<1>8. Running(n) /\ n.cr3 \in {0, n.root}  BY <1>1, <1>2 DEF Running
<1> QED  BY <1>2, <1>3, <1>4, <1>5, <1>6, <1>7, <1>8 DEF Good

\* A free frame is taken and mapped at its place in the direct map.
LEMMA FrameAdded ==
    ASSUME machine \in Machines, NEW m, NEW lev, NEW home, NEW A,
           Good(m, lev, home, A, A), NEW g \in m.pool,
           NEW n, n = MapPage(Take(m, g), Hhdm(g), g, {"W"}),
           NEW A2, \A x : x \in A2 <=> x \in A \/ x = g
    PROVE  Goes(m, n, A2, A2)
<1> PICK p : p = Take(m, g)  OBVIOUS
<1>1. g \in machine.usable /\ g \in Nat /\ g # 0 /\ g \in Direct /\ Hhdm(g) \in Pages
  <2>1. m.pool \subseteq machine.usable  BY GoodIs
  <2> QED  BY <2>1, GoodIs
<1>2. Good(p, lev, home, A2, A) /\ p.root = m.root /\ p.cr3 = m.cr3  BY TakenIsGood
<1> PICK flags : flags = {"W"}  OBVIOUS
<1>3. flags \in SUBSET {"P", "W", "XD", "PAT"} /\ "W" \in flags  OBVIOUS
<1>4. "W" \in PteFlags(flags) /\ "W" \in DirFlags(flags) /\ "XD" \notin DirFlags(flags)
  BY <1>3, FlagsAre
<1>5. Asked(Hhdm(g), g, PteFlags(flags))  BY <1>1, <1>4, DirectPageIs
<1>6. KeepsWrites(A, Hhdm(g), DirFlags(flags)) /\ Covered(p, Hhdm(g))
  BY <1>1, <1>4 DEF KeepsWrites, Covered
<1>7. n = MapPage(p, Hhdm(g), g, flags)  OBVIOUS
<1>8. \A x \in A2 : x \in A \/ Hhdm(x) = Hhdm(g)  OBVIOUS
<1>9. Goes(p, n, A2, A2)  BY <1>1, <1>2, <1>3, <1>5, <1>6, <1>7, <1>8, PageMapped
<1> QED  BY <1>2, <1>9 DEF Goes

\* The frames of an allocation, from f on and in a row.
InRow(frames, f) ==
    /\ frames \in Seq(Nat) /\ Len(frames) >= 1
    /\ \A i \in 1 .. Len(frames) : frames[i] = f + i - 1

\* Two neighbours among the frames aren't in a row.
Broken(frames) ==
    /\ \E S : frames \in Seq(S)
    /\ \E i \in 1 .. Len(frames) - 1 : frames[i + 1] # frames[i] + 1

\* The frames of A and the allocation's.
WithRow(A, f, count) == A \cup (f .. f + count - 1)

\* What allocate has made of memory m after k pages.
AllocatesTo(m, s, A, f, k) ==
    \/ Broken(s.frames)
    \/ InRow(s.frames, f) /\ Halted(s.m)
    \/ InRow(s.frames, f) /\ s.answer = "null" /\ Goes(m, s.m, A, A)
    \/ /\ InRow(s.frames, f) /\ s.answer = "page" /\ Len(s.frames) = k
       /\ \A x \in f .. f + k - 1 : x \notin A
       /\ Goes(m, s.m, WithRow(A, f, k), WithRow(A, f, k))

\* A row that is broken stays broken.
LEMMA BrokenStays ==
    ASSUME NEW frames, Broken(frames), NEW g
    PROVE  Broken(Append(frames, g))
<1>1. PICK S : frames \in Seq(S)  BY DEF Broken
<1>2. PICK i \in 1 .. Len(frames) - 1 : frames[i + 1] # frames[i] + 1  BY DEF Broken
<1> DEFINE T == S \cup {g}
<1>3. S \subseteq T /\ g \in T  OBVIOUS
<1> HIDE DEF T
<1>4. frames \in Seq(T)  BY <1>1, <1>3, SeqMonotonic
<1> PICK n : n = Len(frames)  OBVIOUS
<1> PICK more : more = Append(frames, g)  OBVIOUS
<1>5. n \in Nat  BY <1>4
<1>6. more \in Seq(T) /\ Len(more) = n + 1 /\ \A j \in 1 .. n : more[j] = frames[j]
  BY <1>3, <1>4, <1>5
<1>7. i \in 1 .. Len(more) - 1 /\ more[i + 1] = frames[i + 1] /\ more[i] = frames[i]
  BY <1>2, <1>5, <1>6
<1>8. Broken(more)  BY <1>2, <1>6, <1>7 DEF Broken
<1> QED  BY <1>8

\* A row goes on with the next frame, or breaks.
LEMMA RowGoesOn ==
    ASSUME NEW frames, NEW f \in Nat, InRow(frames, f), NEW g \in Nat
    PROVE  LET more == Append(frames, g) IN
           /\ Len(more) = Len(frames) + 1 /\ Len(frames) \in Nat \ {0}
           /\ g = f + Len(frames) => InRow(more, f)
           /\ g # f + Len(frames) => Broken(more)
<1> DEFINE n == Len(frames)
           more == Append(frames, g)
<1>1. frames \in Seq(Nat) /\ n \in Nat /\ n >= 1 /\ \A i \in 1 .. n : frames[i] = f + i - 1
  BY DEF InRow
<1>2. more \in Seq(Nat) /\ Len(more) = n + 1 /\ more[n + 1] = g
      /\ \A j \in 1 .. n : more[j] = frames[j]
  <2> HIDE DEF n
  <2> QED  BY <1>1 DEF n
<1> HIDE DEF n, more
<1>3. ASSUME g = f + n PROVE InRow(more, f)
  <2>1. \A i \in 1 .. Len(more) : more[i] = f + i - 1
    <3> TAKE i \in 1 .. Len(more)
    <3>1. CASE i = n + 1  BY <1>1, <1>2, <1>3, <3>1
    <3>2. CASE i # n + 1
      <4>1. i \in 1 .. n  BY <1>1, <1>2, <3>2
      <4> QED  BY <1>1, <1>2, <4>1
    <3> QED  BY <3>1, <3>2
  <2> QED  BY <1>1, <1>2, <2>1 DEF InRow
<1>4. ASSUME g # f + n PROVE Broken(more)
  <2>1. more[n] = f + n - 1 /\ n \in 1 .. Len(more) - 1  BY <1>1, <1>2
  <2>2. more[n + 1] # more[n] + 1  BY <1>1, <1>2, <1>4, <2>1
  <2> QED  BY <1>2, <2>1, <2>2 DEF Broken
<1> QED  BY <1>1, <1>2, <1>3, <1>4 DEF n, more

\* The first page.
LEMMA FirstAllocated ==
    ASSUME machine \in Machines, NEW m, NEW lev, NEW home, NEW A,
           Good(m, lev, home, A, A), NEW f \in m.pool,
           NEW s, s = [m |-> MapPage(Take(m, f), Hhdm(f), f, {"W"}), frames |-> <<f>>,
                       answer |-> "page"]
    PROVE  AllocatesTo(m, s, A, f, 1)
<1>1. f \in Nat /\ f \notin A
  <2>1. m.pool \subseteq machine.usable  BY GoodIs
  <2>2. f \in Nat  BY <2>1, GoodIs
  <2> QED  BY <2>2 DEF Good, Owned
<1> PICK n : n = MapPage(Take(m, f), Hhdm(f), f, {"W"})  OBVIOUS
<1>2. s.m = n /\ s.frames = <<f>> /\ s.answer = "page"  OBVIOUS
<1> PICK more : more = WithRow(A, f, 1)  OBVIOUS
<1>3. \A x : x \in more <=> x \in A \/ x = f  BY <1>1 DEF WithRow
<1>4. Goes(m, n, more, more)  BY <1>3, FrameAdded
<1> PICK frames : frames = <<f>>  OBVIOUS
<1>5. InRow(frames, f) /\ Len(frames) = 1
  <2>1. frames \in Seq(Nat) /\ Len(frames) = 1 /\ frames[1] = f + 1 - 1  BY <1>1
  <2> QED  BY <2>1 DEF InRow
<1>6. \A x \in f .. f + 1 - 1 : x \notin A  BY <1>1
<1> QED  BY <1>2, <1>4, <1>5, <1>6 DEF AllocatesTo

\* One page more, or none and the others given back.
LEMMA NextAllocated ==
    ASSUME machine \in Machines, NEW m, NEW s, NEW lev, NEW home, NEW A, NEW f \in Nat,
           NEW k \in Nat \ {0}, InRow(s.frames, f), s.answer = "page", Len(s.frames) = k,
           \A x \in f .. f + k - 1 : x \notin A,
           Good(s.m, lev, home, WithRow(A, f, k), WithRow(A, f, k)),
           s.m.root = m.root, s.m.cr3 = m.cr3,
           NEW n, n = MapNext(s, Hhdm(f), k)
    PROVE  AllocatesTo(m, n, A, f, k + 1)
<1> PICK p : p = s.m  OBVIOUS
<1> PICK row : row = WithRow(A, f, k)  OBVIOUS
<1>1. Good(p, lev, home, row, row)  OBVIOUS
<1>2. \A x : x \in row <=> x \in A \/ x \in f .. f + k - 1  BY DEF WithRow
<1>3. CASE p.pool = {}
  <2> PICK q : q = UnmapRun(p, Hhdm(f), k)  OBVIOUS
  <2>1. n = [m |-> q, frames |-> s.frames, answer |-> "null"]
    BY <1>3 DEF MapNext, GiveUp, ReleasePages
  <2>2. n.m = q /\ n.frames = s.frames /\ n.answer = "null"  BY <2>1
  <2>3. \A j \in 0 .. k - 1 : f + j \in row  BY <1>2
  <2>4. \A x : x \in A <=> x \in row /\ ~(x \in f .. f + k - 1)  BY <1>2
  <2>5. Goes(p, q, A, A)  BY <1>1, <2>3, <2>4, RunUnmapped
  <2>6. Goes(m, q, A, A)  BY <2>5 DEF Goes
  <2> QED  BY <2>2, <2>6 DEF AllocatesTo
<1>4. CASE p.pool # {}
  <2> PICK g : g = Min(p.pool)  OBVIOUS
  <2>1. g \in p.pool /\ g \in Nat
    <3>1. p.pool \subseteq machine.usable /\ \A x \in machine.usable : x \in Nat
      BY <1>1, GoodIs
    <3>2. p.pool \in SUBSET Nat  BY <3>1
    <3> QED  BY <1>4, <3>2, MinIsLeast
  <2>2. g \notin row  BY <1>1, <2>1 DEF Good, Owned
  <2> PICK q : q = MapPage(Take(p, g), Hhdm(f) + k, g, {"W"})  OBVIOUS
  <2> PICK more : more = Append(s.frames, g)  OBVIOUS
  <2>3. n = [m |-> q, frames |-> more, answer |-> "page"]  BY <1>4 DEF MapNext
  <2>4. n.m = q /\ n.frames = more /\ n.answer = "page"  BY <2>3
  <2>5. /\ Len(more) = k + 1
        /\ g = f + k => InRow(more, f)
        /\ g # f + k => Broken(more)
    BY <2>1, RowGoesOn
  <2>6. CASE g # f + k  BY <2>4, <2>5, <2>6 DEF AllocatesTo
  <2>7. CASE g = f + k
    <3>1. Hhdm(f) + k = Hhdm(g)  BY <2>7, FanoutIs DEF Hhdm
    <3> PICK row2 : row2 = WithRow(A, f, k + 1)  OBVIOUS
    <3>2. \A x : x \in row2 <=> x \in row \/ x = g  BY <1>2, <2>7 DEF WithRow
    <3>3. Goes(p, q, row2, row2)  BY <1>1, <2>1, <3>1, <3>2, FrameAdded
    <3>4. Goes(m, q, row2, row2)  BY <3>3 DEF Goes
    <3>5. \A x \in f .. f + (k + 1) - 1 : x \notin A  BY <1>2, <2>2, <2>7
    <3> QED  BY <2>4, <2>5, <2>7, <3>4, <3>5 DEF AllocatesTo
  <2> QED  BY <2>6, <2>7
<1> QED  BY <1>3, <1>4

\* A step of allocate.
LEMMA MoreAllocated ==
    ASSUME machine \in Machines, NEW m, NEW s, NEW A, NEW f \in Nat, NEW k \in Nat \ {0},
           AllocatesTo(m, s, A, f, k), NEW n, n = MapMore(s, Hhdm(f), k)
    PROVE  AllocatesTo(m, n, A, f, k + 1)
<1>1. n = s \/ n = MapNext(s, Hhdm(f), k)  BY DEF MapMore
<1>2. CASE Broken(s.frames)
  <2>1. n.frames = s.frames \/ n.frames = Append(s.frames, Min(s.m.pool))
    BY <1>1 DEF MapNext
  <2>2. Broken(n.frames)  BY <1>2, <2>1, BrokenStays
  <2> QED  BY <2>2 DEF AllocatesTo
<1>3. CASE InRow(s.frames, f) /\ Halted(s.m)
  <2>1. ~Running(s.m)  BY <1>3 DEF Halted, Reason, Running
  <2>2. n = s  BY <2>1 DEF MapMore
  <2> QED  BY <1>3, <2>2 DEF AllocatesTo
<1>4. CASE InRow(s.frames, f) /\ s.answer = "null" /\ Goes(m, s.m, A, A)
  <2>1. n = s  BY <1>4 DEF MapMore
  <2> QED  BY <1>4, <2>1 DEF AllocatesTo
<1>5. CASE /\ InRow(s.frames, f) /\ s.answer = "page" /\ Len(s.frames) = k
           /\ \A x \in f .. f + k - 1 : x \notin A
           /\ Goes(m, s.m, WithRow(A, f, k), WithRow(A, f, k))
           /\ ~Halted(s.m)
  <2>1. PICK lev, home : /\ Good(s.m, lev, home, WithRow(A, f, k), WithRow(A, f, k))
                         /\ s.m.root = m.root /\ s.m.cr3 = m.cr3
    BY <1>5 DEF Goes
  <2>2. Running(s.m)  BY <2>1 DEF Good
  <2>3. n = MapNext(s, Hhdm(f), k)  BY <1>5, <2>2 DEF MapMore
  <2> QED  BY <1>5, <2>1, <2>3, NextAllocated
<1> QED  BY <1>2, <1>3, <1>4, <1>5 DEF AllocatesTo

\* allocate maps the first page and then goes on, page by page.
LEMMA AllocatePagesIs ==
    ASSUME NEW m, NEW n \in Nat \ {0}, NEW f, f = Min(m.pool),
           NEW first, first = [m |-> MapPage(Take(m, f), Hhdm(f), f, {"W"}), frames |-> <<f>>,
                               answer |-> "page"]
    PROVE  \E after : /\ after[0] = first /\ AllocatePages(m, n) = after[n - 1]
                      /\ \A k \in 1 .. n - 1 : after[k] = MapMore(after[k - 1], Hhdm(f), k)
<1> PICK count : count = n - 1  OBVIOUS
<1>0. count \in Nat  OBVIOUS
<1> DEFINE Makes(j, g) == g = [k \in 0 .. j |->
                                  IF k = 0 THEN first ELSE MapMore(g[k - 1], Hhdm(f), k)]
           Can == {j \in 0 .. count : \E g : Makes(j, g)}
           after == CHOOSE g : Makes(count, g)
<1>1. 0 \in Can
  <2>1. Makes(0, [k \in 0 .. 0 |-> first])  OBVIOUS
  <2> HIDE DEF Makes
  <2> QED  BY <1>0, <2>1
<1>2. \A j \in 0 .. count - 1 : j \in Can => j + 1 \in Can
  <2> SUFFICES ASSUME NEW j \in 0 .. count - 1, NEW g, Makes(j, g)
               PROVE  j + 1 \in Can
    OBVIOUS
  <2> PICK last : last = MapMore(g[j], Hhdm(f), j + 1)  OBVIOUS
  <2> PICK h : h = [k \in 0 .. j + 1 |-> IF k = j + 1 THEN last ELSE g[k]]  OBVIOUS
  <2>1. \A k \in 0 .. j + 1 : h[k] = IF k = 0 THEN first ELSE MapMore(h[k - 1], Hhdm(f), k)
    <3> TAKE k \in 0 .. j + 1
    <3>1. CASE k = j + 1
      <4>1. h[k - 1] = g[j] /\ k # 0 /\ h[k] = last  BY <1>0, <3>1
      <4> QED  BY <3>1, <4>1
    <3>2. CASE k # j + 1
      <4>1. k \in 0 .. j /\ h[k] = g[k]  BY <1>0, <3>2
      <4>2. g[k] = IF k = 0 THEN first ELSE MapMore(g[k - 1], Hhdm(f), k)  BY <4>1
      <4>3. k # 0 => h[k - 1] = g[k - 1]  BY <1>0, <4>1
      <4> QED  BY <4>1, <4>2, <4>3
    <3> QED  BY <3>1, <3>2
  <2>2. Makes(j + 1, h)  BY <2>1
  <2> HIDE DEF Makes
  <2> QED  BY <1>0, <2>2
<1> HIDE DEF Can
<1>3. 0 .. count \subseteq Can  BY <1>0, <1>1, <1>2, InductionUpTo
<1>4. Makes(count, after)
  <2>1. \E g : Makes(count, g)  BY <1>0, <1>3 DEF Can
  <2> HIDE DEF Makes
  <2> QED  BY <2>1
<1>5. AllocatePages(m, n) = after[count]  BY DEF AllocatePages
<1> HIDE DEF after
<1>6. after[0] = first /\ \A k \in 1 .. count : after[k] = MapMore(after[k - 1], Hhdm(f), k)
  BY <1>0, <1>4
<1> QED  BY <1>5, <1>6

\* allocate, as a whole.
LEMMA PagesAllocated ==
    ASSUME machine \in Machines, NEW m, NEW lev, NEW home, NEW A,
           Good(m, lev, home, A, A), m.pool # {}, NEW n \in Nat \ {0},
           NEW f, f = Min(m.pool), NEW s, s = AllocatePages(m, n)
    PROVE  f \in m.pool /\ f \in Nat /\ AllocatesTo(m, s, A, f, n)
<1>1. f \in m.pool /\ f \in Nat
  <2>1. m.pool \subseteq machine.usable /\ \A x \in machine.usable : x \in Nat  BY GoodIs
  <2>2. m.pool \in SUBSET Nat  BY <2>1
  <2> QED  BY <2>1, <2>2, MinIsLeast
<1> PICK first : first = [m |-> MapPage(Take(m, f), Hhdm(f), f, {"W"}), frames |-> <<f>>,
                          answer |-> "page"]
  OBVIOUS
<1>2. PICK after : /\ after[0] = first /\ s = after[n - 1]
                   /\ \A k \in 1 .. n - 1 : after[k] = MapMore(after[k - 1], Hhdm(f), k)
  BY AllocatePagesIs
<1>3. AllocatesTo(m, after[0], A, f, 1)  BY <1>1, <1>2, FirstAllocated
<1> PICK count : count = n - 1  OBVIOUS
<1>4. count \in Nat /\ n = count + 1  OBVIOUS
<1> DEFINE Done == {k \in 0 .. count : AllocatesTo(m, after[k], A, f, k + 1)}
<1>5. 0 \in Done  BY <1>3, <1>4
<1>6. \A k \in 0 .. count - 1 : k \in Done => k + 1 \in Done
  <2> SUFFICES ASSUME NEW k \in 0 .. count - 1, AllocatesTo(m, after[k], A, f, k + 1)
               PROVE  AllocatesTo(m, after[k + 1], A, f, (k + 1) + 1)
    BY <1>4
  <2>1. after[k + 1] = MapMore(after[k], Hhdm(f), k + 1)
    <3>1. k + 1 \in 1 .. n - 1 /\ (k + 1) - 1 = k  BY <1>4
    <3> QED  BY <1>2, <3>1
  <2>2. k + 1 \in Nat \ {0}  BY <1>4
  <2> QED  BY <1>1, <2>1, <2>2, MoreAllocated
<1>7. count \in Done
  <2> HIDE DEF Done
  <2>1. 0 .. count \subseteq Done  BY <1>4, <1>5, <1>6, InductionUpTo
  <2> QED  BY <1>4, <2>1
<1> QED  BY <1>1, <1>2, <1>4, <1>7

\* Consecutive tells the rows from the broken ones.
LEMMA ConsecutiveIs ==
    ASSUME NEW frames
    PROVE  /\ Broken(frames) => ~Consecutive(frames)
           /\ \A f \in Nat : InRow(frames, f) => Consecutive(frames)
<1>1. ASSUME Broken(frames) PROVE ~Consecutive(frames)
  BY <1>1 DEF Broken, Consecutive
<1>2. ASSUME NEW f \in Nat, InRow(frames, f) PROVE Consecutive(frames)
  BY <1>2 DEF InRow, Consecutive
<1> QED  BY <1>1, <1>2
-----------------------------------------------------------------------------
(* What has been handed out, and the cached translations                     *)

HandedOut(l) == UNION {Range(l[p]) : p \in DOMAIN l}

\* Every allocation's frames are in a row and mapped at their place, and no frame
\* is in two of them.
RowsRight(l) ==
    /\ \A p \in DOMAIN l : \E f \in Nat : p = Hhdm(f) /\ InRow(l[p], f)
    /\ \A p, q \in DOMAIN l : p # q =>
          \A i \in 1 .. Len(l[p]) : \A j \in 1 .. Len(l[q]) : l[p][i] # l[q][j]

\* The frames handed out.
LEMMA HandedOutIs ==
    ASSUME NEW l, NEW x
    PROVE  x \in HandedOut(l) <=> \E p \in DOMAIN l : \E i \in DOMAIN l[p] : l[p][i] = x
<1>1. x \in HandedOut(l) <=> \E p \in DOMAIN l : x \in Range(l[p])  BY DEF HandedOut
<1>2. ASSUME NEW p PROVE x \in Range(l[p]) <=> \E i \in DOMAIN l[p] : l[p][i] = x
  BY DEF Range
<1> QED  BY <1>1, <1>2

\* The frames of a row.
LEMMA InRowIs ==
    ASSUME NEW frames, NEW f \in Nat, InRow(frames, f)
    PROVE  /\ Len(frames) \in Nat /\ Len(frames) >= 1 /\ DOMAIN frames = 1 .. Len(frames)
           /\ \A i \in 1 .. Len(frames) : frames[i] = f + i - 1
           /\ \A x : x \in f .. f + Len(frames) - 1 <=> \E i \in DOMAIN frames : frames[i] = x
<1>1. /\ frames \in Seq(Nat) /\ Len(frames) >= 1
      /\ \A i \in 1 .. Len(frames) : frames[i] = f + i - 1
  BY DEF InRow
<1>2. Len(frames) \in Nat /\ DOMAIN frames = 1 .. Len(frames)  BY <1>1
<1>3. ASSUME NEW x \in f .. f + Len(frames) - 1 PROVE \E i \in DOMAIN frames : frames[i] = x
  <2>1. x - f + 1 \in 1 .. Len(frames) /\ f + (x - f + 1) - 1 = x  BY <1>2
  <2> QED  BY <1>1, <1>2, <2>1
<1>4. ASSUME NEW x, NEW i \in DOMAIN frames, frames[i] = x
      PROVE  x \in f .. f + Len(frames) - 1
  BY <1>1, <1>2, <1>4
<1> QED  BY <1>1, <1>2, <1>3, <1>4

\* The rows hold the frames handed out, and only they do.
LEMMA RowsAre ==
    ASSUME NEW l, RowsRight(l), NEW p \in DOMAIN l
    PROVE  \E f \in Nat :
              /\ p = Hhdm(f) /\ InRow(l[p], f)
              /\ Len(l[p]) \in Nat /\ Len(l[p]) >= 1
              /\ \A x \in f .. f + Len(l[p]) - 1 : x \in HandedOut(l)
              /\ \A q \in DOMAIN l : q # p =>
                    \A j \in DOMAIN l[q] : ~(l[q][j] \in f .. f + Len(l[p]) - 1)
<1>1. PICK f \in Nat : p = Hhdm(f) /\ InRow(l[p], f)  BY DEF RowsRight
<1>2. /\ Len(l[p]) \in Nat /\ Len(l[p]) >= 1 /\ DOMAIN l[p] = 1 .. Len(l[p])
      /\ \A x : x \in f .. f + Len(l[p]) - 1 <=> \E i \in DOMAIN l[p] : l[p][i] = x
  <2> PICK frames : frames = l[p]  OBVIOUS
  <2>1. InRow(frames, f)  BY <1>1
  <2> QED  BY <2>1, InRowIs
<1>3. \A x \in f .. f + Len(l[p]) - 1 : x \in HandedOut(l)  BY <1>2, HandedOutIs
<1>4. ASSUME NEW q \in DOMAIN l, q # p, NEW j \in DOMAIN l[q],
             l[q][j] \in f .. f + Len(l[p]) - 1
      PROVE  FALSE
  <2>1. PICK g \in Nat : InRow(l[q], g)  BY DEF RowsRight
  <2>2. DOMAIN l[q] = 1 .. Len(l[q])
    <3> PICK frames : frames = l[q]  OBVIOUS
    <3>1. InRow(frames, g)  BY <2>1
    <3> QED  BY <3>1, InRowIs
  <2>3. PICK i \in DOMAIN l[p] : l[p][i] = l[q][j]  BY <1>2, <1>4
  <2> QED  BY <1>2, <1>4, <2>2, <2>3 DEF RowsRight
<1> QED  BY <1>1, <1>2, <1>3, <1>4

\* None of the frames has been handed out.
Fresh(l, f, count) == \A x \in f .. f + count - 1 : x \notin HandedOut(l)

\* A new allocation.
LEMMA RowAdded ==
    ASSUME NEW l, RowsRight(l), NEW f \in Nat, NEW frames, InRow(frames, f),
           Fresh(l, f, Len(frames)),
           NEW k, k = With(l, Hhdm(f), frames)
    PROVE  RowsRight(k) /\ HandedOut(k) = WithRow(HandedOut(l), f, Len(frames))
<1>1. /\ Len(frames) \in Nat /\ Len(frames) >= 1 /\ DOMAIN frames = 1 .. Len(frames)
      /\ \A x : x \in f .. f + Len(frames) - 1 <=> \E i \in DOMAIN frames : frames[i] = x
  BY InRowIs
<1> PICK new : new = Hhdm(f)  OBVIOUS
<1>2. new \notin DOMAIN l
  <2> SUFFICES ASSUME new \in DOMAIN l PROVE FALSE  OBVIOUS
  <2>1. PICK g \in Nat : /\ new = Hhdm(g) /\ Len(l[new]) \in Nat /\ Len(l[new]) >= 1
                         /\ \A x \in g .. g + Len(l[new]) - 1 : x \in HandedOut(l)
    BY RowsAre
  <2>2. g = f  BY <2>1, FanoutIs DEF Hhdm
  <2>3. f \in g .. g + Len(l[new]) - 1 /\ f \in f .. f + Len(frames) - 1  BY <1>1, <2>1, <2>2
  <2> QED  BY <2>1, <2>3 DEF Fresh
<1>3. /\ \A p : p \in DOMAIN k <=> p \in DOMAIN l \/ p = new
      /\ k[new] = frames /\ \A p \in DOMAIN l : k[p] = l[p]
  BY <1>2 DEF With
<1>4. RowsRight(k)
  <2>1. ASSUME NEW p \in DOMAIN k PROVE \E g \in Nat : p = Hhdm(g) /\ InRow(k[p], g)
    BY <1>3 DEF RowsRight
  <2>2. ASSUME NEW p \in DOMAIN l, NEW i \in 1 .. Len(l[p]), NEW j \in 1 .. Len(frames),
               l[p][i] = frames[j]
        PROVE  FALSE
    <3>1. frames[j] \in f .. f + Len(frames) - 1  BY <1>1
    <3>2. PICK g \in Nat : InRow(l[p], g)  BY DEF RowsRight
    <3>3. i \in DOMAIN l[p]
      <4> PICK row : row = l[p]  OBVIOUS
      <4>1. InRow(row, g)  BY <3>2
      <4> QED  BY <4>1, InRowIs
    <3>4. frames[j] \in HandedOut(l)  BY <2>2, <3>3, HandedOutIs
    <3> QED  BY <3>1, <3>4 DEF Fresh
  <2>3. ASSUME NEW p \in DOMAIN k, NEW q \in DOMAIN k, p # q,
               NEW i \in 1 .. Len(k[p]), NEW j \in 1 .. Len(k[q]), k[p][i] = k[q][j]
        PROVE  FALSE
    <3>1. CASE p = new
      <4>1. q \in DOMAIN l /\ k[q] = l[q] /\ k[p] = frames  BY <1>3, <2>3, <3>1
      <4> QED  BY <2>2, <2>3, <4>1
    <3>2. CASE q = new
      <4>1. p \in DOMAIN l /\ k[p] = l[p] /\ k[q] = frames  BY <1>3, <2>3, <3>2
      <4> QED  BY <2>2, <2>3, <4>1
    <3>3. CASE p # new /\ q # new  BY <1>3, <2>3, <3>3 DEF RowsRight
    <3> QED  BY <3>1, <3>2, <3>3
  <2> QED  BY <2>1, <2>3 DEF RowsRight
<1>5. ASSUME NEW x
      PROVE  x \in HandedOut(k) <=> x \in HandedOut(l) \/ x \in f .. f + Len(frames) - 1
  <2>1. x \in HandedOut(k) <=> \E p \in DOMAIN k : \E i \in DOMAIN k[p] : k[p][i] = x
    BY HandedOutIs
  <2>2. x \in HandedOut(l) <=> \E p \in DOMAIN l : \E i \in DOMAIN l[p] : l[p][i] = x
    BY HandedOutIs
  <2> QED  BY <1>1, <1>3, <2>1, <2>2
<1>6. \A x : x \in WithRow(HandedOut(l), f, Len(frames))
                <=> x \in HandedOut(l) \/ x \in f .. f + Len(frames) - 1
  BY DEF WithRow
<1>7. HandedOut(k) = WithRow(HandedOut(l), f, Len(frames))  BY <1>5, <1>6
<1> QED  BY <1>4, <1>7

\* An allocation less.
LEMMA RowRemoved ==
    ASSUME NEW l, RowsRight(l), NEW f \in Nat, Hhdm(f) \in DOMAIN l,
           NEW k, k = Restrict(l, DOMAIN l \ {Hhdm(f)})
    PROVE  /\ RowsRight(k) /\ Len(l[Hhdm(f)]) \in Nat
           /\ \A x \in f .. f + Len(l[Hhdm(f)]) - 1 : x \in HandedOut(l)
           /\ \A x : x \in HandedOut(k)
                        <=> x \in HandedOut(l) /\ ~(x \in f .. f + Len(l[Hhdm(f)]) - 1)
<1> PICK old : old = Hhdm(f)  OBVIOUS
<1>1. PICK g \in Nat :
              /\ old = Hhdm(g) /\ InRow(l[old], g)
              /\ Len(l[old]) \in Nat
              /\ \A x \in g .. g + Len(l[old]) - 1 : x \in HandedOut(l)
              /\ \A q \in DOMAIN l : q # old =>
                    \A j \in DOMAIN l[q] : ~(l[q][j] \in g .. g + Len(l[old]) - 1)
  BY RowsAre
<1>2. g = f  BY <1>1, FanoutIs DEF Hhdm
<1> PICK frames : frames = l[old]  OBVIOUS
<1>3. \A x : x \in f .. f + Len(frames) - 1 <=> \E i \in DOMAIN frames : frames[i] = x
  BY <1>1, <1>2, InRowIs
<1>4. /\ \A p : p \in DOMAIN k <=> p \in DOMAIN l /\ p # old
      /\ \A p \in DOMAIN k : k[p] = l[p]
  BY DEF Restrict
<1>5. RowsRight(k)
  <2>1. ASSUME NEW p \in DOMAIN k PROVE \E h \in Nat : p = Hhdm(h) /\ InRow(k[p], h)
    BY <1>4 DEF RowsRight
  <2>2. \A p, q \in DOMAIN k : p # q =>
           \A i \in 1 .. Len(k[p]) : \A j \in 1 .. Len(k[q]) : k[p][i] # k[q][j]
    <3> SUFFICES ASSUME NEW p \in DOMAIN k, NEW q \in DOMAIN k, p # q
                 PROVE  \A i \in 1 .. Len(k[p]) : \A j \in 1 .. Len(k[q]) : k[p][i] # k[q][j]
      OBVIOUS
    <3>1. /\ p \in DOMAIN l /\ q \in DOMAIN l /\ k[p] = l[p] /\ k[q] = l[q]
      BY <1>4
    <3>2. \A i \in 1 .. Len(l[p]) : \A j \in 1 .. Len(l[q]) : l[p][i] # l[q][j]
      BY <3>1 DEF RowsRight
    <3> QED  BY <3>1, <3>2
  <2> QED  BY <2>1, <2>2 DEF RowsRight
<1>6. ASSUME NEW x
      PROVE  x \in HandedOut(k) <=> x \in HandedOut(l) /\ ~(x \in f .. f + Len(l[old]) - 1)
  <2>1. x \in HandedOut(k) <=> \E p \in DOMAIN k : \E i \in DOMAIN k[p] : k[p][i] = x
    BY HandedOutIs
  <2>2. x \in HandedOut(l) <=> \E p \in DOMAIN l : \E i \in DOMAIN l[p] : l[p][i] = x
    BY HandedOutIs
  <2>3. \A q \in DOMAIN l : q # old =>
           \A j \in DOMAIN l[q] : ~(l[q][j] \in f .. f + Len(frames) - 1)
    BY <1>1, <1>2
  <2>4. ASSUME x \in HandedOut(k)
        PROVE  x \in HandedOut(l) /\ ~(x \in f .. f + Len(frames) - 1)
    <3>1. PICK p \in DOMAIN k : \E i \in DOMAIN k[p] : k[p][i] = x  BY <2>1, <2>4
    <3>2. p \in DOMAIN l /\ p # old /\ k[p] = l[p]  BY <1>4, <3>1
    <3> QED  BY <2>2, <2>3, <3>1, <3>2
  <2>5. ASSUME x \in HandedOut(l), ~(x \in f .. f + Len(frames) - 1)
        PROVE  x \in HandedOut(k)
    <3>1. PICK p \in DOMAIN l : \E i \in DOMAIN l[p] : l[p][i] = x  BY <2>2, <2>5
    <3>2. p # old  BY <1>3, <2>5, <3>1
    <3>3. p \in DOMAIN k /\ k[p] = l[p]  BY <1>4, <3>1, <3>2
    <3> QED  BY <2>1, <3>1, <3>3
  <2> QED  BY <2>4, <2>5
<1> QED  BY <1>1, <1>2, <1>5, <1>6

\* Every cached translation is the one of a page in an allocation.
CacheRight(m, l, c) ==
    /\ \A v \in DOMAIN c : c[v] \in Nat
    /\ Running(m) => \A v \in DOMAIN c :
          \E f \in HandedOut(l) : f \in Nat /\ v = Hhdm(f) /\ c[v] = f

\* The machine has stopped, or runs on its own tables, or hasn't made any yet.
MemoryRight(m, l) ==
    \/ Halted(m)
    \/ Loaded(m) /\ \E lev, home : Good(m, lev, home, HandedOut(l), HandedOut(l))
    \/ Pristine(m) /\ DOMAIN l = {}

\* The inductive invariant: as long as every allocation so far got frames in a
\* row, all is as it should be.
StateRight(m, l, c) == RowsRight(l) /\ MemoryRight(m, l) /\ CacheRight(m, l, c)

IInv ==
    /\ machine \in Machines /\ fragmented \in BOOLEAN
    /\ ~fragmented => StateRight(mem, live, tlb)

\* The machine is what it was, so what is said of a memory stays true.
LEMMA StateStaysRight ==
    ASSUME machine' = machine, NEW m, NEW l, NEW c, StateRight(m, l, c)
    PROVE  StateRight(m, l, c)'
<1>1. (Halted(m) <=> Halted(m)') /\ (Pristine(m) <=> Pristine(m)')
  <2>1. Halted(m) <=> Halted(m)'  BY DEF Halted, Reason
  <2>2. Pristine(m) <=> Pristine(m)'  BY DEF Pristine
  <2> QED  BY <2>1, <2>2
<1>2. ASSUME NEW lev, NEW home, NEW A, NEW B, Good(m, lev, home, A, B)
      PROVE  Good(m, lev, home, A, B)'
  <2>1. /\ m \in Memory /\ Running(m) /\ m.cr3 \in {0, m.root}
        /\ IsTree(m, lev, home) /\ Backed(m, lev, home, B)
    BY <1>2 DEF Good
  <2>6. LaidOut(machine) <=> LaidOut(machine)'  OBVIOUS
  <2>7. ASSUME NEW v, NEW s PROVE InSection(v, s) <=> InSection(v, s)'  BY DEF InSection
  <2>8. ASSUME NEW v, NEW f, NEW flags, LeafRight(v, f, flags) PROVE LeafRight(v, f, flags)'
    <3>1. ProtectedAs(v, flags)'  BY <2>6, <2>7, <2>8 DEF LeafRight, ProtectedAs
    <3> QED  BY <2>8, <3>1 DEF LeafRight, Direct
  <2>9. ASSUME NEW v, MustWrite(v)' PROVE MustWrite(v)
    BY <2>6, <2>7, <2>9 DEF MustWrite, Direct
  <2>2. LeavesRight(m, lev, home)'  BY <1>2, <2>8 DEF Good, LeavesRight
  <2>3. Writes(m, lev, home)'  BY <1>2, <2>9 DEF Good, Writes
  <2>4. Owned(m, A)'  BY <1>2 DEF Good, Owned
  <2>5. SelfMapped(m, lev, home)'
    <3>1. SectionsHave(m, lev, home) => SectionsHave(m, lev, home)'
      BY <2>6, <2>7 DEF SectionsHave
    <3> QED  BY <1>2, <3>1 DEF Good, SelfMapped
  <2> QED  BY <2>1, <2>2, <2>3, <2>4, <2>5 DEF Good
<1>3. RowsRight(l) /\ CacheRight(m, l, c) /\ MemoryRight(m, l)  BY DEF StateRight
<1>4. MemoryRight(m, l)'
  <2>1. CASE Halted(m)  BY <1>1, <2>1 DEF MemoryRight
  <2>2. CASE Pristine(m) /\ DOMAIN l = {}  BY <1>1, <2>2 DEF MemoryRight
  <2>3. CASE Loaded(m) /\ \E lev, home : Good(m, lev, home, HandedOut(l), HandedOut(l))
    <3>1. PICK lev, home : Good(m, lev, home, HandedOut(l), HandedOut(l))  BY <2>3
    <3>2. Good(m, lev, home, HandedOut(l), HandedOut(l))'  BY <1>2, <3>1
    <3>3. \E lv, hm : Good(m, lv, hm, HandedOut(l), HandedOut(l))'  BY <3>2
    <3> QED  BY <2>3, <3>3 DEF MemoryRight
  <2> QED  BY <1>3, <2>1, <2>2, <2>3 DEF MemoryRight
<1> QED  BY <1>3, <1>4 DEF StateRight
-----------------------------------------------------------------------------
(* The calls                                                                 *)

\* A running machine with its own tables has a good memory.
LEMMA LoadedIsGood ==
    ASSUME NEW m, NEW l, MemoryRight(m, l), Loaded(m), Running(m)
    PROVE  \E lev, home : Good(m, lev, home, HandedOut(l), HandedOut(l))
<1>1. ~Halted(m) /\ ~Pristine(m)  BY DEF Halted, Reason, Running, Pristine, Loaded
<1> QED  BY <1>1 DEF MemoryRight

\* Where a call from a loaded memory goes is right for what is handed out then.
LEMMA GoesIsRight ==
    ASSUME NEW m, Loaded(m), NEW n, NEW A, Goes(m, n, A, A), NEW l, A = HandedOut(l)
    PROVE  MemoryRight(n, l)
<1>1. CASE Halted(n)  BY <1>1 DEF MemoryRight
<1>2. CASE ~Halted(n)
  <2>1. PICK lev, home : Good(n, lev, home, A, A) /\ n.cr3 = m.cr3
    BY <1>2 DEF Goes
  <2>2. Loaded(n)  BY <2>1 DEF Loaded
  <2> QED  BY <2>1, <2>2 DEF MemoryRight
<1> QED  BY <1>1, <1>2

\* The TLB only forgets; the frames whose translations it keeps stay handed out.
Forgets(c, d) == \A v \in DOMAIN d : v \in DOMAIN c /\ d[v] = c[v]
Remembers(l, k, d) ==
    \A f \in Nat : f \in HandedOut(l) /\ Hhdm(f) \in DOMAIN d => f \in HandedOut(k)

\* Fewer translations are cached, all of them of frames handed out.
LEMMA FewerCached ==
    ASSUME NEW m, NEW l, NEW c, CacheRight(m, l, c), Running(m),
           NEW n, NEW k, NEW d, Forgets(c, d), Remembers(l, k, d)
    PROVE  CacheRight(n, k, d)
<1>1. ASSUME NEW v \in DOMAIN d
      PROVE  d[v] \in Nat /\ \E f \in HandedOut(k) : f \in Nat /\ v = Hhdm(f) /\ d[v] = f
  <2>1. PICK f \in HandedOut(l) : f \in Nat /\ v = Hhdm(f) /\ c[v] = f  BY DEF CacheRight, Forgets
  <2> QED  BY <2>1 DEF Forgets, Remembers
<1> QED  BY <1>1 DEF CacheRight

\* init_kernel.
LEMMA InitKernelIsRight ==
    ASSUME machine \in Machines, NEW m, NEW l, NEW c, StateRight(m, l, c),
           ~Loaded(m), Running(m),
           NEW n, n = IF m.pool = {} THEN Stop(m, "panic")
                      ELSE Load(MapSpans(Rooted(m, Min(m.pool)), Spans(machine)))
    PROVE  StateRight(n, l, c)
<1>1. RowsRight(l) /\ CacheRight(m, l, c) /\ MemoryRight(m, l)  BY DEF StateRight
<1>2. ~Halted(m)  BY DEF Halted, Reason, Running
<1>3. Pristine(m) /\ DOMAIN l = {}  BY <1>1, <1>2 DEF MemoryRight
<1> PICK none : none = HandedOut(l)  OBVIOUS
<1>4. \A x : x \notin none  BY <1>3, HandedOutIs
<1>5. \/ Halted(n)
      \/ Loaded(n) /\ \E lev, home : Good(n, lev, home, none, none)
  BY <1>3, <1>4, KernelInitialised
<1>6. MemoryRight(n, l)  BY <1>5 DEF MemoryRight
<1>7. CacheRight(n, l, c)
  <2>1. Forgets(c, c) /\ Remembers(l, l, c)  BY DEF Forgets, Remembers
  <2> QED  BY <1>1, <2>1, FewerCached
<1> QED  BY <1>1, <1>6, <1>7 DEF StateRight

\* allocate.
LEMMA AllocateIsRight ==
    ASSUME machine \in Machines, NEW m, NEW l, NEW c, StateRight(m, l, c),
           Loaded(m), Running(m), m.pool # {}, NEW count \in Nat \ {0},
           NEW f, f = Min(m.pool), NEW s, s = AllocatePages(m, count), Consecutive(s.frames),
           NEW k, k = IF s.answer = "page" /\ Running(s.m) THEN With(l, Hhdm(f), s.frames) ELSE l,
           NEW d, d = Restrict(c, DOMAIN c \ (Hhdm(f) .. Hhdm(f) + Len(s.frames) - 1))
    PROVE  StateRight(s.m, k, d)
<1>1. RowsRight(l) /\ CacheRight(m, l, c) /\ MemoryRight(m, l)  BY DEF StateRight
<1> PICK n : n = s.m  OBVIOUS
<1> PICK frames : frames = s.frames  OBVIOUS
<1> PICK A : A = HandedOut(l)  OBVIOUS
<1>2. PICK lev, home : Good(m, lev, home, A, A)  BY <1>1, LoadedIsGood
<1>3. f \in Nat /\ AllocatesTo(m, s, A, f, count)  BY <1>2, PagesAllocated
<1>4. ~Broken(frames)  BY ConsecutiveIs
<1>5. Forgets(c, d)
  <2> PICK gone : gone = Hhdm(f) .. Hhdm(f) + Len(frames) - 1  OBVIOUS
  <2>1. d = Restrict(c, DOMAIN c \ gone)  OBVIOUS
  <2>2. \A v \in DOMAIN d : v \in DOMAIN c /\ v \notin gone /\ d[v] = c[v]
    BY <2>1 DEF Restrict
  <2> QED  BY <2>2 DEF Forgets
<1>6. CASE Halted(n)
  <2>1. ~Running(n)  BY <1>6 DEF Halted, Reason, Running
  <2>2. k = l  BY <2>1
  <2>3. MemoryRight(n, k)  BY <1>6 DEF MemoryRight
  <2>4. Remembers(l, k, d)  BY <2>2 DEF Remembers
  <2>5. CacheRight(n, k, d)  BY <1>1, <1>5, <2>4, FewerCached
  <2> QED  BY <1>1, <2>2, <2>3, <2>5 DEF StateRight
<1>7. CASE s.answer = "null" /\ Goes(m, n, A, A)
  <2>1. k = l  BY <1>7
  <2>2. MemoryRight(n, k)  BY <1>7, <2>1, GoesIsRight
  <2>3. Remembers(l, k, d)  BY <2>1 DEF Remembers
  <2>4. CacheRight(n, k, d)  BY <1>1, <1>5, <2>3, FewerCached
  <2> QED  BY <1>1, <2>1, <2>2, <2>4 DEF StateRight
<1>8. CASE /\ ~Halted(n) /\ s.answer = "page" /\ InRow(frames, f) /\ Len(frames) = count
           /\ \A x \in f .. f + count - 1 : x \notin A
           /\ Goes(m, n, WithRow(A, f, count), WithRow(A, f, count))
  <2>1. Running(n)  BY <1>8 DEF Goes, Good
  <2>2. k = With(l, Hhdm(f), frames)  BY <1>8, <2>1
  <2>3. RowsRight(k) /\ HandedOut(k) = WithRow(A, f, count)
    <3>1. k = With(l, Hhdm(f), frames) /\ RowsRight(l) /\ InRow(frames, f)
      BY <1>1, <1>8, <2>2
    <3>2. Fresh(l, f, Len(frames))  BY <1>8 DEF Fresh
    <3>3. RowsRight(k) /\ HandedOut(k) = WithRow(HandedOut(l), f, Len(frames))
      BY <1>3, <3>1, <3>2, RowAdded
    <3> QED  BY <1>8, <3>3
  <2>4. MemoryRight(n, k)  BY <1>8, <2>3, GoesIsRight
  <2>5. Remembers(l, k, d)  BY <2>3 DEF WithRow, Remembers
  <2>6. CacheRight(n, k, d)  BY <1>1, <1>5, <2>5, FewerCached
  <2> QED  BY <2>3, <2>4, <2>6 DEF StateRight
<1> QED  BY <1>3, <1>4, <1>6, <1>7, <1>8 DEF AllocatesTo

\* release of an allocation.
LEMMA ReleaseIsRight ==
    ASSUME machine \in Machines, NEW m, NEW l, NEW c, StateRight(m, l, c),
           Loaded(m), Running(m), NEW p \in DOMAIN l, NEW n, n = ReleasePages(m, p, Len(l[p])),
           NEW k, k = Restrict(l, DOMAIN l \ {p}),
           NEW d, d = Restrict(c, DOMAIN c \ (p .. p + Len(l[p]) - 1))
    PROVE  StateRight(n, k, d)
<1>1. RowsRight(l) /\ CacheRight(m, l, c) /\ MemoryRight(m, l)  BY DEF StateRight
<1> PICK A : A = HandedOut(l)  OBVIOUS
<1>2. PICK lev, home : Good(m, lev, home, A, A)  BY <1>1, LoadedIsGood
<1>3. PICK f \in Nat : p = Hhdm(f)  BY <1>1 DEF RowsRight
<1> PICK count : count = Len(l[p])  OBVIOUS
<1> PICK A2 : A2 = HandedOut(k)  OBVIOUS
<1>4. /\ RowsRight(k) /\ count \in Nat /\ \A x \in f .. f + count - 1 : x \in A
      /\ \A x : x \in A2 <=> x \in A /\ ~(x \in f .. f + count - 1)
  BY <1>1, <1>3, RowRemoved
<1>5. \A j \in 0 .. count - 1 : f + j \in A  BY <1>4
<1>6. n = UnmapRun(m, Hhdm(f), count)  BY <1>3 DEF ReleasePages
<1>7. Goes(m, n, A2, A2)  BY <1>2, <1>4, <1>5, <1>6, RunUnmapped
<1>8. MemoryRight(n, k)  BY <1>7, GoesIsRight
<1>9. \A v \in DOMAIN d : v \in DOMAIN c /\ v \notin p .. p + count - 1 /\ d[v] = c[v]
  <2> PICK gone : gone = p .. p + count - 1  OBVIOUS
  <2>1. d = Restrict(c, DOMAIN c \ gone)  OBVIOUS
  <2>2. \A v \in DOMAIN d : v \in DOMAIN c /\ v \notin gone /\ d[v] = c[v]
    BY <2>1 DEF Restrict
  <2> QED  BY <2>2
<1>10. ASSUME NEW x \in Nat, x \in HandedOut(l), Hhdm(x) \in DOMAIN d
       PROVE  x \in HandedOut(k)
  <2>1. Hhdm(x) \notin p .. p + count - 1  BY <1>9, <1>10
  <2>2. ~(x \in f .. f + count - 1)  BY <1>3, <1>4, <2>1, FanoutIs DEF Hhdm
  <2> QED  BY <1>4, <1>10, <2>2
<1>11. Forgets(c, d) /\ Remembers(l, k, d)  BY <1>9, <1>10 DEF Forgets, Remembers
<1>12. CacheRight(n, k, d)  BY <1>1, <1>11, FewerCached
<1> QED  BY <1>4, <1>8, <1>12 DEF StateRight

\* What the tables say of a frame handed out.
LEMMA HandedOutIsMapped ==
    ASSUME machine \in Machines, NEW m, NEW lev, NEW home, NEW A, NEW B,
           Good(m, lev, home, A, B), NEW f \in machine.usable,
           \E t : HasLeaf(m, lev, home, t, Hhdm(f))
    PROVE  /\ Mapped(m, Hhdm(f)) /\ Translation(m, Hhdm(f)) = f
           /\ WritablePage(m, Hhdm(f))
<1>1. /\ m \in Memory /\ IsTree(m, lev, home)
      /\ f \in Nat /\ f # 0 /\ f \in Direct /\ Hhdm(f) \in Pages
  BY GoodIs
<1> PICK v : v = Hhdm(f)  OBVIOUS
<1>2. PICK t : HasLeaf(m, lev, home, t, v)  OBVIOUS
<1>3. Mapped(m, v) /\ Translation(m, v) = m.table[t][Index(v, 4)].frame
  BY <1>1, <1>2, WalkArrives
<1>4. LeafRight(v, m.table[t][Index(v, 4)].frame, m.table[t][Index(v, 4)].flags)
  BY <1>2 DEF Good, LeavesRight, HasLeaf
<1>5. m.table[t][Index(v, 4)].frame = f /\ "W" \in m.table[t][Index(v, 4)].flags
  BY <1>1, <1>4 DEF LeafRight
<1>6. ASSUME NEW k \in 1 .. 4 PROVE "W" \in Chain(m, v)[k].flags
  <2>1. PICK u \in TablesOf(m) : /\ lev[u] = k /\ v \in home[u]
                                 /\ Index(v, k) \in DOMAIN m.table[u]
                                 /\ Chain(m, v)[k] = m.table[u][Index(v, k)]
    BY <1>1, <1>3, WalkArrived
  <2>2. CASE k = 4
    <3>1. u = t  BY <1>1, <1>2, <2>1, <2>2, OneLastTable DEF HasLeaf
    <3> QED  BY <1>5, <2>1, <2>2, <3>1
  <2>3. CASE k # 4
    <3>1. lev[u] < 4 /\ Index(v, lev[u]) \in DOMAIN m.table[u]  BY <2>1, <2>3
    <3>2. "W" \in m.table[u][Index(Hhdm(f), lev[u])].flags
      BY <1>1, <2>1, <3>1 DEF Good, Writes, MustWrite
    <3> QED  BY <2>1, <3>2
  <2> QED  BY <2>2, <2>3
<1>7. WritablePage(m, v)  BY <1>6 DEF WritablePage
<1> QED  BY <1>3, <1>5, <1>7

\* The processor touches a page of an allocation.
LEMMA TouchIsRight ==
    ASSUME machine \in Machines, NEW m, NEW l, NEW c, StateRight(m, l, c),
           Loaded(m), Running(m), NEW p \in DOMAIN l, NEW v \in p .. p + Len(l[p]) - 1,
           NEW d, d = With(c, v, Translation(m, v))
    PROVE  StateRight(m, l, d)
<1>1. RowsRight(l) /\ CacheRight(m, l, c) /\ MemoryRight(m, l)  BY DEF StateRight
<1> PICK A : A = HandedOut(l)  OBVIOUS
<1>2. PICK lev, home : Good(m, lev, home, A, A)  BY <1>1, LoadedIsGood
<1>3. PICK f \in Nat : /\ p = Hhdm(f) /\ Len(l[p]) \in Nat
                       /\ \A x \in f .. f + Len(l[p]) - 1 : x \in HandedOut(l)
  BY <1>1, RowsAre
<1> PICK g : g = f + (v - p)  OBVIOUS
<1>4. v = Hhdm(g) /\ g \in f .. f + Len(l[p]) - 1 /\ g \in Nat
  BY <1>3, FanoutIs DEF Hhdm
<1>5. g \in A /\ g \in machine.usable
  <2>1. A \subseteq machine.usable  BY <1>2, GoodIs
  <2> QED  BY <1>3, <1>4, <2>1
<1>6. \E t : HasLeaf(m, lev, home, t, Hhdm(g))  BY <1>2, <1>5 DEF Good, Backed
<1>7. Translation(m, v) = g  BY <1>2, <1>4, <1>5, <1>6, HandedOutIsMapped
<1>8. CacheRight(m, l, d)
  <2>1. /\ \A x : x \in DOMAIN d <=> x \in DOMAIN c \/ x = v
        /\ \A x \in DOMAIN d : d[x] = IF x = v THEN g ELSE c[x]
    BY <1>7 DEF With
  <2>2. ASSUME NEW x \in DOMAIN d
        PROVE  d[x] \in Nat /\ \E h \in HandedOut(l) : h \in Nat /\ x = Hhdm(h) /\ d[x] = h
    <3>1. CASE x = v  BY <1>4, <1>5, <2>1, <3>1
    <3>2. CASE x # v
      <4>1. x \in DOMAIN c /\ d[x] = c[x]  BY <2>1, <3>2
      <4> QED  BY <1>1, <4>1 DEF CacheRight
    <3> QED  BY <3>1, <3>2
  <2> QED  BY <2>2 DEF CacheRight
<1> QED  BY <1>1, <1>8 DEF StateRight
-----------------------------------------------------------------------------
(* The inductive invariant                                                   *)

\* It holds when the bootloader starts the kernel.
LEMMA InitIsRight == Init => IInv
<1> SUFFICES ASSUME Init PROVE IInv  OBVIOUS
<1>1. machine \in Machines /\ fragmented \in BOOLEAN  BY DEF Init
<1> PICK m : m = mem  OBVIOUS
<1> PICK row : row = << >>  OBVIOUS
<1>2. m = [pool |-> machine.usable, table |-> row, root |-> 0, cr3 |-> 0, halt |-> "no"]
  BY DEF Init
<1>3. row \in TableMaps /\ \A x : x \notin DOMAIN row
  <2>1. row = [x \in {} |-> x]  OBVIOUS
  <2>2. row \in [{} -> Rows] /\ {} \in SUBSET Nat  BY <2>1
  <2>3. row \in TableMaps  BY <2>2 DEF TableMaps
  <2> QED  BY <2>1, <2>3
<1>4. Pristine(m)
  <2>1. machine.usable \in SUBSET Nat  BY <1>1, MachineIs
  <2>2. 0 \in Nat /\ "no" \in Halts  BY DEF Halts
  <2>3. m \in Memory  BY <1>2, <1>3, <2>1, <2>2 DEF Memory
  <2>4. TablesOf(m) = {} /\ m.halt = "no" /\ m.cr3 = 0 /\ m.root = 0 /\ m.pool = machine.usable
    BY <1>2, <1>3 DEF TablesOf
  <2> QED  BY <2>3, <2>4 DEF Pristine
<1>5. DOMAIN live = {} /\ DOMAIN tlb = {}  BY DEF Init
<1>6. RowsRight(live)  BY <1>5 DEF RowsRight
<1>7. MemoryRight(mem, live)  BY <1>4, <1>5 DEF MemoryRight
<1>8. CacheRight(mem, live, tlb)  BY <1>5 DEF CacheRight
<1> QED  BY <1>1, <1>6, <1>7, <1>8 DEF IInv, StateRight

\* Setting up the address space keeps it: init_kernel runs on pristine memory.
LEMMA InitKernelKeeps == IInv /\ InitKernel => IInv'
<1> SUFFICES ASSUME IInv, InitKernel PROVE IInv'  OBVIOUS
<1>1. machine \in Machines /\ fragmented \in BOOLEAN  BY DEF IInv
<1>2. machine' = machine /\ fragmented' = fragmented  BY DEF InitKernel
<1>3. ASSUME ~fragmented PROVE StateRight(mem, live, tlb)'
  <2> PICK n : n = mem'  OBVIOUS
  <2> PICK l : l = live  OBVIOUS
  <2> PICK c : c = tlb  OBVIOUS
  <2>1. StateRight(mem, l, c)  BY <1>3 DEF IInv
  <2>2. /\ ~Loaded(mem) /\ Running(mem)
        /\ n = IF mem.pool = {} THEN Stop(mem, "panic")
               ELSE Load(MapSpans(Rooted(mem, Min(mem.pool)), Spans(machine)))
    BY DEF InitKernel
  <2>3. StateRight(n, l, c)  BY <1>1, <2>1, <2>2, InitKernelIsRight
  <2>4. StateRight(n, l, c)'  BY <1>2, <2>3, StateStaysRight
  <2>5. l = live' /\ c = tlb'  BY DEF InitKernel
  <2> QED  BY <2>4, <2>5
<1> QED  BY <1>1, <1>2, <1>3 DEF IInv

\* An allocation keeps it, whether it is handed out or given up half-way.
LEMMA AllocateKeeps == \A n \in PageCounts : IInv /\ Allocate(n) => IInv'
<1> SUFFICES ASSUME NEW count \in PageCounts, IInv, Allocate(count) PROVE IInv'  OBVIOUS
<1> PICK s : s = AllocatePages(mem, count)  OBVIOUS
<1> PICK first : first = Hhdm(Min(mem.pool))  OBVIOUS
<1>1. machine \in Machines /\ fragmented \in BOOLEAN  BY DEF IInv
<1>2. /\ Loaded(mem) /\ Running(mem) /\ count > 0 /\ mem.pool # {}
      /\ HandOut(s, first) /\ machine' = machine
  BY DEF Allocate, Ready
<1>3. fragmented' = (fragmented \/ ~Consecutive(s.frames))  BY <1>2 DEF HandOut
<1>4. fragmented' \in BOOLEAN  BY <1>1, <1>3
<1>5. ASSUME ~fragmented' PROVE StateRight(mem, live, tlb)'
  <2>1. ~fragmented /\ Consecutive(s.frames)  BY <1>3, <1>5
  <2> PICK n : n = mem'  OBVIOUS
  <2> PICK k : k = live'  OBVIOUS
  <2> PICK d : d = tlb'  OBVIOUS
  <2> PICK f : f = Min(mem.pool)  OBVIOUS
  <2>2. /\ n = s.m
        /\ d = Restrict(tlb, DOMAIN tlb \ (Hhdm(f) .. Hhdm(f) + Len(s.frames) - 1))
        /\ k = IF s.answer = "page" /\ Running(s.m) THEN With(live, Hhdm(f), s.frames) ELSE live
    BY <1>2 DEF HandOut, Flushed
  <2>3. StateRight(mem, live, tlb)  BY <2>1 DEF IInv
  <2>4. count \in Nat \ {0}
    <3>1. count \in Nat  BY AddressSpaceConstants
    <3> QED  BY <1>2, <3>1
  <2>5. StateRight(s.m, k, d)  BY <1>1, <1>2, <2>1, <2>2, <2>3, <2>4, AllocateIsRight
  <2>6. StateRight(n, k, d)  BY <2>2, <2>5
  <2>7. StateRight(n, k, d)'  BY <1>2, <2>6, StateStaysRight
  <2> QED  BY <2>7
<1> QED  BY <1>1, <1>2, <1>4, <1>5 DEF IInv

\* Releasing an allocation keeps it: its pages and its translations go together.
LEMMA ReleaseKeeps == \A p \in DOMAIN live : IInv /\ Release(p) => IInv'
<1> SUFFICES ASSUME NEW p \in DOMAIN live, IInv, Release(p) PROVE IInv'  OBVIOUS
<1>1. machine \in Machines /\ fragmented \in BOOLEAN  BY DEF IInv
<1>2. machine' = machine /\ fragmented' = fragmented  BY DEF Release
<1>3. ASSUME ~fragmented PROVE StateRight(mem, live, tlb)'
  <2> PICK n : n = mem'  OBVIOUS
  <2> PICK k : k = live'  OBVIOUS
  <2> PICK d : d = tlb'  OBVIOUS
  <2>1. StateRight(mem, live, tlb)  BY <1>3 DEF IInv
  <2>2. /\ Loaded(mem) /\ Running(mem)
        /\ n = ReleasePages(mem, p, Len(live[p]))
        /\ k = Restrict(live, DOMAIN live \ {p})
        /\ d = Restrict(tlb, DOMAIN tlb \ (p .. p + Len(live[p]) - 1))
    BY DEF Release, Ready, Flushed
  <2>3. StateRight(n, k, d)  BY <1>1, <2>1, <2>2, ReleaseIsRight
  <2>4. StateRight(n, k, d)'  BY <1>2, <2>3, StateStaysRight
  <2> QED  BY <2>4
<1> QED  BY <1>1, <1>2, <1>3 DEF IInv

\* Caching the translation of an allocation's page keeps it.
LEMMA TouchKeeps ==
    \A p \in DOMAIN live : \A v \in PagesOf(p) : IInv /\ Touch(v) => IInv'
<1> SUFFICES ASSUME NEW p \in DOMAIN live, NEW v \in PagesOf(p), IInv, Touch(v) PROVE IInv'
  OBVIOUS
<1>1. machine \in Machines /\ fragmented \in BOOLEAN  BY DEF IInv
<1>2. machine' = machine /\ fragmented' = fragmented  BY DEF Touch
<1>3. ASSUME ~fragmented PROVE StateRight(mem, live, tlb)'
  <2> PICK m : m = mem  OBVIOUS
  <2> PICK l : l = live  OBVIOUS
  <2> PICK d : d = tlb'  OBVIOUS
  <2>1. StateRight(m, l, tlb)  BY <1>3 DEF IInv
  <2>2. /\ Loaded(m) /\ Running(m) /\ d = With(tlb, v, Translation(m, v))
        /\ p \in DOMAIN l /\ v \in p .. p + Len(l[p]) - 1
    BY DEF Touch, Ready, PagesOf
  <2>3. StateRight(m, l, d)  BY <1>1, <2>1, <2>2, TouchIsRight
  <2>4. StateRight(m, l, d)'  BY <1>2, <2>3, StateStaysRight
  <2>5. m = mem' /\ l = live'  BY DEF Touch
  <2> QED  BY <2>4, <2>5
<1> QED  BY <1>1, <1>2, <1>3 DEF IInv

\* A step that changes nothing keeps it.
LEMMA StutterKeeps == IInv /\ UNCHANGED vars => IInv'
<1> SUFFICES ASSUME IInv, UNCHANGED vars PROVE IInv'  OBVIOUS
<1>1. /\ machine' = machine /\ fragmented' = fragmented
      /\ mem' = mem /\ live' = live /\ tlb' = tlb
  BY DEF vars
<1>2. machine \in Machines /\ fragmented \in BOOLEAN  BY DEF IInv
<1>3. ASSUME ~fragmented PROVE StateRight(mem, live, tlb)'
  <2> PICK m : m = mem  OBVIOUS
  <2> PICK l : l = live  OBVIOUS
  <2> PICK c : c = tlb  OBVIOUS
  <2>1. StateRight(m, l, c)  BY <1>3 DEF IInv
  <2>2. StateRight(m, l, c)'  BY <1>1, <2>1, StateStaysRight
  <2> QED  BY <1>1, <2>2
<1> QED  BY <1>1, <1>2, <1>3 DEF IInv

\* The invariant behind the theorems below: the calls of the address space keep the
\* tables a tree, its leaves right and every frame in one pair of hands.
THEOREM AddressSpaceInvariant == Spec => []IInv
<1>1. IInv /\ [Next]_vars => IInv'
  <2> SUFFICES ASSUME IInv, [Next]_vars PROVE IInv'  OBVIOUS
  <2>1. CASE InitKernel  BY <2>1, InitKernelKeeps
  <2>2. CASE \E n \in PageCounts : Allocate(n)  BY <2>2, AllocateKeeps
  <2>3. CASE \E p \in DOMAIN live : Release(p)  BY <2>3, ReleaseKeeps
  <2>4. CASE \E p \in DOMAIN live : \E v \in PagesOf(p) : Touch(v)  BY <2>4, TouchKeeps
  <2>5. CASE UNCHANGED vars  BY <2>5, StutterKeeps
  <2> QED  BY <2>1, <2>2, <2>3, <2>4, <2>5 DEF Next
<1> QED  BY <1>1, InitIsRight, PTL DEF Spec
-----------------------------------------------------------------------------
(* What follows from it                                                      *)

\* The rows are injective and disjoint.
LEMMA RowsApart ==
    ASSUME NEW l, RowsRight(l)
    PROVE  /\ \A p \in DOMAIN l : IsInjective(l[p])
           /\ \A p, q \in DOMAIN l : p # q => Range(l[p]) \cap Range(l[q]) = {}
<1>1. ASSUME NEW p \in DOMAIN l
      PROVE  /\ IsInjective(l[p]) /\ DOMAIN l[p] = 1 .. Len(l[p])
             /\ \A x : x \in Range(l[p]) <=> \E i \in 1 .. Len(l[p]) : l[p][i] = x
  <2> PICK row : row = l[p]  OBVIOUS
  <2>1. PICK f \in Nat : InRow(row, f)  BY DEF RowsRight
  <2>2. /\ DOMAIN row = 1 .. Len(row) /\ Len(row) \in Nat
        /\ \A i \in 1 .. Len(row) : row[i] = f + i - 1
    BY <2>1, InRowIs
  <2>3. \A i, j \in DOMAIN row : row[i] = row[j] => i = j  BY <2>2
  <2>4. IsInjective(row)  BY <2>3 DEF IsInjective
  <2>5. \A x : x \in Range(row) <=> \E i \in 1 .. Len(row) : row[i] = x  BY <2>2 DEF Range
  <2> QED  BY <2>2, <2>4, <2>5
<1>2. ASSUME NEW p \in DOMAIN l, NEW q \in DOMAIN l, p # q,
             NEW x, x \in Range(l[p]), x \in Range(l[q])
      PROVE  FALSE
  <2>1. PICK i \in 1 .. Len(l[p]) : l[p][i] = x  BY <1>1, <1>2
  <2>2. PICK j \in 1 .. Len(l[q]) : l[q][j] = x  BY <1>1, <1>2
  <2> QED  BY <1>2, <2>1, <2>2 DEF RowsRight
<1>3. ASSUME NEW p \in DOMAIN l, NEW q \in DOMAIN l, p # q
      PROVE  Range(l[p]) \cap Range(l[q]) = {}
  BY <1>2, <1>3
<1> QED  BY <1>1, <1>3

\* A running machine: nothing made yet, or a good memory.
LEMMA RunningIs ==
    ASSUME IInv, ~fragmented, Running(mem)
    PROVE  \/ Pristine(mem) /\ DOMAIN live = {}
           \/ Loaded(mem) /\ \E lev, home : Good(mem, lev, home, Allocated, Allocated)
<1>1. MemoryRight(mem, live)  BY DEF IInv, StateRight
<1>2. ~Halted(mem)  BY DEF Halted, Reason, Running
<1>3. HandedOut(live) = Allocated  BY DEF HandedOut, Allocated
<1> QED  BY <1>1, <1>2, <1>3 DEF MemoryRight

\* map, unmap, allocate with its give-up path and release neither lose a usable frame
\* nor give one away twice, as long as every allocation got frames in a row.
THEOREM FramesKeepOneOwner == Spec => []FramesHaveOneOwner
<1>1. IInv => FramesHaveOneOwner
  <2> SUFFICES ASSUME IInv, ~fragmented, Running(mem) PROVE OneOwner
    BY DEF FramesHaveOneOwner
  <2>1. RowsRight(live)  BY DEF IInv, StateRight
  <2> PICK l : l = live  OBVIOUS
  <2>2. /\ \A p \in DOMAIN live : IsInjective(live[p])
        /\ \A p, q \in DOMAIN live : p # q => Range(live[p]) \cap Range(live[q]) = {}
    <3>1. RowsRight(l)  BY <2>1
    <3>2. /\ \A p \in DOMAIN l : IsInjective(l[p])
          /\ \A p, q \in DOMAIN l : p # q => Range(l[p]) \cap Range(l[q]) = {}
      BY <3>1, RowsApart
    <3> QED  BY <3>2
  <2>3. /\ mem.pool \cap Tables = {} /\ mem.pool \cap Allocated = {}
        /\ Tables \cap Allocated = {}
        /\ mem.pool \cup Tables \cup Allocated = machine.usable
    <3>1. Tables = TablesOf(mem)  BY DEF Tables, TablesOf
    <3>2. CASE Pristine(mem) /\ DOMAIN live = {}
      <4>1. Allocated = {}  BY <3>2 DEF Allocated
      <4> QED  BY <3>1, <3>2, <4>1 DEF Pristine
    <3>3. CASE \E lev, home : Good(mem, lev, home, Allocated, Allocated)
      BY <3>1, <3>3 DEF Good, Owned
    <3> QED  BY <3>2, <3>3, RunningIs
  <2> QED  BY <2>2, <2>3 DEF OneOwner
<1> QED  BY <1>1, AddressSpaceInvariant, PTL

\* What allocate returned stays mapped, to its own frames and writable, whatever else
\* is allocated and released.
THEOREM AllocationsKeepMapped == Spec => []AllocationsStayMapped
<1>1. IInv => AllocationsStayMapped
  <2> SUFFICES ASSUME IInv, ~fragmented, Running(mem),
                      NEW p \in DOMAIN live, NEW k \in 1 .. Len(live[p])
               PROVE  /\ Mapped(mem, p + k - 1)
                      /\ Translation(mem, p + k - 1) = live[p][k]
                      /\ WritablePage(mem, p + k - 1)
    BY DEF AllocationsStayMapped
  <2>1. machine \in Machines /\ RowsRight(live)  BY DEF IInv, StateRight
  <2>2. PICK lev, home : Good(mem, lev, home, Allocated, Allocated)  BY RunningIs
  <2>3. PICK f \in Nat : p = Hhdm(f) /\ InRow(live[p], f)  BY <2>1 DEF RowsRight
  <2> PICK frames : frames = live[p]  OBVIOUS
  <2>4. /\ Len(frames) \in Nat /\ DOMAIN frames = 1 .. Len(frames)
        /\ frames[k] = f + k - 1
    BY <2>3, InRowIs
  <2> PICK g : g = live[p][k]  OBVIOUS
  <2>5. p + k - 1 = Hhdm(g)  BY <2>3, <2>4, FanoutIs DEF Hhdm
  <2>6. g \in Allocated
    <3>1. \E q \in DOMAIN live : \E i \in DOMAIN live[q] : live[q][i] = g  BY <2>4
    <3>2. g \in HandedOut(live)  BY <3>1, HandedOutIs
    <3> QED  BY <3>2 DEF HandedOut, Allocated
  <2>7. g \in machine.usable
    <3> PICK A : A = Allocated  OBVIOUS
    <3>1. A \subseteq machine.usable  BY <2>1, <2>2, GoodIs
    <3> QED  BY <2>6, <3>1
  <2>8. \E t : HasLeaf(mem, lev, home, t, Hhdm(g))  BY <2>2, <2>6 DEF Good, Backed
  <2>9. /\ Mapped(mem, Hhdm(g)) /\ Translation(mem, Hhdm(g)) = g /\ WritablePage(mem, Hhdm(g))
    BY <2>1, <2>2, <2>7, <2>8, HandedOutIsMapped
  <2> QED  BY <2>5, <2>9
<1> QED  BY <1>1, AddressSpaceInvariant, PTL

\* The only ways a call stops the machine are running out of frames for tables and
\* memory above what the direct map covers.
THEOREM StopsAreForMemory == Spec => []StopsOnlyForMemory
<1>1. IInv => StopsOnlyForMemory
  <2> SUFFICES ASSUME IInv, ~fragmented
               PROVE  /\ mem.halt = "panic" => mem.pool = {}
                      /\ mem.halt = "fault" => \E f \in machine.usable : f >= machine.direct
    BY DEF StopsOnlyForMemory
  <2>1. MemoryRight(mem, live)  BY DEF IInv, StateRight
  <2>2. CASE Halted(mem)  BY <2>2 DEF Halted, Reason
  <2>3. CASE mem.halt = "no"  BY <2>3
  <2> QED  BY <2>1, <2>2, <2>3 DEF MemoryRight, Good, Running, Pristine
<1> QED  BY <1>1, AddressSpaceInvariant, PTL

\* On a machine whose usable memory lies in the first 4 GiB every table can be reached
\* where get_next_table looks for it, and written.
THEOREM TablesKeepReachable ==
    Spec => [](machine.usable \subseteq 0 .. machine.direct - 1 => TablesStayReachable)
<1> DEFINE Low == machine.usable \subseteq 0 .. machine.direct - 1
<1>1. IInv => (Low => TablesStayReachable)
  <2> SUFFICES ASSUME IInv, Low, ~fragmented, Running(mem), Loaded(mem), NEW t \in Tables
               PROVE  DirectlyMapped(mem, t) /\ WritablePage(mem, Hhdm(t))
    BY DEF TablesStayReachable
  <2>1. machine \in Machines  BY DEF IInv
  <2>2. ~Pristine(mem)  BY DEF Pristine, Loaded
  <2>3. PICK lev, home : Good(mem, lev, home, Allocated, Allocated)  BY <2>2, RunningIs
  <2> PICK A : A = Allocated  OBVIOUS
  <2>4. t \in TablesOf(mem)  BY DEF Tables, TablesOf
  <2>5. t \in machine.usable /\ t < machine.direct
    <3>1. TablesOf(mem) \subseteq machine.usable  BY <2>1, <2>3, GoodIs
    <3> QED  BY <2>1, <2>4, <3>1, MachineIs
  <2>6. \E u : HasLeaf(mem, lev, home, u, Hhdm(t))  BY <2>3, <2>4, <2>5 DEF Good, SelfMapped
  <2>7. /\ Mapped(mem, Hhdm(t)) /\ Translation(mem, Hhdm(t)) = t /\ WritablePage(mem, Hhdm(t))
    BY <2>1, <2>3, <2>5, <2>6, HandedOutIsMapped
  <2> QED  BY <2>7 DEF DirectlyMapped
<1> HIDE DEF Low
<1>2. Spec => [](Low => TablesStayReachable)  BY <1>1, AddressSpaceInvariant, PTL
<1> QED  BY <1>2 DEF Low

\* No page is used through a translation the tables no longer hold, as long as every
\* allocation got frames in a row.
THEOREM TlbKeepsCoherent == Spec => [](~fragmented => TlbIsCoherent)
<1>1. IInv => (~fragmented => TlbIsCoherent)
  <2> SUFFICES ASSUME IInv, ~fragmented, Running(mem), NEW v \in DOMAIN tlb
               PROVE  Mapped(mem, v) /\ Translation(mem, v) = tlb[v]
    BY DEF TlbIsCoherent
  <2>1. machine \in Machines /\ CacheRight(mem, live, tlb)  BY DEF IInv, StateRight
  <2>2. PICK f \in HandedOut(live) : v = Hhdm(f) /\ tlb[v] = f  BY <2>1 DEF CacheRight
  <2>3. f \in Allocated  BY <2>2 DEF HandedOut, Allocated
  <2>4. DOMAIN live # {}  BY <2>3 DEF Allocated
  <2>5. PICK lev, home : Good(mem, lev, home, Allocated, Allocated)  BY <2>4, RunningIs
  <2>6. f \in machine.usable
    <3> PICK A : A = Allocated  OBVIOUS
    <3>1. A \subseteq machine.usable  BY <2>1, <2>5, GoodIs
    <3> QED  BY <2>3, <3>1
  <2>7. \E t : HasLeaf(mem, lev, home, t, Hhdm(f))  BY <2>3, <2>5 DEF Good, Backed
  <2>8. Mapped(mem, Hhdm(f)) /\ Translation(mem, Hhdm(f)) = f
    BY <2>1, <2>5, <2>6, <2>7, HandedOutIsMapped
  <2> QED  BY <2>2, <2>8
<1> QED  BY <1>1, AddressSpaceInvariant, PTL
\* Whatever has been called, the tables hold entries and lie in frames of the bitmap, as
\* long as every allocation got frames in a row.
THEOREM AddressSpaceTypeOK == Spec => [](~fragmented => TypeOK)
<1>1. IInv => (~fragmented => TypeOK)
  <2> SUFFICES ASSUME IInv, ~fragmented PROVE TypeOK  OBVIOUS
  <2>1. /\ machine \in Machines /\ fragmented \in BOOLEAN
        /\ RowsRight(live) /\ MemoryRight(mem, live) /\ CacheRight(mem, live, tlb)
    BY DEF IInv, StateRight
  <2> PICK m : m = mem  OBVIOUS
  <2>2. /\ m \in Memory /\ m.pool \subseteq machine.usable /\ TablesOf(m) \subseteq machine.usable
        /\ m.root \in {0} \cup TablesOf(m) /\ m.cr3 \in {0, m.root}
    <3>1. CASE Halted(m)  BY <3>1 DEF Halted
    <3>2. CASE Pristine(m)
      <4>1. TablesOf(m) \subseteq machine.usable  BY <3>2 DEF Pristine
      <4> QED  BY <3>2, <4>1 DEF Pristine
    <3>3. CASE \E lev, home : Good(m, lev, home, HandedOut(live), HandedOut(live))
      <4> PICK A : A = HandedOut(live)  OBVIOUS
      <4>1. PICK lev, home : Good(m, lev, home, A, A)  BY <3>3
      <4> QED  BY <2>1, <4>1, GoodIs
    <3> QED  BY <2>1, <3>1, <3>2, <3>3 DEF MemoryRight
  <2>3. \A x \in machine.usable : x \in 0 .. machine.limit - 1
    <3>1. machine.usable \in SUBSET Nat /\ machine.limit \in Nat
          /\ \A x \in machine.usable : x < machine.limit
      BY <2>1, MachineIs
    <3> QED  BY <3>1
  <2>4. m.halt \in Halts  BY <2>2 DEF Memory
  <2>5. ASSUME NEW t \in TablesOf(m)
        PROVE  DOMAIN m.table[t] \subseteq 0 .. Fanout - 1 /\ Range(m.table[t]) \subseteq Entry
    <3> PICK row : row = m.table[t]  OBVIOUS
    <3>1. row \in Rows
      <4>1. m.table \in TableMaps  BY <2>2 DEF Memory
      <4>2. PICK D \in SUBSET Nat : m.table \in [D -> Rows]  BY <4>1 DEF TableMaps
      <4> HIDE DEF Rows
      <4> QED  BY <2>5, <4>2 DEF TablesOf
    <3>2. DOMAIN row \subseteq Slots /\ \A i \in DOMAIN row : row[i] \in Entry
      BY <3>1, RowIs
    <3> HIDE DEF Entry
    <3>3. Range(row) \subseteq Entry  BY <3>2 DEF Range
    <3> QED  BY <3>2, <3>3 DEF Slots
  <2>6. Range(tlb) \subseteq Nat  BY <2>1 DEF CacheRight, Range
  <2>7. \A p \in DOMAIN live : live[p] \in Seq(Nat)  BY <2>1 DEF RowsRight, InRow
  <2>8. Tables = TablesOf(m)  BY DEF Tables, TablesOf
  <2>9. \A t \in Tables : /\ DOMAIN mem.table[t] \subseteq 0 .. Fanout - 1
                          /\ Range(mem.table[t]) \subseteq Entry
    BY <2>5, <2>8
  <2>10. /\ mem.pool \subseteq 0 .. machine.limit - 1 /\ Tables \subseteq 0 .. machine.limit - 1
         /\ mem.root \in {0} \cup Tables /\ mem.cr3 \in {0, mem.root}
         /\ mem.halt \in {"no", "panic", "fault"}
    BY <2>2, <2>3, <2>4, <2>8 DEF Halts
  <2> HIDE DEF Entry
  <2> QED  BY <2>1, <2>6, <2>7, <2>9, <2>10 DEF TypeOK
<1> QED  BY <1>1, AddressSpaceInvariant, PTL
-----------------------------------------------------------------------------
(* Protection                                                                *)

\* A mapped section has its protection: the leaf has the section's flags, and the
\* directories take neither writes nor execution away from it.
LEMMA SectionIsProtected ==
    ASSUME machine \in Machines, LaidOut(machine), NEW m, NEW lev, NEW home, NEW A, NEW B,
           Good(m, lev, home, A, B), Loaded(m), NEW s \in DOMAIN machine.sections,
           NEW r, r = machine.sections[s], NEW k \in 0 .. r.pages - 1,
           NEW v, v = PageOf(r, k)
    PROVE  /\ Mapped(m, v) /\ Translation(m, v) = FrameOf(r, k)
           /\ WritablePage(m, v) <=> "W" \in r.flags
           /\ Executable(m, v) <=> "XD" \notin r.flags
<1>1. m \in Memory /\ IsTree(m, lev, home)  BY GoodIs
<1>2. InSection(v, s)  BY DEF InSection
<1>3. PICK t : HasLeaf(m, lev, home, t, v)  BY <1>2 DEF Good, SelfMapped, SectionsHave
<1>4. t \in TablesOf(m) /\ lev[t] = 4 /\ v \in home[t] /\ v \in Pages
  BY <1>1, <1>3, TreeIs DEF HasLeaf
<1> PICK e : e = m.table[t][Index(v, 4)]  OBVIOUS
<1>5. Mapped(m, v) /\ Translation(m, v) = e.frame  BY <1>1, <1>3, <1>4, WalkArrives
<1>6. LeafRight(v, e.frame, e.flags)  BY <1>3 DEF Good, LeavesRight, HasLeaf
<1>7. e.frame = FrameOf(r, k)  BY <1>6 DEF LeafRight
<1>8. SameProtection(e.flags, r.flags)  BY <1>2, <1>6 DEF LeafRight, ProtectedAs
<1>9. ASSUME NEW l \in 1 .. 4
      PROVE  /\ l = 4 => Chain(m, v)[l] = e
             /\ l # 4 => /\ "XD" \notin Chain(m, v)[l].flags
                         /\ "W" \in r.flags => "W" \in Chain(m, v)[l].flags
  <2>1. PICK u \in TablesOf(m) : /\ lev[u] = l /\ v \in home[u]
                                 /\ Index(v, l) \in DOMAIN m.table[u]
                                 /\ Chain(m, v)[l] = m.table[u][Index(v, l)]
    BY <1>1, <1>4, <1>5, WalkArrived
  <2>2. CASE l = 4
    <3>1. u = t  BY <1>1, <1>4, <2>1, <2>2, OneLastTable
    <3> QED  BY <2>1, <2>2, <3>1
  <2>3. CASE l # 4
    <3>1. lev[u] < 4 /\ Index(v, lev[u]) \in DOMAIN m.table[u]  BY <2>1, <2>3
    <3>2. "XD" \notin m.table[u][Index(v, lev[u])].flags
      BY <2>1, <3>1 DEF Good, Writes
    <3>3. "W" \in r.flags => MustWrite(v)  BY <1>2 DEF MustWrite
    <3>4. "W" \in r.flags => "W" \in m.table[u][Index(v, lev[u])].flags
      BY <2>1, <3>1, <3>3 DEF Good, Writes
    <3> QED  BY <2>1, <2>3, <3>2, <3>4
  <2> QED  BY <2>2, <2>3
<1>10. 4 \in 1 .. 4  OBVIOUS
<1>11. WritablePage(m, v) <=> "W" \in r.flags
  BY <1>8, <1>9, <1>10 DEF WritablePage, SameProtection
<1>12. Executable(m, v) <=> "XD" \notin r.flags
  BY <1>8, <1>9, <1>10 DEF Executable, SameProtection
<1> QED  BY <1>5, <1>7, <1>11, <1>12

\* On a machine whose image is laid out as the linker script does, while it fits
\* behind one last table, each section stays mapped with the protection init_kernel
\* names for it, whatever is allocated and released.
THEOREM SectionsKeepProtected ==
    Spec => [](LaidOut(machine) /\ Running(mem) /\ ~fragmented => SectionsProtected)
<1> DEFINE Plain == LaidOut(machine) /\ Running(mem) /\ ~fragmented
<1>1. IInv => (Plain => SectionsProtected)
  <2> SUFFICES ASSUME IInv, LaidOut(machine), Running(mem), ~fragmented, Loaded(mem),
                      NEW s \in DOMAIN machine.sections,
                      NEW r, r = machine.sections[s], NEW k \in 1 .. r.pages,
                      NEW v, v = r.virt + k - 1
               PROVE  /\ Mapped(mem, v) /\ Translation(mem, v) = r.phys + k - 1
                      /\ WritablePage(mem, v) <=> "W" \in r.flags
                      /\ Executable(mem, v) <=> "XD" \notin r.flags
    BY DEF SectionsProtected
  <2>1. machine \in Machines  BY DEF IInv
  <2>2. ~Pristine(mem)  BY DEF Pristine, Loaded
  <2>3. PICK lev, home : Good(mem, lev, home, Allocated, Allocated)  BY <2>2, RunningIs
  <2>4. r.virt \in Nat /\ r.phys \in Nat /\ r.pages \in Nat  BY <2>1, SectionIs
  <2> PICK j : j = k - 1  OBVIOUS
  <2>5. j \in 0 .. r.pages - 1 /\ v = PageOf(r, j) /\ r.phys + k - 1 = FrameOf(r, j)
    BY <2>4 DEF PageOf, FrameOf
  <2> QED  BY <2>1, <2>3, <2>5, SectionIsProtected
<1> HIDE DEF Plain
<1>2. Spec => [](Plain => SectionsProtected)  BY <1>1, AddressSpaceInvariant, PTL
<1> QED  BY <1>2 DEF Plain
=============================================================================
