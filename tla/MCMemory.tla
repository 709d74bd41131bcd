------------------------------ MODULE MCMemory ------------------------------
(* Model of Memory: the image and the heap in one page table, the stack in *)
(* another.                                                                *)
EXTENDS Memory

MCAddrs == {1, 2, 3}
MCDirOf == [a \in MCAddrs |-> IF a = 3 THEN 2 ELSE 1]

(* Which of the equal pages an allocation returns makes no difference to   *)
(* anything but the page's number.  TLC compares states by this view: for  *)
(* every entry its bits, the page's count and contents and the entries     *)
(* that refer to the same page, and how many pages are free.               *)
Entry(t, a) ==
  IF ~Mapped(t, a) THEN <<>>
  ELSE LET e == pte[t][a]
       IN  <<e.w, e.d, e.page = LOW, data[e.page], view[t][a],
             IF e.page = LOW THEN 0 ELSE mem_map[e.page],
             {x \in Tasks \X Addrs :
                Mapped(x[1], x[2]) /\ pte[x[1]][x[2]].page = e.page}>>

PageNumbersAside ==
  <<[t \in Tasks |-> [a \in Addrs |-> Entry(t, a)]],
    [t \in Tasks |-> [d \in Dirs |-> dir[t][d] # NoPage]],
    [t \in Tasks |-> task[t] # NoPage],
    [t \in Tasks |-> IF loading[t] = NoPage THEN 0 ELSE loading[t][2]],
    [t \in Tasks |-> strings[t] # NoPage],
    pc, alive, exe, Cardinality(Free)>>
=============================================================================
