---------------------------- MODULE AddressSpaces ----------------------------
(***************************************************************************)
(* The page directories paging.c builds, and the x86 two-level walk that   *)
(* translates a virtual address through them.  paging_init builds the boot *)
(* directory; prog1_init .. prog6_init are one function copied six times,  *)
(* differing only in the physical base of the 4 MB user page, so they are  *)
(* one operator of the slot here.  An entry keeps only the bits the code   *)
(* sets that decide a translation: present, rw, user, 4 MB size, and its   *)
(* frame (a 4 MB page) or its page table (a 4 KB table).  Entries the code *)
(* never writes are zero: the arrays are static.                           *)
(***************************************************************************)
EXTENDS Integers

PAGE_SIZE == 4096
TABLE_SIZE == 1024
FOUR_MB == 4194304                  \* _4MB, also KERNEL_BEGIN
EIGHT_MB == 8388608                 \* _8MB
SIXTEEN_MB == 16777216              \* _16MB
VIDMEM == 753664                    \* 0xB8000
PDE_128MB == 32                     \* _128PDENTRY
PDE_136MB == 34                     \* _136PDENTRY
PDE_144MB == 36                     \* _144PDENTRY

Absent == [present |-> FALSE, rw |-> FALSE, user |-> FALSE, big |-> FALSE,
           frame |-> 0, table |-> "none"]
Page(frame, user) == [Absent EXCEPT !.present = TRUE, !.rw = TRUE,
                                    !.user = user, !.frame = frame]
BigPage(frame, user) == [Page(frame, user) EXCEPT !.big = TRUE]
TableRef(table, user) == [Page(0, user) EXCEPT !.table = table]

\* The 0-4 MB table (page_table, progN_pt): every page present, rw and
\* supervisor, then entry 0 cleared so that NULL faults.
LowPte(i) == IF i = 0 THEN Absent ELSE Page(i * PAGE_SIZE, FALSE)

\* vid_table / progN_vt: only entry 0, the text-mode video page, for users.
VidPte(i) == IF i = 0 THEN Page(VIDMEM, TRUE) ELSE Absent

\* progN_term: 4 MB of supervisor pages from 32 MB, for the terminals'
\* background buffers at 144 MB.
TermPte(i) == Page(SIXTEEN_MB + SIXTEEN_MB + i * PAGE_SIZE, FALSE)

Pte(table, i) ==
    CASE table = "low"  -> LowPte(i)
      [] table = "vid"  -> VidPte(i)
      [] table = "term" -> TermPte(i)

\* paging_init's page_directory: no terminal-buffer table.
PagingInit ==
    [i \in {0, 1, PDE_128MB, PDE_136MB} |->
        CASE i = 0         -> TableRef("low", FALSE)
          [] i = 1         -> BigPage(FOUR_MB, FALSE)
          [] i = PDE_128MB -> BigPage(EIGHT_MB, TRUE)
          [] i = PDE_136MB -> TableRef("vid", TRUE)]

\* The physical base of slot s's user page: _8MB + _4MB * s.
UserFrame(s) == EIGHT_MB + FOUR_MB * s

\* Mutant: a copy of prog1_init whose base was not changed.
ProgInitCopied(s) ==
    [i \in {0, 1, PDE_128MB, PDE_136MB, PDE_144MB} |->
        CASE i = 0         -> TableRef("low", FALSE)
          [] i = 1         -> BigPage(FOUR_MB, FALSE)
          [] i = PDE_128MB -> BigPage(UserFrame(0), TRUE)
          [] i = PDE_136MB -> TableRef("vid", TRUE)
          [] i = PDE_144MB -> TableRef("term", FALSE)]

\* Mutant: the terminal-buffer table is left out, as in paging_init.
ProgInitNoTerm(s) ==
    [i \in {0, 1, PDE_128MB, PDE_136MB} |->
        CASE i = 0         -> TableRef("low", FALSE)
          [] i = 1         -> BigPage(FOUR_MB, FALSE)
          [] i = PDE_128MB -> BigPage(UserFrame(s), TRUE)
          [] i = PDE_136MB -> TableRef("vid", TRUE)]

\* prog<s+1>_init's progN_pd.
ProgInit(s) ==
    [i \in {0, 1, PDE_128MB, PDE_136MB, PDE_144MB} |->
        CASE i = 0         -> TableRef("low", FALSE)
          [] i = 1         -> BigPage(FOUR_MB, FALSE)
          [] i = PDE_128MB -> BigPage(UserFrame(s), TRUE)
          [] i = PDE_136MB -> TableRef("vid", TRUE)
          [] i = PDE_144MB -> TableRef("term", FALSE)]

Pde(dir, i) == IF i \in DOMAIN dir THEN dir[i] ELSE Absent

\* The page walk: the physical address and the rights of both levels
\* (an access from user mode needs the user bit in both), or Absent.
Translate(dir, va) ==
    LET d == Pde(dir, va \div FOUR_MB)
    IN IF ~d.present THEN Absent
       ELSE IF d.big THEN [d EXCEPT !.frame = d.frame + (va % FOUR_MB)]
       ELSE LET t == Pte(d.table, (va % FOUR_MB) \div PAGE_SIZE)
            IN IF ~t.present THEN Absent
               ELSE [t EXCEPT !.frame = t.frame + (va % PAGE_SIZE),
                              !.user = d.user /\ t.user, !.rw = d.rw /\ t.rw]

\* A store to va from kernel (supervisor) or user mode succeeds.
KernelWritable(dir, va) == Translate(dir, va).present /\ Translate(dir, va).rw
UserWritable(dir, va) == KernelWritable(dir, va) /\ Translate(dir, va).user
====
