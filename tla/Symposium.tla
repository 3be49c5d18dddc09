----------------------------- MODULE Symposium -----------------------------
(***************************************************************************)
(* The dining philosophers of symposium.c, as mtask.c boots them.          *)
(* Variable i of the monitor is the state of philosopher i, condition i is *)
(* hungry[i].  Thinking and eating take time, but change nothing; printing *)
(* is left out, as it is with QUIET.                                       *)
(***************************************************************************)
EXTENDS Programs

CONSTANTS
  Philosophers,   \* symp->N
  bites           \* symp->bites

Philosopher == 0 .. (Philosophers - 1)

\* The states of a philosopher, and what is left of them with the table.
NOTHERE == 0  THINKING == 1  HUNGRY == 2  EATING == 3
freed == 4

LEFT(i) == (i + 1) % Philosophers
RIGHT(i) == (i + Philosophers - 1) % Philosophers

try(i) == [call |-> "trytoeat", i |-> i]
eats(i) == [call |-> "assert", i |-> i]
table(state) == [call |-> "table", state |-> state]

\* Mutant: only the neighbour on one side is asked.
MayEat_left(i) == mem[i] = HUNGRY /\ mem[LEFT(i)] # EATING

MayEat(i) == mem[i] = HUNGRY /\ mem[LEFT(i)] # EATING /\ mem[RIGHT(i)] # EATING

\* Make a hungry philosopher eat, if neither neighbour does, and wake her.
trytoeat(p) ==
  LET i == Cmd(p).i IN
  /\ At(p, "trytoeat")
  /\ IF MayEat(i)
     THEN mem' = [mem EXCEPT ![i] = EATING] /\ Wake(Waiters(i))
     ELSE UNCHANGED <<mem, waiting, relocking>>
  /\ Done(p, mx = p)
  /\ UNCHANGED <<vars, test, part, results, terminals, mx>>

assert_eating(p) ==
  /\ At(p, "assert")
  /\ Done(p, mem[Cmd(p).i] = EATING)
  /\ UNCHANGED <<vars, test, part, results, terminals, monitor>>

\* SymposiumTable_init() and SymposiumTable_destroy().
SymposiumTable(p) ==
  /\ At(p, "table")
  /\ mem' = [i \in DOMAIN mem |-> Cmd(p).state]
  /\ Done(p, TRUE)
  /\ UNCHANGED <<vars, test, part, results, terminals, mx, waiting, relocking>>

----------------------------------------------------------------------------
neighbours(i) == <<try(LEFT(i)), try(RIGHT(i))>>

bite(i) ==
  <<lock, assign(i, HUNGRY), try(i), wait_while(i, i, {HUNGRY}), eats(i), unlock,
    lock, assign(i, THINKING)>> \o neighbours(i) \o <<unlock>>

SymposiumTable_philosopher(i) ==
  <<lock, assign(i, THINKING), unlock>> \o Times(bites, bite(i))
  \o <<lock, assign(i, NOTHERE), unlock>>

seat == <<"philosopher0", "philosopher1", "philosopher2", "philosopher3">>

\* Mutant: the table goes while somebody may still sit at it.
wait_philosophers_one == <<wait(AnyOf, Ignored)>>

wait_philosophers == Times(Philosophers, <<wait(AnyOf, Ignored)>>)

SymposiumOfProcesses ==
  LET sit(i) == [exec(seat[i]) EXCEPT !.is = Ignored] IN
  <<table(NOTHERE)>> \o ForEach(Philosophers, sit) \o wait_philosophers \o <<table(freed)>>

\* The philosophers are threads, which cannot be created.
SymposiumOfThreads ==
  <<table(NOTHERE)>> \o Times(Philosophers, <<stub("CreateThread", 0)>>)
  \o Times(Philosophers, <<stub("ThreadJoin", -1)>>) \o <<table(freed)>>

boot_symposium ==
  <<open(term0)>> \o at(1, 0) \o <<open(term0)>> \o at(2, 1)
  \o <<exec("symposium"), close(Num(0), 0), close(Num(1), 0), wait_all>>

symposia ==
  LET philosophers == {seat[i + 1] : i \in Philosopher}
      program(symposium) ==
        [s \in {"boot", "symposium"} \cup philosophers |->
           IF s = "boot" THEN boot_symposium
           ELSE IF s = "symposium" THEN symposium
           ELSE SymposiumTable_philosopher(CHOOSE i \in Philosopher : seat[i + 1] = s)]
  IN [of_processes |-> program(SymposiumOfProcesses), of_threads |-> program(SymposiumOfThreads)]

SymposiumStep == \E p \in Running : trytoeat(p) \/ assert_eating(p) \/ SymposiumTable(p)

----------------------------------------------------------------------------
\* Neighbours never eat at the same time (the condition of trytoeat()).
EatApart ==
  test = "of_processes" =>
    \A i \in Philosopher : mem[i] = EATING => mem[LEFT(i)] # EATING \/ LEFT(i) = i

\* SymposiumOfProcesses() frees the table, which is on its own stack, only
\* when every philosopher has got up: it waits for any N children, and the
\* philosophers have no children that it could be given instead.
TableOutlives ==
  \A p \in User, i \in Philosopher :
    pstate[p] = "ALIVE" /\ test = "of_processes" /\ part[p] = seat[i + 1] /\ ip[p] <= Len(Code(p)) =>
      mem[i] # freed

\* The table serves the philosophers as long as they sit at it
\* (SymposiumTable_philosopher() and SymposiumOfProcesses()).
SymposiumSafe == EatApart /\ TableOutlives
=============================================================================
