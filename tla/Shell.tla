------------------------------- MODULE Shell -------------------------------
(***************************************************************************)
(* The shell of tinyos_shell.c: a shell on each terminal, and the programs *)
(* that start others.  The input of a shell is a list of command lines, so *)
(* that its loop can be written out; a line is one word.  Lines with "|"   *)
(* are left out, as pipes are not implemented; prompts and messages, too.  *)
(***************************************************************************)
EXTENDS Programs

CONSTANT Sessions   \* what is typed at the terminals, before "exit"

\* A process that starts another takes what it gets.
execute(prog) == [exec(prog) EXCEPT !.is = Ignored]

\* savefid(): the n-th stream that the shell opens becomes a copy of fid.
savefid(n, fid) == <<open(null), dup2(Num(fid), File(n), 0)>>

\* Mutant: the copy of stdout is not closed.
restore_open(n, fid) == <<dup2(File(n), Num(fid), 0)>>

restore(n, fid) == <<dup2(File(n), Num(fid), 0), close(File(n), 0)>>

\* process_line() for line i of a shell, with one program.
process_line(i, prog) ==
  LET savein == 2 * i - 1  saveout == 2 * i IN
  savefid(savein, 0) \o savefid(saveout, 1) \o restore(saveout, 1) \o <<execute(prog)>>
  \o restore(savein, 0) \o <<wait(Kid(i), Ignored)>>

Shell(lines) ==
  FlattenSeq([i \in DOMAIN lines |-> <<read(Num(0), <<lines[i]>>)>> \o process_line(i, lines[i])])
  \o <<read(Num(0), <<"exit">>)>>

Echo == <<write(Num(1), <<"echo">>)>>

\* Runs its program on terminal 1 and does not wait for it.
RunTerm == <<open(term1)>> \o at(1, 0) \o <<dup2(Num(0), Num(1), 0), execute("echo"), return(Kid(1))>>

Repeat == Times(2, <<execute("echo"), wait(AnyOf, Ignored)>>)

\* boot_shell(): a shell for each terminal.
boot_shell(lines) ==
  LET term == <<term0, term1>>  sh == <<"sh0", "sh1">>
      start(i) ==
        <<sendme(term[i], lines[i] \o <<"exit">>)>>
        \o <<open(term[i])>> \o at(2 * i - 1, 0) \o <<open(term[i])>> \o at(2 * i, 1)
        \o <<execute(sh[i]), close(Num(0), 0)>>
  IN FlattenSeq([i \in DOMAIN lines |-> start(i)]) \o <<wait_all>>

\* A machine for each of the sessions.
shells ==
  [t \in DOMAIN Sessions |->
     [boot |-> boot_shell(Sessions[t]),
      sh0 |-> Shell(Sessions[t][1]),
      sh1 |-> Shell(Last(Sessions[t])),
      echo |-> Echo, runterm |-> RunTerm, repeat |-> Repeat]]

----------------------------------------------------------------------------
\* Whenever a shell reads a command, its file ids 0 and 1 name its own
\* terminal, and it has no others, whatever the programs have done with the
\* streams that they inherited (savefid() and process_line()).
ShellKeepsStreams ==
  \A p \in User : At(p, "Read") /\ part[p] \in {"sh0", "sh1"} =>
    /\ \A fd \in {0, 1} :
         FIDT[p][fd] # Nil /\ streamobj[FIDT[p][fd]] = IF part[p] = "sh0" THEN term0 ELSE term1
    /\ \A fd \in Files!Fid \ {0, 1} : FIDT[p][fd] = Nil
=============================================================================
