--------------------------- MODULE MCPaintTryhard ---------------------------
(* Programs for module PaintTryhard.                                        *)
EXTENDS PaintTryhard

CONSTANTS boss, painter, counter

MCStaff == <<painter, counter, boss>>

MCSubs == [e \in {boss, painter, counter} |-> IF e = boss THEN <<painter, counter>> ELSE <<>>]

Tell(e) == <<"TELL", e>>
WaitUntil(e) == <<"WAIT", e>>
Work == <<"WORK">>
ThrowSomething == <<"THROW">>
CrashNow == <<"CRASH">>

Program(ofBoss, ofPainter, ofCounter) ==
  [e \in {boss, painter, counter} |->
     IF e = boss THEN ofBoss ELSE IF e = painter THEN ofPainter ELSE ofCounter]

\* Like examples/smiley.pt: one after the other.
Smiley ==
  Program(<<Tell(counter), WaitUntil(counter), Tell(painter), WaitUntil(painter)>>,
          <<Work>>, <<Work>>)

\* Both at the same time.
Together ==
  Program(<<Tell(counter), Tell(painter), WaitUntil(painter), WaitUntil(counter)>>,
          <<Work>>, <<Work>>)

\* One employee, several times.
Twice ==
  Program(<<Tell(counter), WaitUntil(counter), Tell(counter), WaitUntil(counter)>>,
          <<>>, <<>>)

\* Called again while he may be at work: call() throws.
Impatient == Program(<<Tell(counter), Tell(counter)>>, <<>>, <<Work>>)

\* Goes home without waiting for the one he called first.
GoesHome == Program(<<Tell(counter), Tell(painter), WaitUntil(painter)>>, <<>>, <<Work>>)

\* An employee throws or ends while his boss waits.
Failing ==
  {Program(<<Tell(counter), WaitUntil(counter)>>, <<>>, <<bad>>) :
     bad \in {ThrowSomething, CrashNow}}

MCPrograms == {Smiley, Together, Twice, Impatient, GoesHome} \cup Failing

\* What the proof of NoCallIsLost takes for granted.
ASSUME ToldByOwnBoss == OwnStaff
=============================================================================
