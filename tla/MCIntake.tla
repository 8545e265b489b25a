------------------------------- MODULE MCIntake -------------------------------
(***************************************************************************)
(* Small instances of Intake.                                               *)
(***************************************************************************)
EXTENDS IntakeProps

CONSTANTS f1, f2, mail1, mail2, mail3, text1, w1

\* Submissions alone up to four, with another channel beside them up to three; and
\* what fails, beside fewer of them.
Mix(open, room, fails) == [open |-> open, room |-> room, fails |-> fails]
WebAndCalls == {Mix({"submit"}, 4, {}), Mix({"submit", "mail"}, 3, {}),
                Mix({"submit", "call"}, 2, {"limit"}), Mix({"submit", "split"}, 3, {"counter"}),
                Mix({"register", "call"}, 3, {"expiry"}), Mix({"whatsapp"}, 1, {}),
                Mix({"submit"}, 2, {"seed", "expiry"})}
MailOnly     == {Mix({"mail"}, 2, {})}

\* A Thursday morning within a minute, and a Friday shortly before and shortly
\* after a day has passed: the weekend and a holiday on the Sunday lie before the
\* deadline.
WeekMoments == {At(2, 1201), At(3, 1080), At(3, 1260)}
=============================================================================
