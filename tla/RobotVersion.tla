---------------------------- MODULE RobotVersion ----------------------------
(***************************************************************************)
(* robot_version.cpp: the robot's version, read from its text, and the     *)
(* order of versions.  A text is a sequence of characters: 0 .. 9 are the  *)
(* digits, Dot the dot and Letter whatever else a version of a developer   *)
(* may hold.                                                               *)
(***************************************************************************)
EXTENDS Integers, Sequences, SequencesExt

Dot == 10
Letter == 11

\* String::indexOf from a position on; 0 when there is none.
IndexFrom(text, from) ==
  LET at == {i \in from .. Len(text) : text[i] = Dot}
  IN  IF at = {} THEN 0 ELSE CHOOSE i \in at : \A j \in at : i <= j

\* String::toInt of a substring of digits.
ToInt(text, first, last) == FoldLeft(LAMBDA n, c : 10 * n + c, 0, SubSeq(text, first, last))

Invalid == <<-1, -1, -1>>

\* Three numbers between two dots; everything else is the version of a developer.
ParseRobotVersion(text) ==
  LET dot1 == IndexFrom(text, 1)
      dot2 == IndexFrom(text, dot1 + 1)
  IN  IF \/ dot1 = 0 \/ dot2 = 0
         \/ \E i \in DOMAIN text \ {dot1, dot2} : text[i] \notin 0 .. 9
         \/ dot1 = 1 \/ dot2 = dot1 + 1 \/ dot2 = Len(text)
      THEN Invalid
      ELSE <<ToInt(text, 1, dot1 - 1), ToInt(text, dot1 + 1, dot2 - 1),
             ToInt(text, dot2 + 1, Len(text))>>

IsReleaseVersion(v) == \A i \in 1 .. 3 : v[i] # -1

\* operator<: releases by their numbers, below the versions of developers, which are all alike.
Less(v, w) ==
  IF IsReleaseVersion(v) # IsReleaseVersion(w) THEN IsReleaseVersion(v)
  ELSE /\ IsReleaseVersion(v)
       /\ \E i \in 1 .. 3 : v[i] < w[i] /\ \A j \in 1 .. i - 1 : v[j] = w[j]

AtLeast(v, w) == ~Less(v, w)

\* <<text, v>>: the robot whose version has this text is not older than v.
NotOlder(texts, versions) ==
  UNION {{<<t, v>> : v \in {v \in versions : AtLeast(ParseRobotVersion(t), v)}} : t \in texts}
=============================================================================
