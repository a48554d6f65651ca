---------------------------- MODULE Annotation ----------------------------
(***************************************************************************)
(* tester1/annotation.go: what the tests write on the time line of a run.  *)
(* The tester remembers which servers it was told are cut off or down, and *)
(* keeps one failure annotation open while there is a fault to show.  At   *)
(* the end of a test the annotations go to a visualisation, once: either   *)
(* CheckPorcupine writes it, with the clients' operations, or cleanup.     *)
(*                                                                         *)
(* Annotations that are points, or that are over, are not told apart: the  *)
(* model only knows whether there are any.                                 *)
(*                                                                         *)
(* An operator Op_fault is Op with a plausible mistake in it.  No          *)
(* specification uses it; put in the place of Op, it violates a property.  *)
(***************************************************************************)
EXTENDS Naturals, Sequences

CONSTANT Servers    \* the servers of the group under test

VARIABLES finfo,      \* the servers known as connected and as crashed
          annotation, \* the open failure annotation, whether there are others, and whether they are final
          enabled,    \* the environment variable VIS_ENABLE
          files,      \* the visualisations opened, in order, and what they hold; VIS_FILE may give all one name
          ioError     \* a visualisation could not be opened or written

annotationVars == <<finfo, annotation, enabled, files, ioError>>

NoFault == [kind |-> "none", p1 |-> {}, p2 |-> {}]

\* annotateFault shows the servers that are cut off and those that crashed, and
\* AnnotateTwoPartitions two parts.
Fault == [kind : {"none", "flags", "two"}, p1 : SUBSET Servers, p2 : SUBSET Servers]

AnnotationTypeOK ==
    /\ finfo \in [connected : SUBSET Servers, crashed : SUBSET Servers]
    /\ annotation \in [fault : Fault, noted : BOOLEAN, finalized : BOOLEAN]
    /\ enabled \in {"", "always", "never"}
    /\ files \in Seq({"operations", "plain", "empty"})
    /\ ioError \in BOOLEAN

\* AnnotateTest: mkFrameworkInfo, clear, and a first point with the test's name.
AnnotationInit ==
    /\ finfo = [connected |-> Servers, crashed |-> {}]
    /\ annotation = [fault |-> NoFault, noted |-> TRUE, finalized |-> FALSE]
    /\ enabled \in {"", "always", "never"}
    /\ files = <<>>
    /\ ioError = FALSE

clear == [fault |-> NoFault, noted |-> FALSE, finalized |-> FALSE]

\* The annotation that was open, if any, is over.
annotateContinuousColor(an, text) ==
    [an EXCEPT !.fault = text, !.noted = @ \/ an.fault # NoFault]

\* An interval is added even if nothing was open.
annotateContinuousEnd(an) == [an EXCEPT !.fault = NoFault, !.noted = TRUE]

annotateFault_NoCrashes(an, info) ==
    IF info.connected = Servers
    THEN annotateContinuousEnd(an)
    ELSE annotateContinuousColor(an, [kind |-> "flags",
                                      p1 |-> Servers \ (info.connected \cup info.crashed), p2 |-> info.crashed])

annotateFault(an, info) ==
    IF info.connected = Servers /\ info.crashed = {}
    THEN annotateContinuousEnd(an)
    ELSE annotateContinuousColor(an, [kind |-> "flags",
                                      p1 |-> Servers \ (info.connected \cup info.crashed), p2 |-> info.crashed])

\* What the tester is told changes; nothing is annotated if it knew already.
Learn(info) ==
    /\ finfo' = info
    /\ annotation' = IF info = finfo THEN annotation ELSE annotateFault(annotation, info)
    /\ UNCHANGED <<enabled, files, ioError>>

AnnotateConnection(connection) == Learn([finfo EXCEPT !.connected = connection])

AnnotateShutdown(servers) == Learn([finfo EXCEPT !.crashed = @ \cup servers])

AnnotateRestart(servers) == Learn([finfo EXCEPT !.crashed = @ \ servers])

AnnotateTwoPartitions(p1, p2) ==
    /\ annotation' = annotateContinuousColor(annotation, [kind |-> "two", p1 |-> p1, p2 |-> p2])
    /\ UNCHANGED <<finfo, enabled, files, ioError>>

AnnotateClearFailure ==
    /\ finfo' = [connected |-> Servers, crashed |-> {}]
    /\ annotation' = annotateContinuousEnd(annotation)
    /\ UNCHANGED <<enabled, files, ioError>>

SetAnnotationFinalized(an) == [an EXCEPT !.finalized = TRUE]

\* What is open stays open, and is drawn up to now.
finalize(an) == [an EXCEPT !.finalized = TRUE]

\* What becomes of a visualisation: it is opened and written, or os.CreateTemp or
\* os.OpenFile fails, or Visualize does and leaves the file as it was opened.
VisOutcome == {"written", "notOpened", "notWritten"}

\* A visualisation of content comes out as outcome says.
Visualize(content, outcome) ==
    /\ files' = IF outcome = "notOpened" THEN files
                ELSE Append(files, IF outcome = "written" THEN content ELSE "empty")
    /\ ioError' = (ioError \/ outcome # "written")

NoVisualization == UNCHANGED <<files, ioError>>

CheckPorcupine_AnyIteration(last, verdict, outcome) ==
    LET an == IF last THEN SetAnnotationFinalized(annotation) ELSE annotation
        open == verdict = "Illegal" \/ enabled = "always"
        write == open /\ outcome # "notOpened" /\ enabled # "never"
    IN /\ annotation' = IF write THEN finalize(an) ELSE an
       /\ IF open THEN Visualize(IF write THEN "operations" ELSE "empty", outcome) ELSE NoVisualization
       /\ UNCHANGED <<finfo, enabled>>

\* SetAnnotationFinalized before the last check of the test, then CheckPorcupine.
\* If the history is not linearizable the file is opened, and only then is
\* VIS_ENABLE looked at: with "never" it stays empty.  If this is the last check
\* and everything is to be visualised, a file is written as well.  A file that
\* cannot be opened leaves the annotations as they are, without FinalizeAnnotations.
CheckPorcupine(last, verdict, outcome) ==
    LET an == IF last THEN SetAnnotationFinalized(annotation) ELSE annotation
        open == verdict = "Illegal" \/ (enabled = "always" /\ an.finalized)
        write == open /\ outcome # "notOpened" /\ enabled # "never"
    IN /\ annotation' = IF write THEN finalize(an) ELSE an
       /\ IF open THEN Visualize(IF write THEN "operations" ELSE "empty", outcome) ELSE NoVisualization
       /\ UNCHANGED <<finfo, enabled>>

\* cleanup: clear, or finalize and write what there is.
cleanup(failed, outcome) ==
    /\ IF \/ enabled = "never"
          \/ ~failed /\ enabled # "always"
          \/ annotation.finalized
       THEN annotation' = clear /\ NoVisualization
       ELSE /\ annotation' = finalize(annotation)
            /\ IF annotation.noted \/ annotation.fault # NoFault
               THEN Visualize("plain", outcome) ELSE NoVisualization
    /\ UNCHANGED <<finfo, enabled>>

=============================================================================
