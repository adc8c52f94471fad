--------------------------- MODULE SubsystemErrors ---------------------------
(***************************************************************************)
(* The node's subsystem error types (subsystem-types/src/errors.rs) and    *)
(* the availability-recovery error that wraps them (availability-recovery *)
(* /src/error.rs): the values the code can build, what each Display impl   *)
(* writes, and what each source() returns.  thiserror's                    *)
(* #[error(transparent)] forwards both Display and source() to the field;  *)
(* a #[from] or #[source] field is the source; an #[error("...")] variant  *)
(* writes its text.  Errors of other crates (oneshot::Canceled, io::Error, *)
(* the Prometheus, Jaeger, overseer, erasure-coding and subsystem-util     *)
(* errors) are leaves that write a text and have no source.               *)
(*                                                                         *)
(* A message is written by a chain of Display::fmt calls, each a stack     *)
(* frame; a chain longer than MaxFrames overflows the thread's stack.      *)
(***************************************************************************)
EXTENDS Naturals, Sequences, SequencesExt

CONSTANTS Strings,    \* messages and origins a caller supplies
          MaxNesting, \* wrappers around a leaf error in a probe
          MaxFrames   \* nested Display::fmt calls the stack holds

VARIABLE probe

(* The write of a message that overflowed the stack. *)
StackOverflow == "stack_overflow"
NoSource == [type |-> "none"]

(* Errors of other crates that the enums wrap.  std::convert::Infallible   *)
(* has no values, so SubsystemError::Infallible is never built.            *)
ExternalErrors ==
    [type : {"external"},
     name : {"Canceled", "SendError", "io", "Prometheus", "Jaeger", "Overseer",
             "Erasure", "Util"}]

(* RuntimeApiError(String) and ChainApiError { msg }, from a String or a   *)
(* &str: Display writes the message; the default source() is None.        *)
RuntimeApiErrors == [type : {"RuntimeApiError"}, msg : Strings]
ChainApiErrors == [type : {"ChainApiError"}, msg : Strings]

(* RecoveryError::Invalid and ::Unavailable. *)
RecoveryErrors == [type : {"RecoveryError"}, variant : {"Invalid", "Unavailable"}]

(* The SubsystemError variants that need no other error of this module:   *)
(* the transparent wrappers of external errors, Context and              *)
(* SubsystemStalled.                                                      *)
SubsystemLeaves ==
    [type : {"SubsystemError"}, variant : {"transparent"},
     inner : {e \in ExternalErrors : e.name \in {"Canceled", "SendError", "io",
                                                  "Prometheus", "Jaeger", "Overseer"}}]
    \cup [type : {"SubsystemError"}, variant : {"Context", "SubsystemStalled"}, msg : Strings]

(* SubsystemError::with_origin(origin, err): FromOrigin { origin,          *)
(* source: Box::new(err) } for any err that is a std::error::Error.        *)
WithOrigin(origin, err) ==
    [type |-> "SubsystemError", variant |-> "FromOrigin", origin |-> origin, source |-> err]

(* availability-recovery Error: Subsystem and Runtime wrap this module's  *)
(* errors transparently; Erasure and Util wrap external ones; the          *)
(* Canceled* variants carry a oneshot::Canceled source.                    *)
AvailabilityLeaves ==
    [type : {"AvailabilityError"}, variant : {"transparent"},
     inner : {e \in ExternalErrors : e.name \in {"Erasure", "Util"}}]
    \cup [type : {"AvailabilityError"},
          variant : {"CanceledQueryFullData", "CanceledSessionInfo"},
          source : {[type |-> "external", name |-> "Canceled"]}]
    \cup [type : {"AvailabilityError"}, variant : {"CanceledResponseSender"}]

AvailabilityWrap(err) == [type |-> "AvailabilityError", variant |-> "transparent", inner |-> err]

(* The errors the code can build with at most n wrappers. *)
RECURSIVE Errors(_)
Errors(n) ==
    IF n = 0
    THEN RuntimeApiErrors \cup ChainApiErrors \cup RecoveryErrors \cup SubsystemLeaves
         \cup AvailabilityLeaves
    ELSE LET E == Errors(n - 1)
         IN E \cup {WithOrigin(o, e) : o \in Strings, e \in E}
              \cup {AvailabilityWrap(e) : e \in {x \in E : x.type \in {"SubsystemError",
                                                                        "RuntimeApiError"}}}

(* ---------------------------------------------------------------------- *)
(* One Display::fmt call: it writes a text, or makes one further call.    *)

Text(t) == [kind |-> "text", text |-> t]
Call(e) == [kind |-> "call", of |-> e]

(* Display for RecoveryError: write!(f, "{}", self), which formats self. *)
DisplayRecoveryError(e) == Call(e)

(* Display of the other error types of errors.rs. *)
DisplaySubsystemTypes(e) ==
    CASE e.type \in {"RuntimeApiError", "ChainApiError"} -> Text(<<e.msg>>)
      [] e.variant = "transparent" -> Call(e.inner)
      [] e.variant = "Context" -> Text(<<"Failed to ", e.msg>>)
      [] e.variant = "SubsystemStalled" -> Text(<<"Subsystem stalled: ", e.msg>>)
      [] e.variant = "FromOrigin" -> Text(<<"Error originated in ", e.origin>>)

(* Display of availability-recovery's Error. *)
DisplayAvailabilityError(e) ==
    CASE e.variant = "transparent" -> Call(e.inner)
      [] e.variant = "CanceledQueryFullData" -> Text(<<"failed to query full data from store">>)
      [] e.variant = "CanceledSessionInfo" -> Text(<<"failed to query session info">>)
      [] e.variant = "CanceledResponseSender" -> Text(<<"failed to send response">>)

Display(e) ==
    CASE e.type = "external" -> Text(<<e.name>>)
      [] e.type = "RecoveryError" -> DisplayRecoveryError(e)
      [] e.type = "AvailabilityError" -> DisplayAvailabilityError(e)
      [] OTHER -> DisplaySubsystemTypes(e)

(* Error::source: transparent variants forward to the field's source;     *)
(* #[from], #[source] and FromOrigin's boxed error are the source; the    *)
(* types with a hand-written impl keep the default None.                   *)
RECURSIVE Source(_)
Source(e) ==
    CASE e.type \in {"SubsystemError", "AvailabilityError"} /\ e.variant = "transparent"
             -> Source(e.inner)
      [] "source" \in DOMAIN e -> e.source
      [] OTHER -> NoSource

(* The text a format of e writes, or StackOverflow once the nested        *)
(* Display::fmt calls exceed the frames left.                              *)
RECURSIVE Render(_, _)
Render(e, frames) ==
    IF frames = 0 THEN StackOverflow
    ELSE LET d == Display(e)
         IN IF d.kind = "text" THEN d.text ELSE Render(d.of, frames - 1)

(* The report of an error: its message, then those of its source chain.   *)
RECURSIVE Report(_)
Report(e) ==
    IF e = NoSource THEN <<>>
    ELSE <<Render(e, MaxFrames)>> \o Report(Source(e))

(* ---------------------------------------------------------------------- *)

Probes == Errors(MaxNesting)

Init == probe \in Probes

(* Each probe is examined once; the specification then stays put. *)
Examine == UNCHANGED probe

Spec == Init /\ [][Examine]_probe

(* Reporting an error the node can build (its Display and that of each     *)
(* error in its source() chain, as a log line or a wrapping error does)    *)
(* writes a message within the stack: no Display impl of these types       *)
(* formats itself.                                                        *)
ReportTerminates == \A i \in 1..Len(Report(probe)) : Report(probe)[i] # StackOverflow
=============================================================================
