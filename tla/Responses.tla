------------------------------ MODULE Responses ------------------------------
(***************************************************************************)
(* What the library makes of a packet it receives                          *)
(* (lib/protocol/dbgp-client.go and the Response types of lib/dbgpxml).    *)
(* A document is told apart by its root element, by the command a          *)
(* <response> answers, by its success attribute and by whether it has an   *)
(* <error>; of how it is displayed only that matters.                      *)
(***************************************************************************)

\* The root elements FormatXML tries, one parser after the other.
Roots == {"response", "ctrl-response", "init", "notify", "stream",
          "proxyinit", "proxystop", "cloudinit", "cloudstop"}

\* "other" is XML that no parser accepts, "text" is not XML at all.
Document == [root : Roots \cup {"other", "text"},
             command : {"none", "run", "source", "break", "detach", "stop"},
             success : BOOLEAN,
             error : BOOLEAN]

IsValidXml(d) == d.root # "text"

\* FormatXML returns a Response rather than nil.
Interpreted(d) == d.root \in Roots

-----------------------------------------------------------------------------
(***************************************************************************)
(* The types of lib/dbgpxml, each by what its methods return: IsSuccess,   *)
(* ExpectMoreResponses, ShouldCloseConnection, and what String shows, the  *)
(* document, its error, or, since fmt recovers from it, the trace of a     *)
(* dereference of an error that is not there.                              *)
(***************************************************************************)
Methods(success, more, closes, shows) ==
  [success |-> success, more |-> more, closes |-> closes, shows |-> shows]

\* Only a <response> looks at the command it answers.
ResponseXML(d) ==
  Methods(d.success \/ d.command = "detach",
          d.command = "break",
          d.command \in {"detach", "stop"},
          IF d.error THEN "error" ELSE "document")

CtrlResponseXML(d) ==
  Methods(TRUE, FALSE, FALSE, IF d.error THEN "error" ELSE "document")

InitXML == Methods(TRUE, FALSE, FALSE, "document")

NotifyXML == Methods(TRUE, TRUE, FALSE, "document")

\* Variant of StreamXML for which output is a reply.
StreamAsReply == Methods(TRUE, FALSE, FALSE, "document")

StreamXML == Methods(TRUE, TRUE, FALSE, "document")

\* The String of a proxyinit, a proxystop, a cloudinit or a cloudstop: one that
\* failed is expected to say why.
ShowsVerdict(d) ==
  IF d.success THEN "document" ELSE IF d.error THEN "error" ELSE "garbled"

ProxyInitXML(d) == Methods(d.success, FALSE, FALSE, ShowsVerdict(d))

ProxyStopXML(d) == Methods(d.success, FALSE, FALSE, ShowsVerdict(d))

\* The replies of the proxy.
NewProxyInit(success, error) ==
  [root |-> "proxyinit", command |-> "none", success |-> success, error |-> error]

NewProxyStop(success, error) ==
  [root |-> "proxystop", command |-> "none", success |-> success, error |-> error]

\* Even a cloudinit that failed is followed by more.
CloudInitXML(d) == Methods(d.success, TRUE, FALSE, ShowsVerdict(d))

CloudStopXML(d) == Methods(d.success, FALSE, TRUE, ShowsVerdict(d))

\* The type FormatXML returns for a document it can interpret.
FormatXML(d) ==
  IF d.root = "response" THEN ResponseXML(d)
  ELSE IF d.root = "ctrl-response" THEN CtrlResponseXML(d)
  ELSE IF d.root = "init" THEN InitXML
  ELSE IF d.root = "notify" THEN NotifyXML
  ELSE IF d.root = "stream" THEN StreamXML
  ELSE IF d.root = "proxyinit" THEN ProxyInitXML(d)
  ELSE IF d.root = "proxystop" THEN ProxyStopXML(d)
  ELSE IF d.root = "cloudinit" THEN CloudInitXML(d)
  ELSE CloudStopXML(d)

-----------------------------------------------------------------------------
(***************************************************************************)
(* What RunCommand returns for the packet it takes for the reply: "nil",   *)
(* "error", or "panic", because it asks a nil Response whether it is a     *)
(* success before it asks whether it is nil.                               *)
(***************************************************************************)
RunCommandResult(d) ==
  IF ~ IsValidXml(d) THEN "error"
  ELSE IF ~ Interpreted(d) THEN "panic"
  ELSE IF FormatXML(d).success THEN "nil" ELSE "error"

\* RunAndQuit complains about a reply it cannot read, but returns no error.
RunAndQuitResult(d) ==
  IF Interpreted(d) /\ ~ FormatXML(d).success THEN "error" ELSE "nil"

=============================================================================
