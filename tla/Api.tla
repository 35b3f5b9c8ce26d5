--------------------------------- MODULE Api ---------------------------------
(***************************************************************************)
(* The public HTTP API of internal/api on top of the OAuth server: what a  *)
(* linked Google account may do until when.  An access token lets Google   *)
(* send intents: it is checked when a request begins, whose body may then  *)
(* take up to ReadTimeout to come.  EXECUTE picks a protocol and answers   *)
(* with a signed URL that is good for some time, and whoever has the URL   *)
(* may ask for the stream.  The exposure list is consulted when a URL is   *)
(* made and again when it is used.                                         *)
(*                                                                         *)
(* The signature covers the camera and the expiry and nothing else, so a   *)
(* URL is that pair; the key outlives a restart (stream_secret), and so do *)
(* the URLs.                                                               *)
(***************************************************************************)
EXTENDS OAuth

CONSTANTS Cameras,
          Intents,    (* intent requests that can be handled at a time     *)
          Viewers,    (* stream requests that can be served at a time      *)
          ReadTimeout, (* http.Server: from a request's start to the end   *)
                      (* of its body                                       *)
          SignalTTL,  (* the life of a URL of SignalingURL                 *)
          PlayTTL     (* ... of HLSURL and ProgressiveMP4URL               *)

ASSUME ApiAssumption ==
  /\ {ReadTimeout, SignalTTL, PlayTTL} \subseteq Nat
  /\ SignalTTL <= PlayTTL

VARIABLES
  exposed,  (* CameraSource.allowed                                        *)
  intent,   (* the intent requests past authMiddleware: since when         *)
  urls,     (* the signed pairs handed out                                 *)
  viewer    (* the stream requests: how far each is, for which camera,     *)
            (* when its URL was verified, and (history) whether the camera *)
            (* has been hidden ever since it arrived                       *)

apiVars == <<exposed, intent, urls, viewer>>
allVars == <<vars, apiVars>>

Nobody == [at |-> "idle"]

ApiInit ==
  /\ Init
  /\ exposed = Cameras
  /\ intent = [h \in Intents |-> Nobody]
  /\ urls = {}
  /\ viewer = [q \in Viewers |-> Nobody]

-----------------------------------------------------------------------------
(* /smarthome                                                              *)

Protocols == {"webrtc", "hls", "progressive_mp4"}

(* The protocols execute chooses from those the surface supports: webrtc   *)
(* only for a surface with nothing else, MP4 if nothing is said.           *)
Chosen(supported) ==
  IF supported = {"webrtc"} THEN {"webrtc"}
  ELSE IF "hls" \in supported THEN {"hls"}
  ELSE IF supported = {} \/ "progressive_mp4" \in supported
       THEN {"progressive_mp4"}
  ELSE {}

TTL(protocol) == IF protocol = "webrtc" THEN SignalTTL ELSE PlayTTL

(* authMiddleware lets the token pass.                                     *)
Authorize(h, t) ==
  /\ intent[h] = Nobody
  /\ Verify(t, "access")
  /\ intent' = [intent EXCEPT ![h] = [at |-> "reading", since |-> now]]
  /\ UNCHANGED <<vars, exposed, urls, viewer>>

(* Faulty variant: a server without ReadTimeout.                           *)
ExecuteUntimed(h, cam, supported) ==
  /\ intent[h] # Nobody
  /\ cam \in exposed
  /\ \E p \in Chosen(supported) :
       urls' = urls \cup {[cam |-> cam, exp |-> now + TTL(p)]}
  /\ UNCHANGED <<vars, exposed, intent, viewer>>

(* GetCameraStream, when the body has come: the camera is exposed, and its *)
(* URL is signed; a request may name several.  The error answers change    *)
(* nothing.                                                                *)
Execute(h, cam, supported) ==
  /\ intent[h] # Nobody
  /\ now <= intent[h].since + ReadTimeout
  /\ cam \in exposed
  /\ \E p \in Chosen(supported) :
       urls' = urls \cup {[cam |-> cam, exp |-> now + TTL(p)]}
  /\ UNCHANGED <<vars, exposed, intent, viewer>>

(* The request is answered, or the read of its body fails.                 *)
Answer(h) ==
  /\ intent[h] # Nobody
  /\ intent' = [intent EXCEPT ![h] = Nobody]
  /\ UNCHANGED <<vars, exposed, urls, viewer>>

-----------------------------------------------------------------------------
(* /webrtc/signal, /hls/ and /mp4/.                                        *)

(* Faulty variant: the expiry is signed and not compared.                  *)
VerifyURLUndated(u) == u \in urls

(* verifyToken                                                             *)
VerifyURL(u) == u \in urls /\ now <= u.exp

(* A request comes with a URL that verifies.                               *)
Arrive(q, u) ==
  /\ viewer[q] = Nobody
  /\ VerifyURL(u)
  /\ viewer' = [viewer EXCEPT ![q] =
       [at |-> "verified", cam |-> u.cam, since |-> now,
        hidden |-> u.cam \notin exposed]]
  /\ UNCHANGED <<vars, exposed, intent, urls>>

(* Faulty variant: having a URL is taken for being allowed.                *)
AdmitUnchecked(q) ==
  /\ viewer[q].at = "verified"
  /\ viewer' = [viewer EXCEPT ![q].at = "admitted"]
  /\ UNCHANGED <<vars, exposed, intent, urls>>

(* signalHandler's Allowed; RTSPURLOf, which the stream servers ask.       *)
Admit(q) ==
  /\ viewer[q].at = "verified"
  /\ viewer[q].cam \in exposed
  /\ viewer' = [viewer EXCEPT ![q].at = "admitted"]
  /\ UNCHANGED <<vars, exposed, intent, urls>>

(* Hidden, or not registered: 404.                                         *)
Unknown(q) ==
  /\ viewer[q].at = "verified"
  /\ viewer' = [viewer EXCEPT ![q] = Nobody]
  /\ UNCHANGED <<vars, exposed, intent, urls>>

(* The offer is read to its end and the session negotiated; the muxer      *)
(* serves.  Either takes time, and may fail.                               *)
Begin(q) ==
  /\ viewer[q].at = "admitted"
  /\ viewer' = [viewer EXCEPT ![q].at = "watching"]
  /\ UNCHANGED <<vars, exposed, intent, urls>>

Leave(q) ==
  /\ viewer[q].at \in {"admitted", "watching"}
  /\ viewer' = [viewer EXCEPT ![q] = Nobody]
  /\ UNCHANGED <<vars, exposed, intent, urls>>

-----------------------------------------------------------------------------
(* An edit of the exposure list.                                           *)
SetExposed(S) ==
  /\ S # exposed
  /\ exposed' = S
  /\ viewer' = [q \in Viewers |->
       IF viewer[q] # Nobody /\ viewer[q].cam \in S
       THEN [viewer[q] EXCEPT !.hidden = FALSE] ELSE viewer[q]]
  /\ UNCHANGED <<vars, intent, urls>>

(* With the process the requests end; the exposure list is an option.      *)
ApiRestart ==
  /\ Restart
  /\ intent' = [h \in Intents |-> Nobody]
  /\ viewer' = [q \in Viewers |-> Nobody]
  /\ UNCHANGED <<exposed, urls>>

ApiNext ==
  \/ Step /\ UNCHANGED apiVars
  \/ ApiRestart
  \/ \E h \in Intents :
       \/ \E t \in tokens : Authorize(h, t)
       \/ \E cam \in Cameras, supported \in SUBSET Protocols :
            Execute(h, cam, supported)
       \/ Answer(h)
  \/ \E S \in SUBSET Cameras : SetExposed(S)
  \/ \E q \in Viewers :
       \/ \E u \in urls : Arrive(q, u)
       \/ Admit(q) \/ Unknown(q) \/ Begin(q) \/ Leave(q)

ApiSpec == ApiInit /\ [][ApiNext]_allVars

-----------------------------------------------------------------------------
(* Types, those of the OAuth server included.                              *)
ApiTypeOK ==
  /\ TypeOK
  /\ exposed \in SUBSET Cameras
  /\ intent \in [Intents -> {Nobody} \cup [at : {"reading"}, since : Times]]
  /\ urls \subseteq [cam : Cameras, exp : Nat]
  /\ viewer \in [Viewers -> {Nobody} \cup
       [at : {"verified", "admitted", "watching"}, cam : Cameras,
        since : Times, hidden : BOOLEAN]]

(* Access ends with the refresh token it came from (AccessEndsWithRefresh),*)
(* and whoever watches, or is about to, asked at most ReadTimeout and      *)
(* PlayTTL after the end of an access token: neither chains of refreshes,  *)
(* nor requests that dawdle once their token has been checked, nor URLs    *)
(* that are passed on, nor restarts, which lose no URL, prolong it.        *)
ViewsFollowAccess ==
  /\ AccessEndsWithRefresh
  /\ \A q \in Viewers : viewer[q] # Nobody =>
       \E t \in tokens :
         t.kind = "access" /\ viewer[q].since <= t.exp + ReadTimeout + PlayTTL

(* A camera that is hidden when a request arrives and stays so is not      *)
(* streamed, though its URL was made while it was exposed: "a URL minted   *)
(* just before the user hid the camera cannot start a session".            *)
HiddenStartsNothing ==
  \A q \in Viewers : viewer[q].at = "watching" => ~viewer[q].hidden

=============================================================================
