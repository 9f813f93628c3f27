----------------------------- MODULE CallMethods -----------------------------
(***************************************************************************)
(* The methods of CallManagerClient and what each layer does with them:    *)
(* the client hands them to the proxy, the proxy forwards a few to the     *)
(* service on the main loop and turns the others down, the service checks  *)
(* its caller's permissions and refuses the options it does not support.   *)
(*                                                                         *)
(* A method is its name; the overloads without parameters end in "()".     *)
(* The methods under SUPPORT_RTT_CALL are not built, and of the transfer   *)
(* controller the branch without CALL_MANAGER_CALL_TRANSFER is.            *)
(***************************************************************************)
EXTENDS FiniteSets

-----------------------------------------------------------------------------
(***************************************************************************)
(* The client, in the order of its file.                                   *)
(***************************************************************************)
Registration ==
    {"RegisterCallBack", "UnRegisterCallBack", "ObserverOnCallDetailsChange"}
Dialling == {"DialCall", "MakeCall", "MakeCallWithToken"}
CallControl ==
    {"AnswerCall", "RejectCall", "HangUpCall", "GetCallState",
     "RegisterVoipCallManagerCallback", "UnRegisterVoipCallManagerCallback",
     "HoldCall", "UnHoldCall", "SwitchCall"}
Conferences ==
    {"CombineConference", "SeparateConference", "KickOutFromConference",
     "GetMainCallId", "GetSubCallIdList", "GetCallIdListForConference"}
Supplementary ==
    {"GetCallWaiting", "SetCallWaiting", "GetCallRestriction",
     "SetCallRestriction", "SetCallRestrictionPassword",
     "GetCallTransferInfo", "SetCallTransferInfo", "CanSetCallTransferTime",
     "SetCallPreferenceMode"}
DuringCall == {"StartDtmf", "StopDtmf", "PostDialProceed"}
Queries ==
    {"IsRinging", "HasCall", "IsNewCallAllowed", "IsInEmergencyCall",
     "IsEmergencyPhoneNumber"}
Formatting == {"FormatPhoneNumber", "FormatPhoneNumberToE164"}
Sound == {"SetMuted", "MuteRinger", "SetAudioDevice"}
Video ==
    {"ControlCamera", "SetPreviewWindow", "SetDisplayWindow",
     "SetCameraZoom", "SetPausePicture", "SetDeviceDirection"}
Ims ==
    {"GetImsConfig", "SetImsConfig", "GetImsFeatureValue",
     "SetImsFeatureValue", "UpdateImsCallMode", "EnableImsSwitch",
     "DisableImsSwitch", "IsImsSwitchEnabled", "SetVoNRState",
     "GetVoNRState"}
Reports ==
    {"JoinConference", "ReportOttCallDetailsInfo", "ReportOttCallEventInfo",
     "CloseUnFinishedUssd", "InputDialerSpecialCode",
     "RemoveMissedIncomingCallNotification"}
Voip ==
    {"SetVoIPCallState", "SetVoIPCallInfo", "GetVoIPCallInfo",
     "GetVoIPCallState"}
Devices ==
    {"SetRegMmiCodeCallbackState", "ReportAudioDeviceInfo",
     "CancelCallUpgrade", "RequestCameraCapabilities", "PreloadCallUi",
     "SendCallUiEvent"}
Pointers ==
    {"RegisterBluetoothCallManagerCallbackPtr",
     "RegisterTwoPhoneCallManagerCallbackPtr"}
Policies ==
    {"SendUssdResponse", "SetCallPolicyInfo", "EndCall",
     "NotifyVoIPAudioStreamStart"}
Bare ==
    {"SetCallAudioMode", "AnswerCall()", "RejectCall()", "RejectCall(type)",
     "HangUpCall()", "GetCallTransferInfo(number)"}
Recording == {"CheckCallRecordingPermission"}
Transfers ==
    {"RegisterTransferController", "UnRegisterTransferController",
     "NotifyTransferCallContact"}

\* The methods that test g_callManagerProxy and call the proxy.
Proxied ==
    Registration \cup Dialling \cup CallControl \cup Conferences
        \cup Supplementary \cup DuringCall \cup Queries \cup Formatting
        \cup Sound \cup Video \cup Ims \cup Reports \cup Voip \cup Devices
        \cup Pointers \cup Policies \cup Bare \cup Recording

\* Those the client answers by itself: the product's voice capability and
\* the transfer controller that is not built.
Answered == {"HasVoiceCapability"} \cup Transfers
LocalReplies(m) == IF m \in Transfers THEN {"UNINIT"} ELSE {"true", "false"}

Methods == Proxied \cup Answered
Booleans ==
    {"HasCall", "EndCall", "CheckCallRecordingPermission",
     "HasVoiceCapability"}

\* How a failure reads in the type a method returns.
Failure(m, code) ==
    IF m \in Pointers THEN "null" ELSE IF m \in Booleans THEN "false"
    ELSE code

-----------------------------------------------------------------------------
(***************************************************************************)
(* The proxy.                                                              *)
(***************************************************************************)
ForwardedCallBack == {"RegisterCallBack", "UnRegisterCallBack"}
ForwardedControl ==
    {"ObserverOnCallDetailsChange", "DialCall", "AnswerCall", "RejectCall",
     "HangUpCall", "GetCallState", "HoldCall", "UnHoldCall", "SwitchCall"}
ForwardedQueries ==
    {"IsRinging", "HasCall", "IsNewCallAllowed", "IsEmergencyPhoneNumber"}
ForwardedEnd == {"EndCall"}
ForwardedBare == {"AnswerCall()", "RejectCall()", "HangUpCall()"}
Forwarded ==
    ForwardedCallBack \cup ForwardedControl \cup ForwardedQueries
        \cup ForwardedEnd \cup ForwardedBare

RefusedDialling == Dialling \ {"DialCall"}
RefusedFeatures == Conferences \cup Supplementary \cup DuringCall
RefusedQueries ==
    {"RegisterVoipCallManagerCallback", "UnRegisterVoipCallManagerCallback",
     "IsInEmergencyCall"}
RefusedMedia == Formatting \cup Sound \cup Video \cup Ims
RefusedReports == Reports \cup Voip \cup Devices
RefusedPointers == Pointers
RefusedPolicies == {"SendUssdResponse", "SetCallPolicyInfo"}
RefusedAudio ==
    {"NotifyVoIPAudioStreamStart", "CheckCallRecordingPermission",
     "SetCallAudioMode"}
RefusedReject == {"RejectCall(type)"}
RefusedTransfer == {"GetCallTransferInfo(number)"}
Refused ==
    RefusedDialling \cup RefusedFeatures \cup RefusedQueries
        \cup RefusedMedia \cup RefusedReports \cup RefusedPointers
        \cup RefusedPolicies \cup RefusedAudio \cup RefusedReject
        \cup RefusedTransfer

NotSupported(m) == Failure(m, "FUNCTION_NOT_SUPPORTED")
ServiceNotReady(m) == Failure(m, "UNINIT")

-----------------------------------------------------------------------------
(***************************************************************************)
(* The service: who may call each entry.  "anyOf" is the set of            *)
(* permissions of which the caller needs one, none at all if it is empty.  *)
(***************************************************************************)
Permissions ==
    {"SET_TELEPHONY_STATE", "GET_TELEPHONY_STATE", "GET_CALL_TRANSFER_INFO",
     "PLACE_CALL", "ANSWER_CALL", "MANAGE_CALL_FOR_DEVICES",
     "SEND_MESSAGES"}
Check(method, system, anyOf) ==
    [method |-> method, system |-> system, anyOf |-> anyOf]

RegistrationChecks ==
    {Check("RegisterCallBack", FALSE,
           {"SET_TELEPHONY_STATE", "GET_TELEPHONY_STATE",
            "GET_CALL_TRANSFER_INFO"}),
     Check("UnRegisterCallBack", TRUE, {"SET_TELEPHONY_STATE"}),
     Check("ObserverOnCallDetailsChange", TRUE,
           {"SET_TELEPHONY_STATE", "GET_TELEPHONY_STATE"})}
ControlChecks ==
    {Check("DialCall", TRUE, {"PLACE_CALL"}),
     Check("AnswerCall", TRUE, {"ANSWER_CALL"}),
     Check("RejectCall", TRUE, {"ANSWER_CALL", "SET_TELEPHONY_STATE"}),
     Check("HangUpCall", TRUE, {"ANSWER_CALL", "SET_TELEPHONY_STATE"}),
     Check("GetCallState", FALSE, {})}
HoldChecks ==
    {Check(m, TRUE, {"ANSWER_CALL"}) :
        m \in {"HoldCall", "UnHoldCall", "SwitchCall"}}
QueryChecks ==
    {Check("HasCall", FALSE, {}),
     Check("IsNewCallAllowed", TRUE, {}),
     Check("IsRinging", TRUE, {"SET_TELEPHONY_STATE"}),
     Check("IsEmergencyPhoneNumber", FALSE, {})}
\* Mutant: EndCall is checked like HangUpCall().
BareChecksMutant ==
    {Check("EndCall", FALSE, {"ANSWER_CALL", "SET_TELEPHONY_STATE"}),
     Check("AnswerCall()", FALSE,
           {"ANSWER_CALL", "MANAGE_CALL_FOR_DEVICES"})}
        \cup {Check(m, FALSE, {"ANSWER_CALL", "SET_TELEPHONY_STATE",
                               "MANAGE_CALL_FOR_DEVICES"}) :
                 m \in {"RejectCall()", "HangUpCall()"}}

BareChecks ==
    {Check("EndCall", TRUE, {"ANSWER_CALL", "SET_TELEPHONY_STATE"}),
     Check("AnswerCall()", FALSE,
           {"ANSWER_CALL", "MANAGE_CALL_FOR_DEVICES"})}
        \cup {Check(m, FALSE, {"ANSWER_CALL", "SET_TELEPHONY_STATE",
                               "MANAGE_CALL_FOR_DEVICES"}) :
                 m \in {"RejectCall()", "HangUpCall()"}}

CheckOf(m) ==
    CHOOSE check \in RegistrationChecks \cup ControlChecks \cup HoldChecks
                         \cup QueryChecks \cup BareChecks :
        check.method = m

\* CallPermissionAdapter: a caller is what the build's trust model says.
CheckPermission(trust, permission) == permission \in trust.granted
IsSystemCaller(trust) == trust.system

\* The forms of an argument that a layer looks at.
Arguments(m) ==
    CASE m = "RegisterCallBack" -> {"plain", "null"}
      [] m = "DialCall" -> {"plain", "long"}
      [] m = "AnswerCall" -> {"plain", "video", "rtt"}
      [] m = "RejectCall" -> {"plain", "message"}
      [] OTHER -> {"plain"}

\* The options an entry refuses once the caller may use it.
RefuseOption(m, arg) ==
    CASE m = "AnswerCall" /\ arg = "video" -> "VIDEO_NOT_SUPPORTED"
      [] m = "AnswerCall" /\ arg = "rtt" -> "FUNCTION_NOT_SUPPORTED"
      [] m = "RejectCall" /\ arg = "message" -> "FUNCTION_NOT_SUPPORTED"
      [] OTHER -> "pass"

\* What stands before the call control in an entry of the service: the
\* length of a number before the caller, the caller before the options.
Verdict(trust, m, arg) ==
    LET check == CheckOf(m)
    IN  CASE m = "DialCall" /\ arg = "long" -> "NUMBER_OUT_OF_RANGE"
          [] check.system /\ ~IsSystemCaller(trust) ->
                "ILLEGAL_USE_OF_SYSTEM_API"
          [] \/ /\ check.anyOf # {}
                /\ \A p \in check.anyOf : ~CheckPermission(trust, p)
             \/ /\ m = "RejectCall" /\ arg = "message"
                /\ ~CheckPermission(trust, "SEND_MESSAGES") ->
                "PERMISSION_ERR"
          [] OTHER -> RefuseOption(m, arg)

Successes == {"SUCCESS", "true"}
Replies ==
    Successes \cup
    {"none", "refused", "false", "null", "UNINIT", "FUNCTION_NOT_SUPPORTED",
     "LOCAL_PTR_NULL", "REGISTER_CALLBACK_FAIL", "UNREGISTER_CALLBACK_FAIL",
     "NUMBER_OUT_OF_RANGE", "ILLEGAL_USE_OF_SYSTEM_API", "PERMISSION_ERR",
     "VIDEO_NOT_SUPPORTED", "IPC_CONNECT_STUB_FAIL", "call error"}
=============================================================================
