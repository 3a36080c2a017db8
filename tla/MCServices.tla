------------------------------ MODULE MCServices ------------------------------
(* Components that share no state, each on its own: `subject` is the one whose *)
(* steps are explored, and the others rest in an initial state.                *)
EXTENDS ConnectionLeases, RemoteForwards, NetconfSession, DesktopSession, SshDial, SftpUpload,
        WorkspaceSave, TabTransfer, SessionHistory, PasswordVault, AutoTyping,
        ScriptRuns

VARIABLE subject

services == <<leaseVars, remoteVars, netconfVars, desktopVars, dialVars, uploadVars, saveVars,
              transferVars, historyVars, vaultVars, typingVars, scriptVars, subject>>

MCLadder == <<"none", "agent", "publickey", "security-key", "keyboard-interactive",
              "keyboard-interactive", "password">>

CONSTANTS colon, space   \* characters of the output

MCPrompt == <<colon, space>>
MCSequences ==
  {<<Wait(MCPrompt, FALSE, TRUE), Other("secret"), Wait(MCPrompt, FALSE, TRUE), Other("send")>>,
   <<Other("send"), Wait(MCPrompt, TRUE, TRUE), Other("secret")>>,
   <<Other("send"), Wait(MCPrompt, TRUE, FALSE)>>}

ServicesInit ==
  /\ subject \in {"leases", "remote forwards", "netconf", "desktop", "dial", "upload",
                  "workspace", "tab transfer", "history", "vault", "typing", "scripts"}
  /\ LeaseInit /\ RemoteInit /\ NetconfInit /\ DesktopInit /\ DialInit /\ UploadInit
  /\ SaveInit /\ TransferInit /\ HistoryInit /\ VaultInit /\ TypingInit /\ ScriptInit
  /\ subject = "desktop" \/ (desktop.kind = "rdp" /\ ~desktop.needsGateway)
  /\ subject = "dial" \/ ~ladder.saved
  /\ subject = "upload" \/ (~existed /\ ~server.posixRename /\ ~server.renameReplaces)
  /\ subject = "typing" \/ (steps = NoSteps /\ ~afterFirst)
  /\ tabIn[CHOOSE w \in Win : TRUE] = "live"   \* any other window is symmetric

ServicesNext ==
  /\ UNCHANGED subject
  /\ IF subject = "leases" THEN LeaseNext ELSE UNCHANGED leaseVars
  /\ IF subject = "remote forwards" THEN RemoteNext ELSE UNCHANGED remoteVars
  /\ IF subject = "netconf" THEN NetconfNext ELSE UNCHANGED netconfVars
  /\ IF subject = "desktop" THEN DesktopNext ELSE UNCHANGED desktopVars
  /\ IF subject = "dial" THEN DialNext ELSE UNCHANGED dialVars
  /\ IF subject = "upload" THEN UploadNext ELSE UNCHANGED uploadVars
  /\ IF subject = "workspace" THEN SaveNext ELSE UNCHANGED saveVars
  /\ IF subject = "tab transfer" THEN TransferNext ELSE UNCHANGED transferVars
  /\ IF subject = "history" THEN HistoryNext ELSE UNCHANGED historyVars
  /\ IF subject = "vault" THEN VaultNext ELSE UNCHANGED vaultVars
  /\ IF subject = "typing" THEN TypingNext ELSE UNCHANGED typingVars
  /\ IF subject = "scripts" THEN ScriptNext ELSE UNCHANGED scriptVars

ServicesSpec == ServicesInit /\ [][ServicesNext]_services

\* The type invariant of the subject; what rests is in an initial state.
ServicesTypeOK ==
  /\ subject = "leases" => LeaseTypeOK
  /\ subject = "netconf" => NetconfTypeOK
  /\ subject = "desktop" => DesktopTypeOK
  /\ subject = "dial" => DialTypeOK
  /\ subject = "upload" => UploadTypeOK
  /\ subject = "workspace" => SaveTypeOK
  /\ subject = "tab transfer" => TransferTypeOK
  /\ subject = "history" => HistoryTypeOK
  /\ subject = "vault" => VaultTypeOK
  /\ subject = "typing" => TypingTypeOK
  /\ subject = "scripts" => ScriptTypeOK
=============================================================================
