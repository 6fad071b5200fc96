---------------------------- MODULE FloydMessages ----------------------------
(***************************************************************************)
(* The message classes of floyd (floyd.pb.cc, floyd.pb.h) as tables.  Each *)
(* class has its own code for every operation, and for each operation a    *)
(* table is taken from that code:                                          *)
(*                                                                         *)
(*   Default             the values its accessors return when unset        *)
(*   Parse               MergePartialFromCodedStream: number, field, kind  *)
(*                       and label of every case                           *)
(*   Write               SerializeWithCachedSizes: the fields in the order *)
(*                       in which they are written, and their numbers      *)
(*   Clear, Size, Merge  the fields that Clear resets, ByteSize counts and *)
(*                       MergeFrom copies                                  *)
(*   Required, Checked   IsInitialized: the has bits it asks for, and the  *)
(*                       messages inside that it looks into                *)
(***************************************************************************)
EXTENDS Naturals, Sequences

\* A message object: its has bits, its values, the unknown fields it met.
Blank(default) == [has |-> {}, val |-> default, unknown |-> <<>>]

\* Type_IsValid, Entry_OpType_IsValid, StatusCode_IsValid.
Valid == [Type |-> {0, 1, 3, 5, 6, 8, 9, 10, 11, 12, 13},
          OpType |-> {0, 1, 2, 4, 5, 6, 7, 8},
          StatusCode |-> {0, 1, 2, 3}]

\* Entry
EntryDefault ==
  [term |-> 0, key |-> <<>>, value |-> <<>>, optype |-> 0, holder |-> <<>>,
   lease_end |-> 0, server |-> <<>>]
EntryParse ==
  {<<1, "term", "int", "optional">>, <<2, "key", "bytes", "optional">>,
   <<3, "value", "bytes", "optional">>, <<4, "optype", "OpType", "required">>,
   <<5, "holder", "bytes", "optional">>, <<6, "lease_end", "int", "optional">>,
   <<7, "server", "bytes", "optional">>}
EntryWrite ==
  <<<<"term", 1, "int">>, <<"key", 2, "bytes">>, <<"value", 3, "bytes">>,
    <<"optype", 4, "OpType">>, <<"holder", 5, "bytes">>,
    <<"lease_end", 6, "int">>, <<"server", 7, "bytes">>>>
\* Mutant: a field added later, forgotten here.
EntryClearNoServer == DOMAIN EntryDefault \ {"server"}

EntryClear == DOMAIN EntryDefault
EntrySize == DOMAIN EntryDefault
EntryMerge == DOMAIN EntryDefault
EntryRequired == {"optype"}
EntryChecked == {}

\* Lock
LockDefault == [holder |-> <<>>, lease_end |-> 0]
LockParse ==
  {<<1, "holder", "bytes", "required">>, <<2, "lease_end", "int", "required">>}
LockWrite == <<<<"holder", 1, "bytes">>, <<"lease_end", 2, "int">>>>
LockClear == DOMAIN LockDefault
\* Mutant: a field added later, forgotten here.
LockSizeNoLease == {"holder"}

LockSize == DOMAIN LockDefault
LockMerge == DOMAIN LockDefault
LockRequired == {"holder", "lease_end"}
LockChecked == {}

\* Membership
MembershipDefault == [nodes |-> <<>>]
MembershipParse == {<<1, "nodes", "bytes", "repeated">>}
MembershipWrite == <<<<"nodes", 1, "bytes">>>>
MembershipClear == DOMAIN MembershipDefault
MembershipSize == DOMAIN MembershipDefault
MembershipMerge == DOMAIN MembershipDefault
MembershipRequired == {}
MembershipChecked == {}

\* CmdRequest::RequestVote
RequestVoteDefault ==
  [term |-> 0, ip |-> <<>>, port |-> 0, last_log_index |-> 0,
   last_log_term |-> 0]
RequestVoteParse ==
  {<<1, "term", "int", "required">>, <<2, "ip", "bytes", "required">>,
   <<3, "port", "int", "required">>,
   <<4, "last_log_index", "int", "required">>,
   <<5, "last_log_term", "int", "required">>}
RequestVoteWrite ==
  <<<<"term", 1, "int">>, <<"ip", 2, "bytes">>, <<"port", 3, "int">>,
    <<"last_log_index", 4, "int">>, <<"last_log_term", 5, "int">>>>
RequestVoteClear == DOMAIN RequestVoteDefault
RequestVoteSize == DOMAIN RequestVoteDefault
RequestVoteMerge == DOMAIN RequestVoteDefault
RequestVoteRequired ==
  {"term", "ip", "port", "last_log_index", "last_log_term"}
RequestVoteChecked == {}

\* CmdRequest::AppendEntries
AppendEntriesDefault ==
  [term |-> 0, ip |-> <<>>, port |-> 0, prev_log_index |-> 0,
   prev_log_term |-> 0, leader_commit |-> 0, entries |-> <<>>]
AppendEntriesParse ==
  {<<1, "term", "int", "required">>, <<2, "ip", "bytes", "required">>,
   <<3, "port", "int", "required">>,
   <<4, "prev_log_index", "int", "required">>,
   <<5, "prev_log_term", "int", "required">>,
   <<6, "leader_commit", "int", "required">>,
   <<7, "entries", "Entry", "repeated">>}
AppendEntriesWrite ==
  <<<<"term", 1, "int">>, <<"ip", 2, "bytes">>, <<"port", 3, "int">>,
    <<"prev_log_index", 4, "int">>, <<"prev_log_term", 5, "int">>,
    <<"leader_commit", 6, "int">>, <<"entries", 7, "Entry">>>>
AppendEntriesClear == DOMAIN AppendEntriesDefault
AppendEntriesSize == DOMAIN AppendEntriesDefault
\* Mutant: the repeated field is forgotten.
AppendEntriesMergeNoEntries == DOMAIN AppendEntriesDefault \ {"entries"}

AppendEntriesMerge == DOMAIN AppendEntriesDefault
AppendEntriesRequired ==
  {"term", "ip", "port", "prev_log_index", "prev_log_term", "leader_commit"}
AppendEntriesChecked == {"entries"}

\* CmdRequest::KvRequest
KvRequestDefault == [key |-> <<>>, value |-> <<>>]
KvRequestParse ==
  {<<1, "key", "bytes", "required">>, <<2, "value", "bytes", "optional">>}
KvRequestWrite == <<<<"key", 1, "bytes">>, <<"value", 2, "bytes">>>>
KvRequestClear == DOMAIN KvRequestDefault
KvRequestSize == DOMAIN KvRequestDefault
KvRequestMerge == DOMAIN KvRequestDefault
KvRequestRequired == {"key"}
KvRequestChecked == {}

\* CmdRequest::LockRequest
LockRequestDefault == [name |-> <<>>, holder |-> <<>>, lease_end |-> 0]
LockRequestParse ==
  {<<1, "name", "bytes", "required">>, <<2, "holder", "bytes", "required">>,
   <<3, "lease_end", "int", "optional">>}
LockRequestWrite ==
  <<<<"name", 1, "bytes">>, <<"holder", 2, "bytes">>,
    <<"lease_end", 3, "int">>>>
LockRequestClear == DOMAIN LockRequestDefault
LockRequestSize == DOMAIN LockRequestDefault
LockRequestMerge == DOMAIN LockRequestDefault
LockRequestRequired == {"name", "holder"}
LockRequestChecked == {}

\* CmdRequest::AddServerRequest
AddServerRequestDefault == [new_server |-> <<>>]
AddServerRequestParse == {<<1, "new_server", "bytes", "required">>}
AddServerRequestWrite == <<<<"new_server", 1, "bytes">>>>
AddServerRequestClear == DOMAIN AddServerRequestDefault
AddServerRequestSize == DOMAIN AddServerRequestDefault
AddServerRequestMerge == DOMAIN AddServerRequestDefault
AddServerRequestRequired == {"new_server"}
AddServerRequestChecked == {}

\* CmdRequest::RemoveServerRequest
RemoveServerRequestDefault == [old_server |-> <<>>]
RemoveServerRequestParse == {<<1, "old_server", "bytes", "required">>}
RemoveServerRequestWrite == <<<<"old_server", 1, "bytes">>>>
RemoveServerRequestClear == DOMAIN RemoveServerRequestDefault
RemoveServerRequestSize == DOMAIN RemoveServerRequestDefault
RemoveServerRequestMerge == DOMAIN RemoveServerRequestDefault
RemoveServerRequestRequired == {"old_server"}
RemoveServerRequestChecked == {}

\* CmdRequest::ServerStatus
StatusRequestDefault ==
  [term |-> 0, commit_index |-> 0, ip |-> <<>>, port |-> 0]
StatusRequestParse ==
  {<<1, "term", "int", "required">>, <<2, "commit_index", "int", "required">>,
   <<3, "ip", "bytes", "optional">>, <<4, "port", "int", "optional">>}
StatusRequestWrite ==
  <<<<"term", 1, "int">>, <<"commit_index", 2, "int">>, <<"ip", 3, "bytes">>,
    <<"port", 4, "int">>>>
StatusRequestClear == DOMAIN StatusRequestDefault
StatusRequestSize == DOMAIN StatusRequestDefault
StatusRequestMerge == DOMAIN StatusRequestDefault
StatusRequestRequired == {"term", "commit_index"}
StatusRequestChecked == {}

\* CmdResponse::RequestVoteResponse
RequestVoteResponseDefault == [term |-> 0, vote_granted |-> 0]
RequestVoteResponseParse ==
  {<<1, "term", "int", "required">>, <<2, "vote_granted", "int", "required">>}
RequestVoteResponseWrite ==
  <<<<"term", 1, "int">>, <<"vote_granted", 2, "int">>>>
RequestVoteResponseClear == DOMAIN RequestVoteResponseDefault
RequestVoteResponseSize == DOMAIN RequestVoteResponseDefault
RequestVoteResponseMerge == DOMAIN RequestVoteResponseDefault
\* Mutant: the mask of the has bits lacks one.
RequestVoteResponseRequiredTerm == {"term"}

RequestVoteResponseRequired == {"term", "vote_granted"}
RequestVoteResponseChecked == {}

\* CmdResponse::AppendEntriesResponse
AppendEntriesResponseDefault ==
  [term |-> 0, success |-> 0, last_log_index |-> 0]
AppendEntriesResponseParse ==
  {<<1, "term", "int", "required">>, <<2, "success", "int", "required">>,
   <<3, "last_log_index", "int", "optional">>}
AppendEntriesResponseWrite ==
  <<<<"term", 1, "int">>, <<"success", 2, "int">>,
    <<"last_log_index", 3, "int">>>>
AppendEntriesResponseClear == DOMAIN AppendEntriesResponseDefault
AppendEntriesResponseSize == DOMAIN AppendEntriesResponseDefault
AppendEntriesResponseMerge == DOMAIN AppendEntriesResponseDefault
AppendEntriesResponseRequired == {"term", "success"}
AppendEntriesResponseChecked == {}

\* CmdResponse::KvResponse
KvResponseDefault == [value |-> <<>>]
KvResponseParse == {<<1, "value", "bytes", "optional">>}
KvResponseWrite == <<<<"value", 1, "bytes">>>>
KvResponseClear == DOMAIN KvResponseDefault
KvResponseSize == DOMAIN KvResponseDefault
KvResponseMerge == DOMAIN KvResponseDefault
KvResponseRequired == {}
KvResponseChecked == {}

\* CmdResponse::ServerStatus
StatusResponseDefault ==
  [term |-> 0, commit_index |-> 0, role |-> <<>>, leader_ip |-> <<>>,
   leader_port |-> 0, voted_for_ip |-> <<>>, voted_for_port |-> 0,
   last_log_term |-> 0, last_log_index |-> 0, last_applied |-> 0]
StatusResponseParse ==
  {<<1, "term", "int", "required">>, <<2, "commit_index", "int", "required">>,
   <<3, "role", "bytes", "required">>, <<4, "leader_ip", "bytes", "optional">>,
   <<5, "leader_port", "int", "optional">>,
   <<6, "voted_for_ip", "bytes", "optional">>,
   <<7, "voted_for_port", "int", "optional">>,
   <<8, "last_log_term", "int", "optional">>,
   <<9, "last_log_index", "int", "optional">>,
   <<10, "last_applied", "int", "optional">>}
StatusResponseWrite ==
  <<<<"term", 1, "int">>, <<"commit_index", 2, "int">>, <<"role", 3, "bytes">>,
    <<"leader_ip", 4, "bytes">>, <<"leader_port", 5, "int">>,
    <<"voted_for_ip", 6, "bytes">>, <<"voted_for_port", 7, "int">>,
    <<"last_log_term", 8, "int">>, <<"last_log_index", 9, "int">>,
    <<"last_applied", 10, "int">>>>
StatusResponseClear == DOMAIN StatusResponseDefault
StatusResponseSize == DOMAIN StatusResponseDefault
StatusResponseMerge == DOMAIN StatusResponseDefault
StatusResponseRequired == {"term", "commit_index", "role"}
StatusResponseChecked == {}

\* CmdRequest
CmdRequestDefault ==
  [type |-> 0, request_vote |-> Blank(RequestVoteDefault),
   append_entries |-> Blank(AppendEntriesDefault),
   kv_request |-> Blank(KvRequestDefault),
   lock_request |-> Blank(LockRequestDefault),
   server_status |-> Blank(StatusRequestDefault),
   add_server_request |-> Blank(AddServerRequestDefault),
   remove_server_request |-> Blank(RemoveServerRequestDefault)]
CmdRequestParse ==
  {<<1, "type", "Type", "required">>,
   <<2, "request_vote", "RequestVote", "optional">>,
   <<3, "append_entries", "AppendEntries", "optional">>,
   <<4, "kv_request", "KvRequest", "optional">>,
   <<5, "lock_request", "LockRequest", "optional">>,
   <<6, "server_status", "StatusRequest", "optional">>,
   <<7, "add_server_request", "AddServerRequest", "optional">>,
   <<8, "remove_server_request", "RemoveServerRequest", "optional">>}
CmdRequestWrite ==
  <<<<"type", 1, "Type">>, <<"request_vote", 2, "RequestVote">>,
    <<"append_entries", 3, "AppendEntries">>, <<"kv_request", 4, "KvRequest">>,
    <<"lock_request", 5, "LockRequest">>,
    <<"server_status", 6, "StatusRequest">>,
    <<"add_server_request", 7, "AddServerRequest">>,
    <<"remove_server_request", 8, "RemoveServerRequest">>>>
CmdRequestClear == DOMAIN CmdRequestDefault
CmdRequestSize == DOMAIN CmdRequestDefault
CmdRequestMerge == DOMAIN CmdRequestDefault
CmdRequestRequired == {"type"}
CmdRequestChecked ==
  {"request_vote", "append_entries", "kv_request", "lock_request",
   "server_status", "add_server_request", "remove_server_request"}

\* CmdResponse
CmdResponseDefault ==
  [type |-> 0, code |-> 0,
   request_vote_res |-> Blank(RequestVoteResponseDefault),
   append_entries_res |-> Blank(AppendEntriesResponseDefault), msg |-> <<>>,
   kv_response |-> Blank(KvResponseDefault),
   server_status |-> Blank(StatusResponseDefault),
   all_servers |-> Blank(MembershipDefault)]
CmdResponseParse ==
  {<<1, "type", "Type", "required">>, <<2, "code", "StatusCode", "optional">>,
   <<3, "request_vote_res", "RequestVoteResponse", "optional">>,
   <<4, "append_entries_res", "AppendEntriesResponse", "optional">>,
   <<5, "msg", "bytes", "optional">>,
   <<6, "kv_response", "KvResponse", "optional">>,
   <<7, "server_status", "StatusResponse", "optional">>,
   <<8, "all_servers", "Membership", "optional">>}
CmdResponseWrite ==
  <<<<"type", 1, "Type">>, <<"code", 2, "StatusCode">>,
    <<"request_vote_res", 3, "RequestVoteResponse">>,
    <<"append_entries_res", 4, "AppendEntriesResponse">>,
    <<"msg", 5, "bytes">>, <<"kv_response", 6, "KvResponse">>,
    <<"server_status", 7, "StatusResponse">>,
    <<"all_servers", 8, "Membership">>>>
CmdResponseClear == DOMAIN CmdResponseDefault
CmdResponseSize == DOMAIN CmdResponseDefault
CmdResponseMerge == DOMAIN CmdResponseDefault
CmdResponseRequired == {"type"}
CmdResponseChecked ==
  {"request_vote_res", "append_entries_res", "server_status"}

-----------------------------------------------------------------------------

DefaultTable ==
  [Entry |-> EntryDefault, Lock |-> LockDefault,
   Membership |-> MembershipDefault, RequestVote |-> RequestVoteDefault,
   AppendEntries |-> AppendEntriesDefault, KvRequest |-> KvRequestDefault,
   LockRequest |-> LockRequestDefault,
   AddServerRequest |-> AddServerRequestDefault,
   RemoveServerRequest |-> RemoveServerRequestDefault,
   StatusRequest |-> StatusRequestDefault,
   RequestVoteResponse |-> RequestVoteResponseDefault,
   AppendEntriesResponse |-> AppendEntriesResponseDefault,
   KvResponse |-> KvResponseDefault, StatusResponse |-> StatusResponseDefault,
   CmdRequest |-> CmdRequestDefault, CmdResponse |-> CmdResponseDefault]

ParseTable ==
  [Entry |-> EntryParse, Lock |-> LockParse, Membership |-> MembershipParse,
   RequestVote |-> RequestVoteParse, AppendEntries |-> AppendEntriesParse,
   KvRequest |-> KvRequestParse, LockRequest |-> LockRequestParse,
   AddServerRequest |-> AddServerRequestParse,
   RemoveServerRequest |-> RemoveServerRequestParse,
   StatusRequest |-> StatusRequestParse,
   RequestVoteResponse |-> RequestVoteResponseParse,
   AppendEntriesResponse |-> AppendEntriesResponseParse,
   KvResponse |-> KvResponseParse, StatusResponse |-> StatusResponseParse,
   CmdRequest |-> CmdRequestParse, CmdResponse |-> CmdResponseParse]

WriteTable ==
  [Entry |-> EntryWrite, Lock |-> LockWrite, Membership |-> MembershipWrite,
   RequestVote |-> RequestVoteWrite, AppendEntries |-> AppendEntriesWrite,
   KvRequest |-> KvRequestWrite, LockRequest |-> LockRequestWrite,
   AddServerRequest |-> AddServerRequestWrite,
   RemoveServerRequest |-> RemoveServerRequestWrite,
   StatusRequest |-> StatusRequestWrite,
   RequestVoteResponse |-> RequestVoteResponseWrite,
   AppendEntriesResponse |-> AppendEntriesResponseWrite,
   KvResponse |-> KvResponseWrite, StatusResponse |-> StatusResponseWrite,
   CmdRequest |-> CmdRequestWrite, CmdResponse |-> CmdResponseWrite]

ClearTable ==
  [Entry |-> EntryClear, Lock |-> LockClear, Membership |-> MembershipClear,
   RequestVote |-> RequestVoteClear, AppendEntries |-> AppendEntriesClear,
   KvRequest |-> KvRequestClear, LockRequest |-> LockRequestClear,
   AddServerRequest |-> AddServerRequestClear,
   RemoveServerRequest |-> RemoveServerRequestClear,
   StatusRequest |-> StatusRequestClear,
   RequestVoteResponse |-> RequestVoteResponseClear,
   AppendEntriesResponse |-> AppendEntriesResponseClear,
   KvResponse |-> KvResponseClear, StatusResponse |-> StatusResponseClear,
   CmdRequest |-> CmdRequestClear, CmdResponse |-> CmdResponseClear]

SizeTable ==
  [Entry |-> EntrySize, Lock |-> LockSize, Membership |-> MembershipSize,
   RequestVote |-> RequestVoteSize, AppendEntries |-> AppendEntriesSize,
   KvRequest |-> KvRequestSize, LockRequest |-> LockRequestSize,
   AddServerRequest |-> AddServerRequestSize,
   RemoveServerRequest |-> RemoveServerRequestSize,
   StatusRequest |-> StatusRequestSize,
   RequestVoteResponse |-> RequestVoteResponseSize,
   AppendEntriesResponse |-> AppendEntriesResponseSize,
   KvResponse |-> KvResponseSize, StatusResponse |-> StatusResponseSize,
   CmdRequest |-> CmdRequestSize, CmdResponse |-> CmdResponseSize]

MergeTable ==
  [Entry |-> EntryMerge, Lock |-> LockMerge, Membership |-> MembershipMerge,
   RequestVote |-> RequestVoteMerge, AppendEntries |-> AppendEntriesMerge,
   KvRequest |-> KvRequestMerge, LockRequest |-> LockRequestMerge,
   AddServerRequest |-> AddServerRequestMerge,
   RemoveServerRequest |-> RemoveServerRequestMerge,
   StatusRequest |-> StatusRequestMerge,
   RequestVoteResponse |-> RequestVoteResponseMerge,
   AppendEntriesResponse |-> AppendEntriesResponseMerge,
   KvResponse |-> KvResponseMerge, StatusResponse |-> StatusResponseMerge,
   CmdRequest |-> CmdRequestMerge, CmdResponse |-> CmdResponseMerge]

RequiredTable ==
  [Entry |-> EntryRequired, Lock |-> LockRequired,
   Membership |-> MembershipRequired, RequestVote |-> RequestVoteRequired,
   AppendEntries |-> AppendEntriesRequired, KvRequest |-> KvRequestRequired,
   LockRequest |-> LockRequestRequired,
   AddServerRequest |-> AddServerRequestRequired,
   RemoveServerRequest |-> RemoveServerRequestRequired,
   StatusRequest |-> StatusRequestRequired,
   RequestVoteResponse |-> RequestVoteResponseRequired,
   AppendEntriesResponse |-> AppendEntriesResponseRequired,
   KvResponse |-> KvResponseRequired,
   StatusResponse |-> StatusResponseRequired,
   CmdRequest |-> CmdRequestRequired, CmdResponse |-> CmdResponseRequired]

CheckedTable ==
  [Entry |-> EntryChecked, Lock |-> LockChecked,
   Membership |-> MembershipChecked, RequestVote |-> RequestVoteChecked,
   AppendEntries |-> AppendEntriesChecked, KvRequest |-> KvRequestChecked,
   LockRequest |-> LockRequestChecked,
   AddServerRequest |-> AddServerRequestChecked,
   RemoveServerRequest |-> RemoveServerRequestChecked,
   StatusRequest |-> StatusRequestChecked,
   RequestVoteResponse |-> RequestVoteResponseChecked,
   AppendEntriesResponse |-> AppendEntriesResponseChecked,
   KvResponse |-> KvResponseChecked, StatusResponse |-> StatusResponseChecked,
   CmdRequest |-> CmdRequestChecked, CmdResponse |-> CmdResponseChecked]

MessageType == DOMAIN DefaultTable

=============================================================================
