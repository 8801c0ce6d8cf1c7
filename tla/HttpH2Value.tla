----------------------------- MODULE HttpH2Value ----------------------------
(***************************************************************************)
(* The header value parsers of HTTP/2 requests (fw/http_parser.c), one     *)
(* table per C function.  A value has no line end: it ends where HPACK     *)
(* says, wherever the automaton stands, and each operation says whether    *)
(* that is an acceptable end.                                              *)
(***************************************************************************)
EXTENDS HttpH1Value

LOCAL Comma == {","}
LOCAL WSC == WS \cup {","}
LOCAL Quote == {"\""}
LOCAL IntDelim == WS \cup CRLF \cup {","}
LOCAL All == nctl \cup CRLF
LOCAL Fine == <<<<"boundary", "">>>>

__h2_req_parse_authority ==
  [Req_I_A_Start |->
     <<Jp(Alnum \cup {".", "-"}, "Req_I_A"), Neq(Fx(Mv({"["}, "Req_I_A_v6"), "VALUE"))>>,
   Req_I_A |->
     <<End(Flag(Mv(Alnum \cup {".", "-"}, "Req_I_A"), "VALUE"), <<<<"flush", "VALUE">>>>),
       Flush("Req_I_A_End")>>,
   Req_I_A_End |-> <<With(Neq(Fx(Mv({":"}, "Req_I_A_Port"), "")), <<Acc0>>)>>,
   Req_I_A_v6 |->
     <<Flag(Mv(Xdigit \cup {":"}, "Req_I_A_v6"), "VALUE"), Need({"]"}),
       [Flush("Req_I_A_End") EXCEPT !.by = "over"]>>,
   Req_I_A_Port |->
     <<[Part(Bad(End(With(Fx(Num(CRLFWS, USHRT_MAX, "Req_I_A_Port"), "VALUE"),
                     <<Put("port"), Pos("port"), Acc0>>), <<Pos("port")>>), "NEQ"), <<"port">>)
         EXCEPT !.by = "all"]>>]

__h2_req_parse_accept ==
  [Req_I_WSAccept |-> <<Mv(WS, "Req_I_WSAccept"), Go("Req_I_Accept")>>,
   Req_I_Accept |->
     <<Neq(Str("text", "Req_I_AfterText")), Neq(Str("*", "Req_I_AfterStar")), Ini,
       Jp(token, "Req_I_Type")>>,
   Req_I_AfterText |-> <<Mv({"/"}, "Req_I_AfterTextSlash"), Mv(All, "Req_I_Type")>>,
   Req_I_AfterTextSlash |-> <<Mv({"*"}, "I_EoT"), Go("Req_I_AfterTextSlashToken")>>,
   Req_I_AfterTextSlashToken |->
     <<End(Str("html", "Req_I_AcceptHtml"), <<Set("ACCEPT_HTML")>>), Ini, Go("Req_I_Subtype")>>,
   Req_I_AfterStar |-> <<Mv({"/"}, "Req_I_StarSlashStar")>>,
   Req_I_StarSlashStar |-> <<Mv({"*"}, "I_EoT")>>,
   Req_I_AcceptHtml |->
     <<With(Jp(WSC \cup {";"}, "I_EoT"), <<Set("ACCEPT_HTML")>>), Go("Req_I_Subtype")>>,
   Req_I_Type |-> <<Neq(Run(token, "Req_I_Type")), Mv({"/"}, "Req_I_Slash")>>,
   Req_I_Slash |-> <<Mv({"*"}, "I_EoT"), Jp(token, "Req_I_Subtype")>>,
   Req_I_Subtype |-> <<Run(token, "Req_I_Subtype"), Mn(All, "I_EoT")>>,
   Req_I_QValue |-> <<Mv(Digit \cup {"."}, "Req_I_QValue"), Go("I_EoT")>>,
   Req_I_WSAcceptOther |-> <<Mv(WS, "Req_I_WSAcceptOther"), Jp(token, "Req_I_AcceptOther")>>,
   Req_I_AcceptOther |->
     <<Neq(Str("q=", "Req_I_QValue")), Ini, Run(token, "Req_I_AcceptOther"),
       Mv({"="}, "Req_I_ParamValue")>>,
   Req_I_ParamValue |->
     <<Neq(Mv(Quote, "Req_I_QuotedString")), Run(token, "Req_I_ParamValue"), Mn(All, "I_EoT")>>,
   Req_I_QuotedString |->
     <<Neq(Run(token, "Req_I_QuotedString")), First,
       Neq(Mv(All \ Quote, "Req_I_QuotedString")), Mv(Quote, "I_EoT")>>,
   I_EoT |->
     <<Mv(WS, "I_EoT"), Mv(Comma, "Req_I_WSAccept"), Mv({";"}, "Req_I_WSAcceptOther")>>]

__h2_req_parse_authorization ==
  [Req_I_Auth |-> <<End(Run(ctext_vchar, "Req_I_Auth"), <<Set("AUTHORIZATION")>>)>>]

LOCAL CcStr(s, x) ==
  End(With(Str(s, "Req_I_CC_Flag"), <<AccF(x)>>), <<Set(x)>>)
LOCAL CcInt(x) ==
  <<End(With(Num(IntDelim, UINT_MAX, "Req_I_EoT"), <<Put(x), Set(x)>>), <<Acc0>>)>>

CacheControlNames ==
  [Req_I_CC |-> <<Jp(Lc("m"), "Req_I_CC_m"), Jp(Lc("n"), "Req_I_CC_n"),
                  Jp(Lc("o"), "Req_I_CC_o"), Go("Req_I_CC_Ext")>>,
   Req_I_CC_m |->
     <<End(Str("max-age=", "Req_I_CC_MaxAgeV"), <<Put("max_age"), Set("max_age")>>),
       End(Str("min-fresh=", "Req_I_CC_MinFreshV"), <<Put("min_fresh"), Set("min_fresh")>>),
       End(Str("max-stale", "Req_I_CC_MaxStale"), <<Top("max_stale"), Set("max_stale")>>),
       Ini, Go("Req_I_CC_Ext")>>,
   Req_I_CC_n |->
     <<CcStr("no-cache", "no_cache"), CcStr("no-store", "no_store"),
       CcStr("no-transform", "no_transform"), Ini, Go("Req_I_CC_Ext")>>,
   Req_I_CC_o |-> <<CcStr("only-if-cached", "oifcached"), Ini, Go("Req_I_CC_Ext")>>,
   Req_I_CC_Flag |-> <<With(Jp(WSC, "Req_I_EoT"), <<OrAcc>>), Go("Req_I_CC_Ext")>>]

CacheControlValues ==
  [Req_I_CC_MaxAgeV |-> CcInt("max_age"),
   Req_I_CC_MinFreshV |-> CcInt("min_fresh"),
   Req_I_CC_MaxStale |->
     <<End(Mv({"="}, "Req_I_CC_MaxStaleV"), <<Acc0>>),
       With(Jp(WSC, "Req_I_EoT"), <<Top("max_stale"), Set("max_stale")>>), Go("Req_I_CC_Ext")>>,
   Req_I_CC_MaxStaleV |-> CcInt("max_stale"),
   Req_I_CC_Ext |->
     <<End(Run(qetoken, "Req_I_CC_Ext"), <<Acc0>>), End(Mv(WSC, "Req_I_EoT"), <<Acc0>>)>>,
   Req_I_EoT |-> <<End(Mv(WSC, "Req_I_EoT"), <<Acc0>>), Do(<<Acc0>>), Jp(token, "Req_I_CC")>>]

__h2_req_parse_content_length ==
  [I_ContLen |-> <<End(Num(WS \cup CRLF, ULONG_MAX, "@neq"), <<Put("content_length")>>)>>]

__h2_req_parse_content_type_media ==
  [I_ContType |-> <<If(IsNot("POST"), Go("I_EoL")), Go("I_ContTypeMediaType")>>,
   I_ContTypeMediaType |->
     <<End(Fx(Str("multipart/form-data", "I_ContTypeMaybeMultipart"), ""), <<Set("MULTIPART")>>),
       If(<<"chunk", 10>>, With(Go("I_ContTypeOtherSubtype"), <<<<"init", "">>>>)),
       Ini, Go("I_ContTypeOtherType")>>,
   I_ContTypeMaybeMultipart |->
     <<With(End(Fx(Mv({";"}, "I_ContTypeParamOWS"), ""), Fine), <<Set("MULTIPART")>>),
       End(Fx(Mv(WS, "I_ContTypeMultipartOWS"), ""), Fine), Go("I_ContTypeOtherSubtype")>>,
   I_ContTypeMultipartOWS |->
     <<End(Fx(Mv(WS, "I_ContTypeMultipartOWS"), ""), Fine),
       With(End(Fx(Mv({";"}, "I_ContTypeParamOWS"), ""), Fine), <<Set("MULTIPART")>>)>>]

__h2_req_parse_content_type_other ==
  [I_ContTypeOtherType |->
     <<End(Fx(Run(token, "I_ContTypeOtherType"), ""), Fine), Need({"/"}),
       End(Fx(Mv(All, "I_ContTypeOtherSubtype"), ""), Fine)>>,
   I_ContTypeOtherSubtype |->
     <<End(Fx(Run(token, "I_ContTypeOtherSubtype"), ""), Fine), Do(<<<<"eat", "">>>>),
       Go("I_ContTypeOtherTypeOWS")>>,
   I_ContTypeOtherTypeOWS |->
     <<End(Fx(Mv(WS, "I_ContTypeOtherTypeOWS"), ""), Fine),
       End(Fx(Mv({";"}, "I_ContTypeParamOWS"), ""), Fine)>>,
   I_EoL |-> <<End(Fx(Run(ctext_vchar, "I_EoL"), ""), Fine)>>]

__h2_req_parse_content_type_param ==
  [I_ContTypeParamOWS |-> <<End(Fx(Mv(WS, "I_ContTypeParamOWS"), ""), Fine), Go("I_ContTypeParam")>>,
   I_ContTypeParam |->
     <<If(IsNot("MULTIPART"), Go("I_ContTypeParamOther")),
       With(Fx(Str("boundary=", "I_ContTypeBoundaryValue"), ""),
            <<Not("HAS_BOUNDARY"), Set("HAS_BOUNDARY")>>),
       Ini, Go("I_ContTypeParamOther")>>,
   I_ContTypeParamOther |->
     <<Neq(Fx(Run(token, "I_ContTypeParamOther"), "")),
       End(Fx(Mv({"="}, "I_ContTypeParamValue"), ""), Fine)>>]

__h2_req_parse_content_type_value ==
  [I_ContTypeParamValue |->
     <<End(Fx(Mv(Quote, "I_ContTypeParamValueQuoted"), ""), Fine),
       Go("I_ContTypeParamValueUnquoted")>>,
   I_ContTypeParamValueUnquoted |->
     <<End(Fx(Run(token, "I_ContTypeParamValueUnquoted"), "VALUE"), Fine),
       End(Fx(Mn(All, "I_ContTypeParamValueOWS"), ""), Fine)>>,
   I_ContTypeParamValueOWS |->
     <<End(Fx(Mv(WS, "I_ContTypeParamValueOWS"), ""), Fine),
       End(Fx(Mv({";"}, "I_ContTypeParamOWS"), ""), Fine)>>,
   I_ContTypeParamValueQuoted |->
     <<Neq(Fx(Run(token, "I_ContTypeParamValueQuoted"), "VALUE")), Do(<<<<"eat", "VALUE">>>>),
       Neq(Fx(Mv({"\\"}, "I_ContTypeParamValueEscapedChar"), "")),
       End(Fx(Mv(Quote, "I_ContTypeParamValueOWS"), ""), Fine),
       Neq(Fx(Mv(All \ CRLF, "I_ContTypeParamValueQuoted"), ""))>>,
   I_ContTypeParamValueEscapedChar |->
     <<Neq(Fx(Mv(All \ CRLF, "I_ContTypeParamValueQuoted"), "VALUE"))>>]

__h2_req_parse_content_type_boundary ==
  [I_ContTypeBoundaryValue |->
     <<Do(<<<<"bopen", "">>>>),
       With(Neq(Fx(Mv(Quote, "I_ContTypeBoundaryValueQuoted"), "")), <<<<"raw", 1>>>>),
       Go("I_ContTypeBoundaryValueUnquoted")>>,
   I_ContTypeBoundaryValueUnquoted |->
     <<Part(End(Fx(Run(token, "I_ContTypeBoundaryValueUnquoted"), "VALUE"),
                <<<<"both", 0>>, <<"bclose", 0>>>> \o Fine), <<"both">>),
       Do(<<<<"both", 0>>, <<"eat", "VALUE">>, <<"bclose", 0>>>>),
       Go("I_ContTypeParamValueOWS")>>,
   I_ContTypeBoundaryValueQuoted |->
     <<Part(Neq(Fx(Run(token, "I_ContTypeBoundaryValueQuoted"), "VALUE")), <<"both">>),
       Do(<<<<"both", 0>>, <<"eat", "VALUE">>>>),
       With(Neq(Fx(Mv({"\\"}, "I_ContTypeBoundaryValueEscapedChar"), "")), <<<<"raw", 1>>>>),
       With(Neq(Fx(Mv(All \ (CRLF \cup Quote), "I_ContTypeBoundaryValueQuoted"), "VALUE")),
            <<<<"raw", 1>>, <<"bval", 1>>>>),
       With(End(Fx(Mv(Quote, "I_ContTypeParamValueOWS"), ""), Fine),
            <<<<"raw", 1>>, <<"bclose", 1>>>>)>>,
   I_ContTypeBoundaryValueEscapedChar |->
     <<With(Neq(Fx(Mv(All \ CRLF, "I_ContTypeBoundaryValueQuoted"), "VALUE")),
            <<<<"raw", 1>>, <<"bval", 1>>>>)>>]

__h2_req_parse_cookie ==
  [Req_I_CookieStart |->
     <<Neq(Fx(Run(token, "Req_I_CookieName"), "NAME")),
       If(Some, Fx(Mv({"="}, "Req_I_CookieVal"), "NAME"))>>,
   Req_I_CookieName |->
     <<Neq(Fx(Run(token, "Req_I_CookieName"), "NAME")), Fx(Mv({"="}, "Req_I_CookieVal"), "NAME")>>,
   Req_I_CookieVal |->
     <<Fx(Run(cookie, "Req_I_CookieVal"), "VALUE"), Fx(Jp({";"}, "Req_I_CookieSemicolon"), "VALUE")>>,
   Req_I_CookieSemicolon |-> <<Neq(Fx(Two(All, {" "}, "Req_I_CookieStart", "Req_I_CookieSP"), ""))>>,
   Req_I_CookieSP |-> <<Neq(Fx(Mv({" "}, "Req_I_CookieStart"), ""))>>]

__h2_req_parse_if_nmatch ==
  [I_Etag |->
     <<With(Neq(Fx(Mv(Quote, "I_Etag_Val"), "")), <<Set("ETAG_LIST")>>),
       Neq(Fx(Mv({"W"}, "I_Etag_W"), "")),
       With(Fx(Mv({"*"}, "I_EoL"), ""), <<Not("ETAG_LIST"), Set("ETAG_ANY")>>),
       Neq(Fx(Mv(WS, "I_Etag"), ""))>>,
   I_Etag_W |-> <<Neq(Fx(Mv({"/"}, "I_Etag_We"), ""))>>,
   I_Etag_We |-> <<Neq(Fx(Mv(Quote, "I_Etag_Weak"), ""))>>,
   I_Etag_Weak |-> <<Do(<<Set("WEAK")>>), Go("I_Etag_Val")>>,
   I_Etag_Val |->
     <<If(Is("WEAK"), Neq(Fx(Run(token, "I_Etag_Val"), "WVALUE"))),
       Neq(Fx(Run(token, "I_Etag_Val"), "VALUE")),
       If(Is("WEAK"), With(Fx(Mv(Quote, "I_EoT"), "WVALUE"), <<Clr("WEAK")>>)),
       Fx(Mv(Quote, "I_EoT"), "VALUE")>>,
   I_EoT |-> <<Fx(Mv(WS, "I_EoT"), ""), Neq(Fx(Mv(Comma, "I_Etag"), ""))>>,
   I_EoL |-> <<Fx(Mv(WS, "I_EoL"), "")>>]

__h2_req_parse_referer ==
  [Req_I_Referer |-> <<Run(uri, "Req_I_Referer"), Mv(WS, "Req_I_EoT")>>,
   Req_I_EoT |-> <<Mv(WS, "Req_I_EoT")>>]

(* The same states as in HTTP/1; a value that ends before I_EoL is refused. *)
__h2_parse_http_date == DateWeekDay @@ DateTime

PragmaOpenEnd ==
  [I_Pragma |-> <<Str("no-cache", "I_Pragma_NoCache"), Ini, Go("I_Pragma_Ext")>>,
   I_Pragma_NoCache |-> <<With(Jp(WSC, "I_Pragma_Ext"), <<Set("pragma_no_cache")>>),
                          Go("I_Pragma_Ext")>>,
   I_Pragma_Ext |-> <<Run(qetoken, "I_Pragma_Ext"), Mv(WSC, "I_EoT")>>,
   I_EoT |-> <<Mv(WSC, "I_EoT"), Go("I_Pragma_Ext")>>]

__h2_req_parse_pragma ==
  [I_Pragma |-> <<End(Str("no-cache", "I_Pragma_NoCache"), <<Set("pragma_no_cache")>>), Ini,
                  Go("I_Pragma_Ext")>>,
   I_Pragma_NoCache |-> <<With(Jp(WSC, "I_Pragma_Ext"), <<Set("pragma_no_cache")>>),
                          Go("I_Pragma_Ext")>>,
   I_Pragma_Ext |-> <<Run(qetoken, "I_Pragma_Ext"), Mv(WSC, "I_EoT")>>,
   I_EoT |-> <<Mv(WSC, "I_EoT"), Go("I_Pragma_Ext")>>]

__h2_req_parse_user_agent == [Req_I_UserAgent |-> <<Run(ctext_vchar, "Req_I_UserAgent")>>]

__h2_req_parse_x_forwarded_for ==
  [Req_I_XFF |->
     <<Neq(Fx(Mv(WS, "Req_I_XFF"), "")), Fx(Run(xff, "Req_I_XFF_Node_Id"), "VALUE"),
       If(Some, Fx(Mn(All, "Req_I_XFF_Sep"), "VALUE"))>>,
   Req_I_XFF_Node_Id |->
     <<Fx(Run(xff, "Req_I_XFF_Node_Id"), "VALUE"), Do(<<<<"eat", "VALUE">>>>),
       Go("Req_I_XFF_Sep")>>,
   Req_I_XFF_Sep |-> <<Fx(Mv(WS, "Req_I_XFF_Sep"), ""), Neq(Fx(Mv(Comma, "Req_I_XFF"), ""))>>]

\* __FSM_I_MOVE and __FSM_I_MATCH_MOVE know nothing of the end of the value.
__h2_req_parse_m_override ==
  [m \in DOMAIN Methods |->
     [i \in 1..Len(Methods[m]) |-> End(Str(Methods[m][i], "I_EoT"),
                                       <<Val("method", Methods[m][i])>>)]
     \o <<Ini, Go(IF m = "I_Meth_T" THEN "I_Meth_U" ELSE "I_Meth_Unknown")>>]
  @@ [I_Meth_Start |-> MethStart \o <<[Mv(All, "I_Meth_Unknown") EXCEPT !.end = "POSTPONE"]>>,
      I_Meth_Unknown |-> <<[Run(token, "I_Meth_Unknown") EXCEPT !.end = "POSTPONE"],
                           Do(<<Val("method", "unknown")>>), Mn(All, "I_EoT")>>,
      I_EoT |-> <<Mv(token, "I_Meth_Unknown"), Mv(WS, "I_EoT")>>]

__h2_req_parse_mark ==
  [Req_I_UriMarkStart |-> <<[End(Fx(Mv({"/"}, "Req_I_UriMarkName"), ""), <<<<"unmark", "">>>>)
                              EXCEPT !.end = "RET"]>>,
   Req_I_UriMarkName |->
     <<Neq(With(Fx(Str("__tfw=", "Req_I_UriMarkValue"), ""), <<<<"toread", 3>>>>)),
       With(Rt(All), <<<<"unmark", "">>>>)>>,
   Req_I_UriMarkValue |-> <<Neq(Read("Req_I_UriMarkValue"))>>]
=============================================================================
